CONSTANTS
  Chunk <- MCChunk
  Empty = ""
  Slash = "/"
  FieldText <- Fields
  Image <- ThreeImages
  MaxSaves = 1
SPECIFICATION Spec
CHECK_DEADLOCK FALSE
INVARIANT NoEmptyAmount
