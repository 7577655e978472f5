CONSTANTS
  Chunk <- MCChunk
  Empty = ""
  Slash = "/"
  FieldText <- Fields
  Image <- ThreeImages
  MaxSaves = 3
SPECIFICATION FairSpec
CHECK_DEADLOCK FALSE
INVARIANTS TypeOK LockedWhileUploading IndicatorParity PutInOrder
PROPERTY SaveEnds
