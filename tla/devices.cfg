CONSTANTS
  Chunk <- MCChunk
  Empty = ""
  Slash = "/"
  NoDoc = NoDoc
  Device = {d1, d2}
  alice = alice
  bob = bob
  User = {alice}
  NoUser = NoUser
  Names <- OwnNames
  Amounts <- NoAmount
  Image <- NoImages
  kMaxPendingWrites = 2
  MaxEdits = 2
  MaxSessions = 3
  MaxLost = 1
SPECIFICATION Spec
SYMMETRY DeviceSymmetry
CHECK_DEADLOCK FALSE
INVARIANT Agreement
PROPERTY RejectedOnlyWhileUndocumented
