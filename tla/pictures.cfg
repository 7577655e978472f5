CONSTANTS
  Chunk <- MCChunk
  Empty = ""
  Slash = "/"
  NoDoc = NoDoc
  Device = {d1, d2}
  alice = alice
  bob = bob
  User = {alice}
  NoUser = NoUser
  Names <- OwnNames
  Amounts <- NoAmount
  Image <- OneImage
  kMaxPendingWrites = 1
  MaxEdits = 3
  MaxSessions = 2
  MaxLost = 0
SPECIFICATION Spec
CHECK_DEADLOCK FALSE
INVARIANTS PictureBehindRow NeverUnwrapsNil
SYMMETRY DeviceSymmetry
