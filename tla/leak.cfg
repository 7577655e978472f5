CONSTANTS
  Chunk <- MCChunk
  Empty = ""
  Slash = "/"
  NoDoc = NoDoc
  Device = {d1}
  alice = alice
  bob = bob
  User = {alice, bob}
  NoUser = NoUser
  Names <- OwnNames
  Amounts <- NoAmount
  Image <- NoImages
  kMaxPendingWrites = 2
  MaxEdits = 1
  MaxSessions = 3
  MaxLost = 0
SPECIFICATION Spec
CHECK_DEADLOCK FALSE
INVARIANT NoForeignItems
