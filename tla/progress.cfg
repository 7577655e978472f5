CONSTANTS
  Chunk <- MCChunk
  Empty = ""
  Slash = "/"
  NoDoc = NoDoc
  Device = {d1}
  alice = alice
  bob = bob
  User = {alice, bob}
  NoUser = NoUser
  Names <- OwnNames
  Amounts <- NoAmount
  Image <- OneImage
  kMaxPendingWrites = 2
  MaxEdits = 1
  MaxSessions = 2
  MaxLost = 1
SPECIFICATION FairSpec
CHECK_DEADLOCK FALSE
PROPERTIES QueueDrains RequestsEnd
