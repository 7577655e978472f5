CONSTANTS
  Chunk <- MCChunk
  Empty = ""
  Slash = "/"
  NoDoc = NoDoc
  Device = {d1}
  alice = alice
  bob = bob
  User = {alice}
  NoUser = NoUser
  Names <- SplitNames
  Amounts <- SplitAmounts
  Image <- OneImage
  kMaxPendingWrites = 2
  MaxEdits = 2
  MaxSessions = 2
  MaxLost = 1
SPECIFICATION Spec
CHECK_DEADLOCK FALSE
INVARIANT ReloadIsStable
