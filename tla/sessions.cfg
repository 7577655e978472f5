CONSTANTS
  Chunk <- MCChunk
  Empty = ""
  Slash = "/"
  NoDoc = NoDoc
  Device = {d1}
  alice = alice
  bob = bob
  User = {alice, bob}
  NoUser = NoUser
  Names <- OwnNames
  Amounts <- NoAmount
  Image <- NoImages
  kMaxPendingWrites = 2
  MaxEdits = 2
  MaxSessions = 3
  MaxLost = 1
SPECIFICATION Spec
CHECK_DEADLOCK FALSE
INVARIANTS TypeOK CaughtUp IsolatedUnlessLeaked
PROPERTY SettledRowsStay
