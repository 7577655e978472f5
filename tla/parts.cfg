SPECIFICATION PartsSpec
CONSTANTS
  Row = {milk, bread}
  Pictured = {milk}
  MaxRows = 3
  MaxLogins = 2
  MaxStack = 2
  Cell = {c1, c2}
  URL = {u1, u2}
  None = None
  MaxDate = 3
  MaxAdds = 2
  Account = {ann, bob}
  NoUser = NoUser
  Empty = Empty
  BadAddress = BadAddress
  MaxRequests = 2
  MaxVisits = 3
  MaxWrites = 3
  MaxReads = 2
  NoOne = NoOne
  MaxWrite = 3
  MaxFile = 10
  MaxCrash = 2
INVARIANTS
  PartsTypeOK
  ShownIsStored
  BarsComeBack
  OwnPicture
  OneReminder
  ListOfCurrentUser
  OwnDocument
  KnowsItsOperations
  OneReadOneWrite
  SecondFinishByShutdown
  NothingLost
  SyncedSurvive
PROPERTIES
  PictureComes
  Unblocks
  EndIsNoticed
  RoomIsMade
  ImplementsStore
CHECK_DEADLOCK FALSE
