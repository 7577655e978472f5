SPECIFICATION Spec
CONSTANTS
  User = {ann, bob}
  MaxPendingWrites = 2
  MaxWrites = 3
  MaxChanges = 1
INVARIANTS
  TypeOK
  AssertsHold
  PipelineIsFront
  SentAsItsUser
PROPERTIES
  ReportedAsHandled
  ImplementsWriteQueue
CHECK_DEADLOCK FALSE
