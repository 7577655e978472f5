SPECIFICATION FairSpec
CONSTANTS
  User = {ann, bob}
  MaxPendingWrites = 1
  MaxWrites = 2
  MaxChanges = 1
PROPERTY
  QueueDrains
CHECK_DEADLOCK FALSE
