SPECIFICATION Spec
CONSTANTS
  Client = {c1}
  Key = {1, 2, 3}
  OtherKey <- NoOtherKey
  NoPin = 0
  MaxRecords = 0
  MaxSigned = 0
  MaxStarts = 3
  MaxTime = 1
CHECK_DEADLOCK FALSE
INVARIANT RotationFollowed
