SPECIFICATION Spec
CONSTANTS
  Client = {c1, c2}
  Key = {1, 2}
  OtherKey <- MCOtherKey
  NoPin = 0
  MaxRecords = 3
  MaxSigned = 2
  MaxStarts = 3
  MaxTime = 1
SYMMETRY Symmetry
CHECK_DEADLOCK FALSE
INVARIANT RecordsCommitted
INVARIANT NoAlarmWithinStart
PROPERTY HistoryAppended
