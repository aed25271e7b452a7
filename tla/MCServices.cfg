CONSTANTS
  Unset = Unset
  t1 = t1
  c1 = c1
  c2 = c2
  c3 = c3
  e1 = e1
  Tasks = {t1}
  Endpoints = {e1}
  MaxEvents = 3
  MaxRestarts = 1
  Calls = {c1, c2, c3}
  MaxFaults = 1
  Scripts <- TheScripts
  MaxCrashes = 1
  Silence = 2
  Threshold = 1
  MaxRuns = 1
  MaxReports = 2
SPECIFICATION MCSpec
INVARIANTS
  LockIsExclusive
  ScanMeetsTail
PROPERTIES
  GivenWorktreeIsWhole
  OutcomeFitsLog
  LinesAreReadOnce
  EveryInconsistencyIsTold
  HistoryIsNotPushed
  EveryCallIsServed
  EveryRecordIsSettled
CHECK_DEADLOCK FALSE
