\* Two tasks, one after the other; every transition with the arguments that make
\* a difference, and two restacks, each operation id used with one key.
CONSTANTS
  parent = parent
  child = child
  s1 = s1
  s2 = s2
  r1 = r1
  op1 = op1
  op2 = op2
  k1 = k1
  k2 = k2
  Tasks = {parent, child}
  DependsOn <- Chain
  Sessions = {s1, s2}
  Refs = {r1}
  Artifacts = {"pr"}
  OpIds = {op1, op2}
  Keys = {k1, k2}
  Unset = Unset
  CommandSet <- AllCommands
  BusyVersions = {1, 2, 3, 4, 5, 6, 7, 8, 9, 10, 11, 12, 13, 14}
  LifecycleVersions = {1, 2, 3, 4, 5, 6, 7, 8, 9, 10}
  RestackVersions = {1, 2, 3, 4, 5, 6, 7, 8, 9, 10, 11, 12, 13, 14, 15}
SPECIFICATION MCSpec
INVARIANT RunsFitStatus
INVARIANT StatusIsRollup
INVARIANT BlockedIsCovered
PROPERTY NothingIsUndone
PROPERTY EventsTellEveryChange
\* a workflow whose tasks are all settled takes no further command
CHECK_DEADLOCK FALSE
