\* Two tasks that write to the same files, and room for both.
CONSTANTS
  t1 = t1
  t2 = t2
  s1 = s1
  s2 = s2
  s3 = s3
  r1 = r1
  Tasks = {t1, t2}
  DependsOn <- NoDependencies
  Sessions = {s1, s2}
  Refs = {}
  Artifacts = {"quality-report", "ci-report", "pr", "conflict"}
  OpIds = {}
  Keys = {}
  Unset = Unset
  MaxConcurrent = 2
  DispatchOrder <- InOrder
  GraphOrder <- InOrder
  Overlapping <- BothWrite
  Passes = {1}
  OperatorPlans = {}
  DeliveryKinds = {"start-finalization", "complete-without-pr"}
  MaxKicks = 1
  MaxFaults = 0
  MaxCrashes = 0
  MaxCalls = 0
SPECIFICATION Spec
INVARIANT NoOverlappingWriters
\* the work may all be done
CHECK_DEADLOCK FALSE
