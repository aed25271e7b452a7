\* One task that the scheduler, an operator, the babysitter and the recovery scan
\* compete for.
CONSTANTS
  t1 = t1
  t2 = t2
  s1 = s1
  s2 = s2
  s3 = s3
  r1 = r1
  Tasks = {t1}
  DependsOn <- NoDependencies
  Sessions = {s1, s2}
  Refs = {r1}
  Artifacts = {"quality-report", "ci-report", "pr", "conflict"}
  OpIds = {}
  Keys = {}
  Unset = Unset
  MaxConcurrent = 1
  DispatchOrder <- InOrder
  GraphOrder <- InOrder
  Overlapping = {}
  Passes = {1}
  OperatorPlans = {"retry", "continue"}
  DeliveryKinds = {"start-finalization", "open-review"}
  MaxKicks = 1
  MaxFaults = 1
  MaxCrashes = 0
  MaxCalls = 1
SPECIFICATION Spec
CONSTRAINT OneDisturbance
INVARIANT NothingIsLeaked
\* the work may all be done
CHECK_DEADLOCK FALSE
