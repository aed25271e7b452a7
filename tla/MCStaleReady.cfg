\* One task whose dispatch fails twice after it was made ready.
CONSTANTS
  t1 = t1
  t2 = t2
  s1 = s1
  s2 = s2
  s3 = s3
  r1 = r1
  Tasks = {t1}
  DependsOn <- NoDependencies
  Sessions = {s1}
  Refs = {}
  Artifacts = {"quality-report", "ci-report", "pr", "conflict"}
  OpIds = {}
  Keys = {}
  Unset = Unset
  MaxConcurrent = 1
  DispatchOrder <- InOrder
  GraphOrder <- InOrder
  Overlapping = {}
  Passes = {1}
  OperatorPlans = {}
  DeliveryKinds = {"start-finalization", "complete-without-pr"}
  MaxKicks = 1
  MaxFaults = 2
  MaxCrashes = 0
  MaxCalls = 0
SPECIFICATION FairSpec
PROPERTY StaleReadyIsRecovered
\* the work may all be done
CHECK_DEADLOCK FALSE
