\* A task that waits for another, and two dispatch passes that overlap.
CONSTANTS
  t1 = t1
  t2 = t2
  s1 = s1
  s2 = s2
  s3 = s3
  r1 = r1
  Tasks = {t1, t2}
  DependsOn <- Chain
  Sessions = {s1, s2}
  Refs = {}
  Artifacts = {"quality-report", "ci-report", "pr", "conflict"}
  OpIds = {}
  Keys = {}
  Unset = Unset
  MaxConcurrent = 2
  DispatchOrder <- InOrder
  GraphOrder <- InOrder
  Overlapping = {}
  Passes = {1, 2}
  OperatorPlans = {}
  DeliveryKinds = {"start-finalization", "open-review"}
  MaxKicks = 1
  MaxFaults = 0
  MaxCrashes = 0
  MaxCalls = 0
SPECIFICATION FairSpec
INVARIANT DependentsWait
PROPERTY DueTaskIsTaken
\* the work may all be done
CHECK_DEADLOCK FALSE
