\* Three branches and two restacks; two tasks whose changes clash, with a merge
\* target and two runs each, and a clone of two branches; a stack of two tasks with
\* four runs, one push to the base, one operator, one fault; one crash.
CONSTANTS
  Unset = Unset
  a = a
  b = b
  c = c
  op1 = op1
  op2 = op2
  k1 = k1
  k2 = k2
  t1 = t1
  t2 = t2
  o1 = o1
  Stack = {a, b, c}
  StackDeps <- ChainOfThree
  OpIds = {op1, op2}
  Keys = {k1, k2}
  KeyOf <- OwnKeys
  Ancestor = a
  RestackOrder <- Upwards
  MaxHeads = 3
  MaxCalls = 1
  Tasks = {t1, t2}
  main = main
  dev = dev
  Branches = {main, dev}
  TargetOf <- OwnTargets
  Clashes = {{t1, t2}}
  LocalRuns = 2
  MaxConflicts = 1
  DependsOn <- Chain
  LandOrder <- ParentFirst
  Operators = {o1}
  GithubRuns = 4
  MaxBase = 1
  MaxFaults = 1
  MaxCrashes = 1
SPECIFICATION Spec
INVARIANTS
  StatusTellsBase
  MergeIsTold
  OneRepairPerHead
PROPERTIES
  UndisturbedRestackReachesAll
  EveryRestackEnds
  NothingPassesUnchecked
  DeliveryMovesOn
  FinalizingMovesOn
CHECK_DEADLOCK FALSE
