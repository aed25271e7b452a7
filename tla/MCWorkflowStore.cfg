\* Two callers start, complete and recover runs of one task, or ask for restacks
\* with ids and keys that collide.
CONSTANTS
  parent = parent
  child = child
  s1 = s1
  s2 = s2
  op1 = op1
  op2 = op2
  k1 = k1
  k2 = k2
  kr = kr
  Tasks = {parent, child}
  DependsOn <- Chain
  Sessions = {s1, s2}
  Refs = {}
  Artifacts = {}
  OpIds = {op1, op2}
  Keys = {k1, k2, kr}
  Unset = Unset
  Clients = {p1, p2}
  RequestSet <- AllRequests
  BusyVersions = {1, 2, 3, 4, 5, 6}
  RestackVersions = {1, 2, 3, 4}
SPECIFICATION MCSpec
INVARIANT OneOperationPerKey
INVARIANT LogTellsWorkflow
PROPERTY CommandsAreAtomic
PROPERTY FencedBySession
PROPERTY EveryCallReturns
\* no call is started after the last busy version
CHECK_DEADLOCK FALSE
