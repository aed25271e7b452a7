CONSTANTS
  Unset = Unset
  w1 = w1
  t1 = t1
  f1 = f1
  f2 = f2
  Workflows = {w1, w2}
  Subscribers = {r1}
  BufferCap = 2
  WireCap = 2
  MaxCursor = 6
  MaxBatch = 3
  MaxLosses = 2
  Tasks = {t1, t2}
  Fetches = {1, 2}
  MaxEvents = 2
  MaxFaults = 1
  MaxAttaches = 2
  MaxRuns = 2
  MaxSaid = 2
  MaxSeeds = 2
  MaxMoves = 1
  MaxClicks = 2
  MaxRoutes = 3
SPECIFICATION Spec
INVARIANTS
  OneRetryPerCanvas
  ShownIsRouted
PROPERTIES
  EveryEventInOrder
  DetachedIsSilent
  ScreensCatchUp
  ShownStaysShown
  ProperPlansAreTaken
  GesturesEnd
CHECK_DEADLOCK FALSE
