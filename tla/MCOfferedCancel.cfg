CONSTANTS
  Tasks = {t1, t2}
  FirstTask = t1
  Unset = Unset
  MaxMoves = 1
  MaxClicks = 1
SPECIFICATION Spec
INVARIANT
  OfferedCancelIsTaken
CHECK_DEADLOCK FALSE
