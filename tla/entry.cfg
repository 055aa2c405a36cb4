SPECIFICATION LiveSpec
CONSTANTS
  Players = {p1, p2}
  Cups = {c1, c2}
  Dated = {c1}
  Choice <- OneOfAll
  MaxRequests = 2
  Capacity = 1
  MaxMoves = 2
INVARIANT OneLivePlace
PROPERTIES CapacityKept JobYields RunsToTheEnd
CHECK_DEADLOCK FALSE
