SPECIFICATION LiveSpec
CONSTANTS
  Fields = {3, 10}
  Late = {l1}
  MaxBuybacks = 1
  MaxMishaps = 1
  Prompt = TRUE
INVARIANTS TypeOK OnePlaceAtATime LosersStayOut ScheduledRounds
PROPERTIES BracketEndsUnlessTaken
CHECK_DEADLOCK FALSE
