SPECIFICATION LiveSpec
CONSTANTS
  Fields = {14}
  Late = {}
  MaxBuybacks = 0
  MaxMishaps = 0
  Prompt = TRUE
PROPERTIES BracketEnds
CHECK_DEADLOCK FALSE
