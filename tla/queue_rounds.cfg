SPECIFICATION LiveSpec
CONSTANTS
  Users = {ann, bob}
  Matches = {m1, m2}
  Requests = {}
  Drains = {w1}
  Nobody = nobody
  MaxRound = 1
  Pools = {"cup"}
  PromptDrain = TRUE
PROPERTY EveryonePlays
