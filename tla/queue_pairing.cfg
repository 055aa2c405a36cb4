SPECIFICATION Spec
CONSTANTS
  Users = {ann, bob}
  Matches = {m1, m2}
  Requests = {r1}
  Drains = {w1, w2}
  Nobody = nobody
  MaxRound = 0
  Pools = {"cup", "casual"}
  PromptDrain = TRUE
SYMMETRY QueueSymmetry
INVARIANTS TypeOK NoDoublePairing MembersWait
