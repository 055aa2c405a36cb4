SPECIFICATION FairSpec
CONSTANTS
  Requests = {r1, r2}
  NoRequest = NoRequest
  MaxScore = 1
  Bot = 2
  Sweeps = {"close", "unplayed", "lifecycle"}
  SerialClient = FALSE
  PromptHandlers = FALSE
INVARIANTS ScorelineTruthful VerdictFollowsScore
PROPERTIES InningsFixed MatchEnds
