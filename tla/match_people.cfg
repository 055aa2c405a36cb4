SPECIFICATION Spec
CONSTANTS
  Requests = {r1, r2, r3}
  NoRequest = NoRequest
  MaxScore = 1
  Bot = 0
  Sweeps = {"close"}
  SerialClient = FALSE
  PromptHandlers = TRUE
SYMMETRY RequestSymmetry
INVARIANTS TypeOK CountedOnce PlayedMatchStands QueuedMayPlay
PROPERTIES TurnRespected ImplementsContract
