SPECIFICATION Spec
CONSTANTS
  Requests = {r1}
  Handlers = {h1, h2}
  Edits = {"failed"}
  MaxBuybacks = 2
  MaxRound = 1
INVARIANTS TypeOK OneGrantPerPayment PaymentNotForgotten
PROPERTIES NoSecondCharge
SYMMETRY HandlerSymmetry
CHECK_DEADLOCK FALSE
