SPECIFICATION SessionSpec
CONSTANTS
  t1 = t1
  t2 = t2
  page = page
  bell = bell
  other = other
  out = out
  Tabs <- TwoTabs
  Requests <- TheirRequests
  TabOf <- Owners
  SignOuts = {out}
  MaxPairs = 3
  MaxFaults = 1
INVARIANTS OnePairPerToken
PROPERTIES RequestsSettle
CHECK_DEADLOCK FALSE
