SPECIFICATION Spec
CONSTANTS
  t1 = t1
  bell = bell
  out = out
  Tabs = {t1}
  Requests <- TheirRequests
  TabOf <- Owners
  SignOuts = {out}
  Bell <- TheBell
  Notices = {n1}
  Listed = 2
  MaxPairs = 2
  MaxFaults = 1
  MaxAdds = 2
INVARIANTS TypeOK
PROPERTIES ReadStaysRead NoticeShown
CHECK_DEADLOCK FALSE
