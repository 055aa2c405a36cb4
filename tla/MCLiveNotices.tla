--------------------------- MODULE MCLiveNotices ---------------------------
(***************************************************************************)
(* LiveNotices with one tab: its bell and the way to sign out.             *)
(***************************************************************************)
EXTENDS LiveNotices, TLC

CONSTANTS t1, bell, out
TheirRequests == {bell, out}
Owners == [r \in TheirRequests |-> t1]
TheBell == t1 :> bell
=============================================================================
