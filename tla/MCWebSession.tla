--------------------------- MODULE MCWebSession ---------------------------
(***************************************************************************)
(* WebSession with two tabs: the first has two pages' worth of requests,   *)
(* the second one request and the way to sign out.                         *)
(***************************************************************************)
EXTENDS WebSession, TLC

CONSTANTS t1, t2, page, bell, other, out
TwoTabs == {t1, t2}
TheirRequests == {page, bell, other, out}
Owners == page :> t1 @@ bell :> t1 @@ other :> t2 @@ out :> t2
=============================================================================
