--------------------------- MODULE MCMatchQueue ---------------------------
(***************************************************************************)
(* Instances of MatchQueue.  Players, matches, drains and requests are     *)
(* interchangeable, so the run of safety properties permutes them; the     *)
(* liveness run does not.                                                  *)
(***************************************************************************)
EXTENDS MatchQueue, TLC

QueueSymmetry ==
  Permutations(Users) \cup Permutations(Matches) \cup Permutations(Drains)
=============================================================================
