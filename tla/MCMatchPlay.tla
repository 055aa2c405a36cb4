---------------------------- MODULE MCMatchPlay ----------------------------
(* Instances of MatchPlay for TLC.  Requests are interchangeable, so the   *)
(* safety runs identify states that differ only in which request is which. *)
EXTENDS MatchPlay, TLC

RequestSymmetry == Permutations(Requests)
=============================================================================
