----------------------------- MODULE MCBracket -----------------------------
(***************************************************************************)
(* Instances of Bracket.                                                   *)
(***************************************************************************)
EXTENDS Bracket
=============================================================================
