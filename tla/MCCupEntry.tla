---------------------------- MODULE MCCupEntry ----------------------------
(***************************************************************************)
(* Instances of CupEntry: one player, of those there are, has to do with   *)
(* every tournament, and the others with the dated ones.                   *)
(***************************************************************************)
EXTENDS CupEntry, TLC

AnyPlayer == CHOOSE p \in Players : TRUE
OneOfAll == [p \in Players |-> IF p = AnyPlayer THEN Cups ELSE Dated]
=============================================================================
