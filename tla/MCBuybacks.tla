---------------------------- MODULE MCBuybacks ----------------------------
(***************************************************************************)
(* Instances of Buybacks.  Webhook deliveries are interchangeable.         *)
(***************************************************************************)
EXTENDS Buybacks, TLC

HandlerSymmetry == Permutations(Handlers)
=============================================================================
