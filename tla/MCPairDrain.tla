---------------------------- MODULE MCPairDrain ----------------------------
(***************************************************************************)
(* Three players for TLC, their tiers one, two and three apart, and one    *)
(* pair that nothing can be scheduled for.                                 *)
(***************************************************************************)
EXTENDS PairDrain, TLC

CONSTANTS ann, bob, cat

Tiers == (ann :> 1) @@ (bob :> 2) @@ (cat :> 4)
Unschedulable == {{ann, bob}}
=============================================================================
