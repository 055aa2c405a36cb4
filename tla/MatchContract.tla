--------------------------- MODULE MatchContract ---------------------------
(***************************************************************************)
(* What a match promises the two players in it, with no requests, locks or *)
(* sweeps: each bats at most once, the match is decided at most once, and  *)
(* the standings are credited in the same step, by the innings on record.  *)
(***************************************************************************)
EXTENDS Integers

CONSTANT MaxScore

Sides == {1, 2}
Other(s) == 3 - s
NoScore == -1

VARIABLES innings, decision, winner, wins, losses

vars == <<innings, decision, winner, wins, losses>>

Batted == {s \in Sides : innings[s] # NoScore}

Init ==
  /\ innings \in [Sides -> (0..MaxScore) \cup {NoScore}]
  /\ Batted # Sides
  /\ decision = "open" /\ winner = 0
  /\ wins = [s \in Sides |-> 0] /\ losses = [s \in Sides |-> 0]

Bat(s, x) ==
  /\ decision = "open"
  /\ s \notin Batted
  /\ innings' = [innings EXCEPT ![s] = x]
  /\ UNCHANGED <<decision, winner, wins, losses>>

\* Both innings decide, or the only one takes the match by walkover.
Win(w) ==
  /\ decision = "open"
  /\ w \in Batted
  /\ innings[w] > innings[Other(w)]
  /\ decision' = "won" /\ winner' = w
  /\ wins' = [wins EXCEPT ![w] = @ + 1]
  /\ losses' = [losses EXCEPT ![Other(w)] = @ + 1]
  /\ UNCHANGED innings

TieMatch ==
  /\ decision = "open"
  /\ Batted = Sides /\ innings[1] = innings[2]
  /\ decision' = "tied"
  /\ UNCHANGED <<innings, winner, wins, losses>>

\* A match not fully played may end without a result.
Void ==
  /\ decision = "open"
  /\ Batted # Sides
  /\ decision' = "void"
  /\ UNCHANGED <<innings, winner, wins, losses>>

Next ==
  \/ \E s \in Sides : (\E x \in 0..MaxScore : Bat(s, x)) \/ Win(s)
  \/ TieMatch \/ Void

Spec == Init /\ [][Next]_vars
=============================================================================
