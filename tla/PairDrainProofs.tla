-------------------------- MODULE PairDrainProofs --------------------------
(***************************************************************************)
(* What a pass of pair-players keeps to, for any players, tiers, pairs     *)
(* that cannot be scheduled and limits of a pass.                          *)
(***************************************************************************)
EXTENDS PairDrain, FiniteSetTheorems, TLAPS

\* The pair a pass is trying is one, and there is room for its match.
Inv ==
  /\ TypeOK
  /\ stage = "trying" => pair \in Pairs /\ paired < MaxPaired

\* A transaction takes S out of the queue, or the pass stands still.
LEMMA OutTyped ==
  ASSUME TypeOK, NEW S, Out(S)
  PROVE  /\ waiting' \subseteq Users /\ busy' \subseteq waiting' /\ left' \subseteq Users
         /\ mark' \in [Users -> Marks]
BY DEF TypeOK, Out, Marks

LEMMA InvInit == Init => Inv
<1> SUFFICES ASSUME Init PROVE Inv
  OBVIOUS
<1>1. mark \in [Users -> Marks]
  BY DEF Init, Marks
<1>2. paired \in 0..MaxPaired
  BY DrainAssumption DEF Init
<1>3. stage # "trying" /\ stage \in {"idle", "pairing", "trying", "drop", "leftovers"}
  BY DEF Init
<1>4. indexed \in BOOLEAN /\ leaving \in BOOLEAN /\ late \in BOOLEAN
  BY DEF Init
<1> QED
  BY <1>1, <1>2, <1>3, <1>4 DEF Init, Inv, TypeOK

LEMMA InvQueue == Inv /\ Queue => Inv'
<1> SUFFICES ASSUME Inv, Queue PROVE Inv'
  OBVIOUS
<1>1. ASSUME NEW u \in Users, NEW stale \in BOOLEAN, Enters(u, stale) PROVE Inv'
  BY <1>1 DEF Inv, TypeOK, Enters, pass
<1>2. ASSUME NEW u \in Users, Leaves(u) PROVE Inv'
  BY <1>2, OutTyped DEF Inv, TypeOK, Leaves
<1>3. ASSUME NEW u \in Users, MatchEnds(u) PROVE Inv'
  BY <1>3 DEF Inv, TypeOK, MatchEnds, pass
<1>4. ASSUME NEW u \in Users, TimePasses(u) PROVE Inv'
  <2>1. mark[u] + 1 \in Marks
    BY <1>4 DEF Inv, TypeOK, TimePasses, Marks
  <2> QED
    BY <1>4, <2>1 DEF Inv, TypeOK, TimePasses, pass
<1>5. CASE LeaverDrops
  BY <1>5 DEF Inv, TypeOK, LeaverDrops, pass
<1>6. CASE GetsLate
  BY <1>6 DEF Inv, TypeOK, GetsLate, pass
<1> QED
  BY <1>1, <1>2, <1>3, <1>4, <1>5, <1>6 DEF Queue

LEMMA InvPass == Inv /\ (Pass \/ PassBegins(FALSE)) => Inv'
<1> SUFFICES ASSUME Inv, Pass \/ PassBegins(FALSE) PROVE Inv'
  OBVIOUS
<1> USE DrainAssumption
<1>1. ASSUME NEW b \in BOOLEAN, PassBegins(b) PROVE Inv'
  BY <1>1 DEF Inv, TypeOK, PassBegins, Reset
<1>2. ASSUME NEW P \in Pairs, Tries(P) PROVE Inv'
  BY <1>2 DEF Inv, TypeOK, Tries, MayTry, queue
<1>3. CASE Drained
  BY <1>3 DEF Inv, TypeOK, Drained, queue
<1>4. CASE Matched
  <2>1. paired' \in 0..MaxPaired
    BY <1>4 DEF Inv, TypeOK, Matched
  <2> QED
    BY <1>4, <2>1, OutTyped DEF Inv, TypeOK, Matched, Counts
<1>5. CASE DropsStale
  BY <1>5, OutTyped DEF Inv, TypeOK, DropsStale, SetAside, Counts
<1>6. CASE Skips
  BY <1>6, OutTyped DEF Inv, TypeOK, Skips, SetAside
<1>7. CASE Drops
  BY <1>7 DEF Inv, TypeOK, Drops
<1>8. ASSUME NEW u \in Users, GetsBot(u) PROVE Inv'
  BY <1>8, OutTyped DEF Inv, TypeOK, GetsBot
<1>9. ASSUME NEW u \in Users, PassedOver(u) PROVE Inv'
  BY <1>9 DEF Inv, TypeOK, PassedOver, queue
<1>10. CASE PassEnds
  BY <1>10 DEF Inv, TypeOK, PassEnds, Reset, queue
<1>11. CASE PassDies
  BY <1>11 DEF Inv, TypeOK, PassDies, Reset, queue
<1> QED
  BY <1>1, <1>2, <1>3, <1>4, <1>5, <1>6, <1>7, <1>8, <1>9, <1>10, <1>11 DEF Pass

LEMMA InvNext == Inv /\ [Next]_vars => Inv'
<1>1. Inv /\ UNCHANGED vars => Inv'
  BY DEF Inv, TypeOK, vars
<1> QED
  BY <1>1, InvQueue, InvPass DEF Next

\* Every reachable state of the queue and of the pass is well typed.
THEOREM DrainTyped == Spec => []TypeOK
<1>1. Inv => TypeOK
  BY DEF Inv
<1> QED
  BY <1>1, InvInit, InvNext, PTL DEF Spec

LEMMA SpecInv == Spec => []Inv
BY InvInit, InvNext, PTL DEF Spec

----------------------------------------------------------------------------
(* Whoever has waited long enough for the bot may be paired with anybody.  *)

LEMMA PairOfTwo ==
  ASSUME NEW S, NEW u \in S, NEW v \in S, u # v
  PROVE  {u, v} \in kSubset(2, S)
<1>1. IsFiniteSet({v}) /\ Cardinality({v}) = 1
  BY FS_Singleton
<1>2. IsFiniteSet({v} \cup {u}) /\ Cardinality({v} \cup {u}) = 1 + 1
  BY <1>1, FS_AddElement
<1>3. {v} \cup {u} = {u, v}
  OBVIOUS
<1> QED
  BY <1>2, <1>3 DEF kSubset

\* The longer wait of two is at least the wait of either.
LEMMA LongerWait ==
  ASSUME TypeOK, NEW u \in Users, NEW v \in Users
  PROVE  Max({mark[w] : w \in {u, v}}) >= mark[u]
<1> DEFINE W == {mark[w] : w \in {u, v}}
<1>1. mark[u] \in Int /\ mark[v] \in Int
  BY DEF TypeOK, Marks
<1>2. \E x \in W : \A y \in W : x >= y
  <2>1. CASE mark[u] >= mark[v]
    BY <1>1, <2>1
  <2>2. CASE mark[v] >= mark[u]
    BY <1>1, <2>2
  <2> QED
    BY <1>1, <2>1, <2>2
<1>3. \A y \in W : Max(W) >= y
  BY <1>2 DEF Max
<1> QED
  BY <1>3

LEMMA LongWaitTakesAnyone ==
  ASSUME TypeOK, NEW u \in Users, NEW v \in Users, NEW among, mark[u] = 3
  PROVE  Tolerated({u, v}, among)
<1> DEFINE m == Max({mark[w] : w \in {u, v}})
<1>1. m >= 3
  BY LongerWait
<1>2. m # 0 /\ m # 1
  BY <1>1
<1> QED
  BY <1>2 DEF Tolerated

\* A pass that turns to the leftovers because it ran out of pairs has tried each
\* player due a bot with everyone else who waits, and failed.
THEOREM LeftoversHadTheirChance == Spec => BotsAreForLeftovers
<1> DEFINE A == stage = "pairing" /\ stage' = "leftovers" /\ MayTry =>
                  \A u \in left' : \A v \in waiting \ {u} : {u, v} \in excluded
<1>1. Inv /\ Next => A
  <2> SUFFICES ASSUME Inv, Next, stage = "pairing", stage' = "leftovers", MayTry,
                      NEW u \in left', NEW v \in waiting \ {u}
               PROVE  {u, v} \in excluded
    OBVIOUS
  <2>1. Drained
    BY DEF Next, Pass, Queue, PassBegins, Tries, Matched, DropsStale, Skips, Drops, Counts,
           GetsBot, PassedOver, PassEnds, PassDies, Enters, Leaves, MatchEnds,
           TimePasses, LeaverDrops, GetsLate, pass
  <2>2. Candidates = {} /\ u \in waiting /\ mark[u] = 3
    BY <2>1 DEF Drained, BotFallbackIsDue
  <2>3. {u, v} \in kSubset(2, waiting)
    BY <2>2, PairOfTwo
  <2>4. Tolerated({u, v}, waiting)
    BY <2>2, LongWaitTakesAnyone DEF Inv, TypeOK
  <2> QED
    BY <2>2, <2>3, <2>4 DEF Candidates
<1>2. UNCHANGED vars => A
  BY DEF vars
<1>3. Inv /\ [Next]_vars => [A]_vars
  BY <1>1, <1>2
<1>4. Spec => [][A]_vars
  BY SpecInv, <1>3, PTL DEF Spec
<1> QED
  BY <1>4 DEF BotsAreForLeftovers
=============================================================================
