------------------------- MODULE MatchQueueProofs -------------------------
(***************************************************************************)
(* Proofs about MatchQueue: its types, that a member always waits, and     *)
(* that the pairing job makes nobody two matches while no drain outlives   *)
(* its lock.                                                               *)
(***************************************************************************)
EXTENDS MatchQueue, TLAPS

\* A request under way is for a player, and one that adds has an entry to write.
Named ==
  \A r \in Requests :
    /\ request[r] # "idle" => user[r] \in Users
    /\ request[r] = "adding" => carried[r].pool \in Pool

TypeInv == TypeOK /\ Named

----------------------------------------------------------------------------
(* The writes of the queue keep its types.                                 *)

LEMMA QueueTypes ==
  ASSUME TypeOK, NEW u \in Users, NEW q \in Pool, NEW n \in Nat, Queue(u, q, n)
  PROVE  /\ waiting' \in [Pool -> SUBSET Users]
         /\ member' \subseteq Users
         /\ entry' \in [Users -> Entry]
BY DEF TypeOK, Queue, Entry

LEMMA UnqueueTypes ==
  ASSUME TypeOK, NEW S, NEW Q, Unqueue(S, Q)
  PROVE  /\ waiting' \in [Pool -> SUBSET Users]
         /\ member' \subseteq Users
         /\ entry' \in [Users -> Entry]
BY DEF TypeOK, Unqueue, Entry

LEMMA EntryTypes ==
  ASSUME TypeOK, NEW u \in Users, NEW q \in Pool
  PROVE  EntryFor(u, q) \in Entry /\ EntryFor(u, q).pool = q
BY DEF TypeOK, EntryFor, Entry

----------------------------------------------------------------------------
(* Type correctness, one group of actions at a time.                       *)

LEMMA StartTypes ==
  ASSUME TypeInv, NEW r \in Requests, NEW u \in Users,
         NEW at \in {"adding", "leaving", "dropping"}, NEW e \in Entry,
         at = "adding" => e.pool \in Pool, Start(r, u, at, e)
  PROVE  TypeInv'
<1> USE DEF redis, rows, field, cup, pairing, enroller
<1>1. TypeOK'
  BY DEF TypeInv, TypeOK, Start
<1>2. Named'
  BY DEF TypeInv, TypeOK, Named, Start
<1>3. QED
  BY <1>1, <1>2 DEF TypeInv

LEMMA FinishTypes ==
  ASSUME TypeInv, NEW r \in Requests, Finish(r),
         waiting' \in [Pool -> SUBSET Users], member' \subseteq Users,
         entry' \in [Users -> Entry]
  PROVE  TypeInv'
<1> USE DEF redis, rows, field, cup, pairing, enroller
<1>1. NoEntry \in Entry
  BY DEF Entry
<1>2. TypeOK'
  BY <1>1 DEF TypeInv, TypeOK, Finish
<1>3. Named'
  BY DEF TypeInv, TypeOK, Named, Finish
<1>4. QED
  BY <1>2, <1>3 DEF TypeInv

LEMMA ApiTypes ==
  ASSUME TypeInv, NEW r \in Requests, Api(r)
  PROVE  TypeInv'
<1> USE QueueAssumption
<1>0. TypeOK /\ Named
  BY DEF TypeInv
<1>1. ASSUME NEW u \in Users, NEW q \in Pools, JoinBegins(r, u, q) \/ RequeueBegins(r, u, q)
      PROVE  TypeInv'
  <2>1. Start(r, u, "adding", EntryFor(u, q))
    BY <1>1 DEF JoinBegins, RequeueBegins
  <2>2. q \in Pool
    BY DEF QueueAssumption
  <2>3. QED
    BY <1>0, <2>1, <2>2, EntryTypes, StartTypes
<1>2. ASSUME NEW u \in Users, LeaveBegins(r, u) \/ DropBegins(r, u)
      PROVE  TypeInv'
  <2>1. entry[u] \in Entry
    BY <1>0 DEF TypeOK
  <2>2. CASE LeaveBegins(r, u)
    BY <2>1, <2>2, StartTypes DEF LeaveBegins
  <2>3. CASE DropBegins(r, u)
    BY <2>1, <2>3, StartTypes DEF DropBegins
  <2>4. QED
    BY <1>2, <2>2, <2>3
<1>3. CASE Added(r)
  <2>1. carried[r].pool \in Pool /\ user[r] \in Users
    BY <1>0, <1>3 DEF Named, Added
  <2>2. carried[r] \in Entry
    BY <1>0 DEF TypeOK
  <2>3. carried[r].round \in Nat
    BY <2>2 DEF Entry, NoEntry
  <2>4. QED
    BY <1>0, <1>3, <2>1, <2>3, QueueTypes, FinishTypes DEF Added
<1>4. CASE Left(r)
  BY <1>0, <1>4, UnqueueTypes, FinishTypes DEF Left
<1>5. CASE Dropped(r)
  BY <1>0, <1>5, UnqueueTypes, FinishTypes DEF Dropped
<1>6. CASE Dies(r)
  BY <1>0, <1>6, FinishTypes DEF Dies, redis, TypeOK
<1>7. QED
  BY <1>1, <1>2, <1>3, <1>4, <1>5, <1>6 DEF Api

LEMMA EnrollerTypes ==
  ASSUME TypeInv, NEW u \in Users, Enroller(u)
  PROVE  TypeInv'
<1> USE DEF redis, rows, field, cup, pairing, requests
<1>0. TypeOK /\ Named
  BY DEF TypeInv
<1>1. ASSUME NEW at \in {"idle", "candidate", "adding"}, NEW n \in Nat, EnrollStep(u, at, n),
             waiting' \in [Pool -> SUBSET Users], member' \subseteq Users,
             entry' \in [Users -> Entry]
      PROVE  TypeInv'
  <2>1. TypeOK'
    BY <1>0, <1>1 DEF TypeOK, EnrollStep
  <2>2. Named'
    BY <1>0, <1>1 DEF Named, EnrollStep
  <2>3. QED
    BY <2>1, <2>2 DEF TypeInv
<1>2. enrollRound[u] \in Nat /\ round[u] \in Nat
  BY <1>0 DEF TypeOK
<1>3. CASE EnrollReads(u)
  BY <1>0, <1>1, <1>2, <1>3 DEF EnrollReads, TypeOK
<1>4. CASE EnrollChecks(u)
  BY <1>0, <1>1, <1>2, <1>4 DEF EnrollChecks, TypeOK
<1>5. CASE EnrollAdds(u)
  <2>1. "cup" \in Pool
    BY DEF Pool
  <2>2. QED
    BY <1>0, <1>1, <1>2, <1>5, <2>1, QueueTypes DEF EnrollAdds
<1>6. QED
  BY <1>3, <1>4, <1>5 DEF Enroller

LEMMA DrainStepTypes ==
  ASSUME TypeInv, NEW w \in Drains, NEW at \in {"idle", "draining", "chosen", "clear", "taken"},
         NEW d \in [pool : Pool, players : SUBSET Users, round : Nat], DrainStep(w, at, d),
         waiting' \in [Pool -> SUBSET Users], member' \subseteq Users,
         entry' \in [Users -> Entry],
         players' \in [Matches -> SUBSET Users],
         kind' \in [Matches -> {"casual", "cup", "bracket"}],
         lock' \in Drains \cup {Nobody}
  PROVE  TypeInv'
<1> USE DEF field, cup, requests, enroller
<1>1. TypeOK'
  BY DEF TypeInv, TypeOK, DrainStep
<1>2. Named'
  BY DEF TypeInv, Named, DrainStep
<1>3. QED
  BY <1>1, <1>2 DEF TypeInv

LEMMA NoDealTypes ==
  ASSUME NEW q \in Pool
  PROVE  NoDeal(q) \in [pool : Pool, players : SUBSET Users, round : Nat]
BY DEF NoDeal

LEMMA DrainTypes ==
  ASSUME TypeInv, NEW w \in Drains, Drain(w)
  PROVE  TypeInv'
<1> USE QueueAssumption DEF redis, rows
<1> DEFINE Deal == [pool : Pool, players : SUBSET Users, round : Nat]
<1>0. TypeOK /\ Named
  BY DEF TypeInv
<1>1. deal[w] \in Deal /\ deal[w].pool \in Pool /\ deal[w].players \in SUBSET Users
  BY <1>0 DEF TypeOK
<1>2. NoDeal(deal[w].pool) \in Deal /\ NoDeal("casual") \in Deal /\ NoDeal("cup") \in Deal
  BY <1>1, NoDealTypes DEF Pool
<1>3. \A u \in Users : RoundOf(u) \in Nat /\ entry[u].round \in Nat
  BY <1>0 DEF TypeOK, Entry, NoEntry, RoundOf
<1>4. ASSUME NEW q \in Pools, Acquire(w, q)
      PROVE  TypeInv'
  <2>1. q \in Pool /\ NoDeal(q) \in Deal
    BY NoDealTypes DEF QueueAssumption
  <2>2. QED
    BY <1>0, <1>4, <2>1, DrainStepTypes DEF Acquire, TypeOK
<1>5. ASSUME NEW P \in SUBSET Users, Choose(w, P)
      PROVE  TypeInv'
  <2>1. PICK u \in P : DrainStep(w, "chosen", [deal[w] EXCEPT !.players = P, !.round = RoundOf(u)])
    BY <1>5 DEF Choose
  <2>2. [deal[w] EXCEPT !.players = P, !.round = RoundOf(u)] \in Deal
    BY <1>1, <1>3
  <2>3. QED
    BY <1>0, <1>5, <2>1, <2>2, DrainStepTypes DEF Choose, TypeOK
<1>6. ASSUME NEW u \in Users, ChooseLeftover(w, u)
      PROVE  TypeInv'
  <2>1. [deal[w] EXCEPT !.players = {u}, !.round = entry[u].round] \in Deal
    BY <1>1, <1>3
  <2>2. QED
    BY <1>0, <1>6, <2>1, DrainStepTypes DEF ChooseLeftover, TypeOK
<1>7. CASE Check(w)
  BY <1>0, <1>1, <1>7, DrainStepTypes DEF Check, TypeOK
<1>8. CASE Fails(w)
  BY <1>0, <1>2, <1>8, DrainStepTypes DEF Fails, TypeOK
<1>9. CASE DropsStale(w)
  BY <1>0, <1>2, <1>9, UnqueueTypes, DrainStepTypes DEF DropsStale, TypeOK
<1>10. CASE Take(w)
  <2>1. /\ waiting' \in [Pool -> SUBSET Users]
        /\ member' \subseteq Users
        /\ entry' \in [Users -> Entry]
    BY <1>0, <1>10 DEF Take, TypeOK, Entry
  <2>2. DrainStep(w, "taken", deal[w]) /\ UNCHANGED <<players, kind, lock>>
    BY <1>10 DEF Take
  <2>3. QED
    BY <1>0, <1>1, <2>1, <2>2, DrainStepTypes DEF TypeOK
<1>11. ASSUME NEW m \in Matches, Commit(w, m)
       PROVE  TypeInv'
  <2>1. /\ players' \in [Matches -> SUBSET Users]
        /\ kind' \in [Matches -> {"casual", "cup", "bracket"}]
    BY <1>0, <1>1, <1>11 DEF Commit, TypeOK, Pool
  <2>2. DrainStep(w, "draining", NoDeal(deal[w].pool)) /\ UNCHANGED <<redis, lock>>
    BY <1>11 DEF Commit
  <2>3. QED
    BY <1>0, <1>2, <2>1, <2>2, DrainStepTypes DEF TypeOK
<1>12. CASE NextPool(w)
  BY <1>0, <1>2, <1>12, DrainStepTypes DEF NextPool, TypeOK
<1>13. CASE Release(w)
  BY <1>0, <1>2, <1>13, DrainStepTypes DEF Release, TypeOK
<1>14. CASE Killed(w)
  BY <1>0, <1>2, <1>14, DrainStepTypes DEF Killed, TypeOK
<1>15. QED
  BY <1>4, <1>5, <1>6, <1>7, <1>8, <1>9, <1>10, <1>11, <1>12, <1>13, <1>14 DEF Drain

LEMMA EndsTypes ==
  ASSUME TypeInv, NEW m \in Matches, Ends(m)
  PROVE  TypeInv'
<1> USE DEF redis, field, cup, pairing, requests, enroller
<1>0. TypeOK /\ Named
  BY DEF TypeInv
<1>1. MatchStep(m)
  BY DEF Ends, MatchOver, MatchWon
<1>2. Named'
  BY <1>0, <1>1 DEF Named, MatchStep
<1>3. /\ standing' \in [Users -> {"active", "eliminated", "knockout", "out"}]
      /\ round' \in [Users -> Nat]
  <2>1. CASE MatchOver(m)
    BY <1>0, <2>1 DEF MatchOver, TypeOK
  <2>2. ASSUME NEW W \in SUBSET Users, MatchWon(m, W)
        PROVE  /\ standing' \in [Users -> {"active", "eliminated", "knockout", "out"}]
               /\ round' \in [Users -> Nat]
    BY <1>0, <2>2 DEF MatchWon, TypeOK
  <2>3. QED
    BY <2>1, <2>2 DEF Ends
<1>4. TypeOK'
  BY <1>0, <1>1, <1>3 DEF TypeOK, MatchStep
<1>5. QED
  BY <1>2, <1>4 DEF TypeInv

LEMMA RoundsTypes ==
  ASSUME TypeInv, Rounds
  PROVE  TypeInv'
<1> USE DEF redis, rows, field, pairing, requests, enroller
<1>0. TypeOK /\ Named
  BY DEF TypeInv
<1>1. ASSUME NEW left \in SUBSET Matches, NEW drawn \in [Matches -> SUBSET Users],
             RoundStep(left, drawn),
             standing' \in [Users -> {"active", "eliminated", "knockout", "out"}],
             round' \in [Users -> Nat], current' \in Nat, open' \in BOOLEAN,
             advancing' \subseteq Users
      PROVE  TypeInv'
  <2>1. /\ players' \in [Matches -> SUBSET Users]
        /\ kind' \in [Matches -> {"casual", "cup", "bracket"}]
    BY <1>0, <1>1 DEF RoundStep, TypeOK
  <2>2. UNCHANGED <<redis, pairing, requests, enroller>>
    BY <1>1 DEF RoundStep
  <2>3. TypeOK'
    BY <1>0, <1>1, <2>1, <2>2 DEF TypeOK
  <2>4. Named'
    BY <1>0, <2>2 DEF Named
  <2>5. QED
    BY <2>3, <2>4 DEF TypeInv
<1>2. NoDraw \in [Matches -> SUBSET Users]
  BY DEF NoDraw
<1>3. ASSUME NEW left \in SUBSET Matches, NEW kept \in SUBSET Users, CutField(left, kept)
      PROVE  TypeInv'
  <2>1. /\ standing' \in [Users -> {"active", "eliminated", "knockout", "out"}]
        /\ round' \in [Users -> Nat] /\ current' \in Nat /\ open' \in BOOLEAN
        /\ advancing' \subseteq Users
    BY <1>0, <1>3 DEF CutField, TypeOK
  <2>2. RoundStep(left, NoDraw)
    BY <1>3 DEF CutField
  <2>3. QED
    BY <1>1, <1>2, <2>1, <2>2
<1>4. ASSUME NEW left \in SUBSET Matches, NEW drawn \in [Matches -> SUBSET Users],
             StartBracket(left, drawn)
      PROVE  TypeInv'
  <2>1. /\ standing' \in [Users -> {"active", "eliminated", "knockout", "out"}]
        /\ round' \in [Users -> Nat] /\ current' \in Nat /\ open' \in BOOLEAN
        /\ advancing' \subseteq Users
    BY <1>0, <1>4 DEF StartBracket, TypeOK
  <2>2. RoundStep(left, drawn)
    BY <1>4 DEF StartBracket
  <2>3. QED
    BY <1>1, <2>1, <2>2
<1>5. ASSUME NEW left \in SUBSET Matches, EndCup(left)
      PROVE  TypeInv'
  <2>1. /\ standing' \in [Users -> {"active", "eliminated", "knockout", "out"}]
        /\ round' \in [Users -> Nat] /\ current' \in Nat /\ open' \in BOOLEAN
        /\ advancing' \subseteq Users
    BY <1>0, <1>5 DEF EndCup, TypeOK
  <2>2. RoundStep(left, NoDraw)
    BY <1>5 DEF EndCup
  <2>3. QED
    BY <1>1, <1>2, <2>1, <2>2
<1>6. ASSUME NEW u \in Users, SyncAdvances(u)
      PROVE  TypeInv'
  <2>1. entry' \in [Users -> Entry] /\ advancing' \subseteq Users
    <3>1. entry[u] # NoEntry => [entry[u] EXCEPT !.round = current] \in Entry
      BY <1>0 DEF TypeOK, Entry
    <3>2. QED
      BY <1>0, <1>6, <3>1 DEF SyncAdvances, TypeOK
  <2>2. TypeOK'
    BY <1>0, <1>6, <2>1 DEF SyncAdvances, TypeOK
  <2>3. Named'
    BY <1>0, <1>6 DEF SyncAdvances, Named
  <2>4. QED
    BY <2>2, <2>3 DEF TypeInv
<1>7. QED
  BY <1>3, <1>4, <1>5, <1>6 DEF Rounds

LEMMA TypeStep == TypeInv /\ [Next]_vars => TypeInv'
<1> SUFFICES ASSUME TypeInv, [Next]_vars PROVE TypeInv'
  OBVIOUS
<1>1. CASE LockLapses
  <2>1. TypeOK'
    BY <1>1 DEF LockLapses, TypeInv, TypeOK, redis, rows, field, cup, requests, enroller
  <2>2. Named'
    BY <1>1 DEF LockLapses, TypeInv, Named, requests
  <2>3. QED
    BY <2>1, <2>2 DEF TypeInv
<1>2. CASE UNCHANGED vars
  <2>1. TypeOK'
    BY <1>2 DEF vars, TypeInv, TypeOK
  <2>2. Named'
    BY <1>2 DEF vars, TypeInv, Named
  <2>3. QED
    BY <2>1, <2>2 DEF TypeInv
<1>3. QED
  BY <1>1, <1>2, ApiTypes, EnrollerTypes, DrainTypes, EndsTypes, RoundsTypes DEF Next

LEMMA TypeInit == Init => TypeInv
<1> SUFFICES ASSUME Init PROVE TypeInv
  OBVIOUS
<1>1. TypeOK
  BY DEF Init, TypeOK, Entry, Pool, NoDeal
<1>2. Named
  BY DEF Init, Named
<1>3. QED
  BY <1>1, <1>2 DEF TypeInv

\* Every queue entry, match, drain and request keeps its type: in particular no
\* request writes an entry without a pool, or for nobody.
THEOREM QueueTypesHold == Spec => []TypeOK
<1>1. Spec => []TypeInv
  BY TypeInit, TypeStep, PTL DEF Spec
<1>2. TypeInv => TypeOK
  BY DEF TypeInv
<1>3. QED
  BY <1>1, <1>2, PTL

----------------------------------------------------------------------------
(* A member waits.                                                         *)

WaitInv == TypeInv /\ MembersWait

\* What leaves the queue stops being a member at the same time.
LEMMA UnqueueWaits ==
  ASSUME TypeOK, MembersWait, NEW S, NEW Q, Unqueue(S, Q)
  PROVE  MembersWait'
BY DEF TypeOK, MembersWait, Unqueue

LEMMA QueueWaits ==
  ASSUME TypeOK, MembersWait, NEW u \in Users, NEW q \in Pool, NEW n \in Nat, Queue(u, q, n)
  PROVE  MembersWait'
<1>1. [pool |-> q, round |-> n] # NoEntry
  BY DEF Pool, NoEntry
<1>2. QED
  BY <1>1 DEF TypeOK, MembersWait, Queue

LEMMA QueueUnchangedWaits ==
  ASSUME MembersWait, UNCHANGED redis
  PROVE  MembersWait'
BY DEF MembersWait, redis

LEMMA WaitStep ==
  ASSUME WaitInv, [Next]_vars
  PROVE  MembersWait'
<1>0. TypeOK /\ Named /\ MembersWait
  BY DEF WaitInv, TypeInv
<1>1. ASSUME NEW r \in Requests, Api(r)
      PROVE  MembersWait'
  <2>1. CASE Added(r)
    <3>1. /\ carried[r].pool \in Pool /\ user[r] \in Users
          /\ carried[r] \in Entry
      BY <1>0, <2>1 DEF Named, Added, TypeOK
    <3>2. carried[r].round \in Nat
      BY <3>1 DEF Entry, NoEntry
    <3>3. QED
      BY <1>0, <2>1, <3>1, <3>2, QueueWaits DEF Added
  <2>2. CASE Left(r)
    BY <1>0, <2>2, UnqueueWaits DEF Left
  <2>3. CASE Dropped(r)
    BY <1>0, <2>3, UnqueueWaits DEF Dropped
  <2>4. CASE Dies(r)
    BY <1>0, <2>4, QueueUnchangedWaits DEF Dies
  <2>5. CASE ~(Added(r) \/ Left(r) \/ Dropped(r) \/ Dies(r))
    <3>1. UNCHANGED redis
      BY <1>1, <2>5 DEF Api, JoinBegins, RequeueBegins, LeaveBegins, DropBegins, Start
    <3>2. QED
      BY <1>0, <3>1, QueueUnchangedWaits
  <2>6. QED
    BY <2>1, <2>2, <2>3, <2>4, <2>5
<1>2. ASSUME NEW u \in Users, Enroller(u)
      PROVE  MembersWait'
  <2>1. CASE EnrollAdds(u)
    <3>1. "cup" \in Pool /\ enrollRound[u] \in Nat
      BY <1>0 DEF Pool, TypeOK
    <3>2. QED
      BY <1>0, <2>1, <3>1, QueueWaits DEF EnrollAdds
  <2>2. CASE EnrollReads(u) \/ EnrollChecks(u)
    BY <1>0, <2>2, QueueUnchangedWaits DEF EnrollReads, EnrollChecks
  <2>3. QED
    BY <1>2, <2>1, <2>2 DEF Enroller
<1>3. ASSUME NEW w \in Drains, Drain(w)
      PROVE  MembersWait'
  <2>1. CASE DropsStale(w)
    BY <1>0, <2>1, UnqueueWaits DEF DropsStale
  <2>2. CASE Take(w)
    BY <1>0, <2>2 DEF Take, MembersWait, TypeOK
  <2>3. CASE ~(DropsStale(w) \/ Take(w))
    <3>1. UNCHANGED redis
      BY <1>3, <2>3 DEF Drain, Acquire, Choose, ChooseLeftover, Check, Fails, Commit, NextPool,
                        Release, Killed
    <3>2. QED
      BY <1>0, <3>1, QueueUnchangedWaits
  <2>4. QED
    BY <2>1, <2>2, <2>3
<1>4. CASE LockLapses
  BY <1>0, <1>4, QueueUnchangedWaits DEF LockLapses
<1>5. ASSUME NEW m \in Matches, Ends(m)
      PROVE  MembersWait'
  <2>1. UNCHANGED redis
    BY <1>5 DEF Ends, MatchOver, MatchWon, MatchStep
  <2>2. QED
    BY <1>0, <2>1, QueueUnchangedWaits
<1>6. CASE Rounds
  <2>1. ASSUME NEW u \in Users, SyncAdvances(u)
        PROVE  MembersWait'
    <3>1. entry[u] # NoEntry => [entry[u] EXCEPT !.round = current] # NoEntry
      BY <1>0 DEF TypeOK, Entry, NoEntry, Pool
    <3>2. \A v \in Users : entry[v] # NoEntry => entry'[v] # NoEntry
      BY <1>0, <2>1, <3>1 DEF SyncAdvances, TypeOK
    <3>3. QED
      BY <1>0, <2>1, <3>2 DEF SyncAdvances, MembersWait, TypeOK
  <2>2. ASSUME ~(\E u \in Users : SyncAdvances(u))
        PROVE  MembersWait'
    <3>1. UNCHANGED redis
      BY <1>6, <2>2 DEF Rounds, CutField, StartBracket, EndCup, RoundStep
    <3>2. QED
      BY <1>0, <3>1, QueueUnchangedWaits
  <2>3. QED
    BY <2>1, <2>2
<1>7. CASE UNCHANGED vars
  <2>1. UNCHANGED redis
    BY <1>7 DEF vars, redis
  <2>2. QED
    BY <1>0, <2>1, QueueUnchangedWaits
<1>8. QED
  BY <1>1, <1>2, <1>3, <1>4, <1>5, <1>6, <1>7 DEF Next

\* A member has an entry and waits in a pool, whatever the requests, the enroller
\* and the pairing jobs do to the queue in between.
THEOREM MembersAlwaysWait == Spec => []MembersWait
<1>1. Init => WaitInv
  BY TypeInit DEF WaitInv, MembersWait, Init
<1>2. WaitInv /\ [Next]_vars => WaitInv'
  BY TypeStep, WaitStep DEF WaitInv
<1>3. WaitInv => MembersWait
  BY DEF WaitInv
<1>4. QED
  BY <1>1, <1>2, <1>3, PTL DEF Spec

----------------------------------------------------------------------------
(* Nobody is given two matches.                                            *)

\* A match the pairing job made, not one of the bracket.
Made(m) == kind[m] # "bracket"

\* A drain that is not idle holds the lock.
Exclusive == \A w \in Drains : drain[w] # "idle" => lock = w

\* Whom a drain found free is in no match a drain made.
StillClear ==
  \A w \in Drains : drain[w] \in {"clear", "taken"} =>
    \A m \in Matches : Made(m) => players[m] \cap deal[w].players = {}

PairInv == TypeInv /\ Exclusive /\ StillClear /\ NoDoublePairing

LEMMA PairingUnchanged ==
  ASSUME PairInv, UNCHANGED <<players, kind, lock, drain, deal>>
  PROVE  Exclusive' /\ StillClear' /\ NoDoublePairing'
BY DEF PairInv, Exclusive, StillClear, NoDoublePairing, Made

\* Matches that end, and matches of the bracket, take nothing away from either.
LEMMA MatchesEnd ==
  ASSUME PairInv, UNCHANGED <<lock, drain, deal>>,
         \A m \in Matches : (players'[m] = players[m] /\ kind'[m] = kind[m])
                             \/ players'[m] = {} \/ kind'[m] = "bracket"
  PROVE  Exclusive' /\ StillClear' /\ NoDoublePairing'
<1>1. Exclusive'
  BY DEF PairInv, Exclusive
<1>2. StillClear'
  BY DEF PairInv, StillClear, Made
<1>3. NoDoublePairing'
  BY DEF PairInv, NoDoublePairing
<1>4. QED
  BY <1>1, <1>2, <1>3

LEMMA OthersIdle ==
  ASSUME PairInv, NEW w \in Drains, lock = w \/ lock = Nobody \/ drain[w] # "idle"
  PROVE  \A x \in Drains : x # w => drain[x] = "idle"
BY QueueAssumption DEF PairInv, Exclusive, QueueAssumption

LEMMA DrainPairs ==
  ASSUME PairInv, NEW w \in Drains, Drain(w)
  PROVE  Exclusive' /\ StillClear' /\ NoDoublePairing'
<1>0. TypeOK /\ Exclusive /\ StillClear /\ NoDoublePairing
  BY DEF PairInv, TypeInv
<1>1. ASSUME NEW at \in {"idle", "draining", "chosen"}, NEW d, DrainStep(w, at, d),
             UNCHANGED rows, lock' \in {lock, Nobody, w},
             at # "idle" => lock' = w,
             \A x \in Drains : x # w => drain[x] = "idle"
      PROVE  Exclusive' /\ StillClear' /\ NoDoublePairing'
  <2>1. Exclusive'
    BY <1>0, <1>1 DEF Exclusive, DrainStep, TypeOK
  <2>2. StillClear'
    BY <1>0, <1>1 DEF StillClear, DrainStep, TypeOK
  <2>3. NoDoublePairing'
    BY <1>0, <1>1 DEF NoDoublePairing, rows
  <2>4. QED
    BY <2>1, <2>2, <2>3
<1>2. ASSUME NEW q \in Pools, Acquire(w, q)
      PROVE  Exclusive' /\ StillClear' /\ NoDoublePairing'
  BY <1>1, <1>2, OthersIdle DEF Acquire
<1>3. drain[w] # "idle" => lock = w /\ \A x \in Drains : x # w => drain[x] = "idle"
  BY <1>0, OthersIdle DEF Exclusive
<1>4. ASSUME NEW P \in SUBSET Users, Choose(w, P)
      PROVE  Exclusive' /\ StillClear' /\ NoDoublePairing'
  BY <1>1, <1>3, <1>4 DEF Choose
<1>5. ASSUME NEW u \in Users, ChooseLeftover(w, u)
      PROVE  Exclusive' /\ StillClear' /\ NoDoublePairing'
  BY <1>1, <1>3, <1>5 DEF ChooseLeftover
<1>6. CASE Check(w)
  <2>1. /\ lock' = w /\ UNCHANGED rows
        /\ drain' = [drain EXCEPT ![w] = "clear"] /\ deal' = [deal EXCEPT ![w] = deal[w]]
        /\ \A x \in Drains : x # w => drain[x] = "idle"
    BY <1>3, <1>6 DEF Check, DrainStep
  <2>2. \A m \in Matches : players[m] \cap deal[w].players = {}
    BY <1>6 DEF Check, Playable, InTheWay, Busy
  <2>3. Exclusive'
    BY <1>0, <2>1 DEF Exclusive, TypeOK
  <2>4. StillClear'
    BY <1>0, <2>1, <2>2 DEF StillClear, TypeOK, rows
  <2>5. NoDoublePairing'
    BY <1>0, <2>1 DEF NoDoublePairing, rows
  <2>6. QED
    BY <2>3, <2>4, <2>5
<1>7. CASE Fails(w)
  BY <1>1, <1>3, <1>7 DEF Fails
<1>8. CASE DropsStale(w)
  BY <1>1, <1>3, <1>8 DEF DropsStale
<1>9. CASE Take(w)
  <2>1. /\ lock' = w /\ UNCHANGED rows /\ drain[w] = "clear"
        /\ drain' = [drain EXCEPT ![w] = "taken"] /\ deal' = [deal EXCEPT ![w] = deal[w]]
        /\ \A x \in Drains : x # w => drain[x] = "idle"
    BY <1>3, <1>9 DEF Take, DrainStep
  <2>2. Exclusive'
    BY <1>0, <2>1 DEF Exclusive, TypeOK
  <2>3. StillClear'
    BY <1>0, <2>1 DEF StillClear, TypeOK, rows, Made
  <2>4. NoDoublePairing'
    BY <1>0, <2>1 DEF NoDoublePairing, rows
  <2>5. QED
    BY <2>2, <2>3, <2>4
<1>10. ASSUME NEW m \in Matches, Commit(w, m)
       PROVE  Exclusive' /\ StillClear' /\ NoDoublePairing'
  <2>1. /\ lock' = w /\ drain[w] = "taken"
        /\ drain' = [drain EXCEPT ![w] = "draining"]
        /\ players' = [players EXCEPT ![m] = deal[w].players]
        /\ kind' = [kind EXCEPT ![m] = deal[w].pool]
        /\ \A x \in Drains : x # w => drain[x] = "idle"
    BY <1>3, <1>10 DEF Commit, DrainStep, redis
  <2>2. Exclusive'
    BY <1>0, <2>1 DEF Exclusive, TypeOK
  <2>3. StillClear'
    BY <1>0, <2>1 DEF StillClear, TypeOK
  <2>4. \A n \in Matches : Made(n) => players[n] \cap deal[w].players = {}
    BY <1>0, <2>1 DEF StillClear
  <2>5. NoDoublePairing'
    BY <1>0, <2>1, <2>4 DEF NoDoublePairing, Made, TypeOK
  <2>6. QED
    BY <2>2, <2>3, <2>5
<1>11. CASE NextPool(w)
  BY <1>1, <1>3, <1>11 DEF NextPool
<1>12. CASE Release(w)
  BY <1>1, <1>3, <1>12 DEF Release
<1>13. CASE Killed(w)
  BY <1>1, <1>3, <1>13 DEF Killed
<1>14. QED
  BY <1>2, <1>4, <1>5, <1>6, <1>7, <1>8, <1>9, <1>10, <1>11, <1>12, <1>13 DEF Drain

LEMMA RoundPairs ==
  ASSUME PairInv, NEW left \in SUBSET Matches, NEW drawn \in [Matches -> SUBSET Users],
         RoundStep(left, drawn)
  PROVE  Exclusive' /\ StillClear' /\ NoDoublePairing'
<1>1. UNCHANGED <<lock, drain, deal>>
  BY DEF RoundStep, pairing
<1>2. \A m \in Matches : (players'[m] = players[m] /\ kind'[m] = kind[m])
                          \/ players'[m] = {} \/ kind'[m] = "bracket"
  BY DEF RoundStep
<1>3. QED
  BY <1>1, <1>2, MatchesEnd

LEMMA PairStep ==
  ASSUME PromptDrain, PairInv, [Next]_vars
  PROVE  Exclusive' /\ StillClear' /\ NoDoublePairing'
<1>1. ASSUME NEW r \in Requests, Api(r)
      PROVE  UNCHANGED <<players, kind, lock, drain, deal>>
  BY <1>1 DEF Api, JoinBegins, RequeueBegins, LeaveBegins, DropBegins, Start, Added, Left,
              Dropped, Dies, Finish, rows, pairing
<1>2. ASSUME NEW u \in Users, Enroller(u)
      PROVE  UNCHANGED <<players, kind, lock, drain, deal>>
  BY <1>2 DEF Enroller, EnrollReads, EnrollChecks, EnrollAdds, EnrollStep, rows, pairing
<1>3. CASE LockLapses
  <2>1. drain[lock] = "idle" /\ lock \in Drains /\ lock' = Nobody
        /\ UNCHANGED <<players, kind, drain, deal>>
    BY <1>3 DEF LockLapses, PairInv, TypeInv, TypeOK, rows
  <2>2. \A w \in Drains : drain[w] = "idle"
    BY <2>1 DEF PairInv, Exclusive
  <2>3. Exclusive' /\ StillClear'
    BY <2>1, <2>2 DEF Exclusive, StillClear
  <2>4. NoDoublePairing'
    BY <2>1 DEF PairInv, NoDoublePairing
  <2>5. QED
    BY <2>3, <2>4
<1>4. ASSUME NEW m \in Matches, Ends(m)
      PROVE  Exclusive' /\ StillClear' /\ NoDoublePairing'
  <2>1. MatchStep(m)
    BY <1>4 DEF Ends, MatchOver, MatchWon
  <2>2. /\ UNCHANGED <<lock, drain, deal>>
        /\ players' = [players EXCEPT ![m] = {}]
        /\ kind' = [kind EXCEPT ![m] = "casual"]
    BY <2>1 DEF MatchStep, pairing
  <2>3. \A n \in Matches : (players'[n] = players[n] /\ kind'[n] = kind[n])
                            \/ players'[n] = {} \/ kind'[n] = "bracket"
    BY <2>2 DEF PairInv, TypeInv, TypeOK
  <2>4. QED
    BY <2>2, <2>3, MatchesEnd
<1>5. CASE Rounds
  <2>1. NoDraw \in [Matches -> SUBSET Users]
    BY DEF NoDraw
  <2>2. ASSUME NEW left \in SUBSET Matches, NEW kept \in SUBSET Users, CutField(left, kept)
        PROVE  Exclusive' /\ StillClear' /\ NoDoublePairing'
    BY <2>1, <2>2, RoundPairs DEF CutField
  <2>3. ASSUME NEW left \in SUBSET Matches, NEW drawn \in [Matches -> SUBSET Users],
               StartBracket(left, drawn)
        PROVE  Exclusive' /\ StillClear' /\ NoDoublePairing'
    BY <2>3, RoundPairs DEF StartBracket
  <2>4. ASSUME NEW left \in SUBSET Matches, EndCup(left)
        PROVE  Exclusive' /\ StillClear' /\ NoDoublePairing'
    BY <2>1, <2>4, RoundPairs DEF EndCup
  <2>5. ASSUME NEW u \in Users, SyncAdvances(u)
        PROVE  UNCHANGED <<players, kind, lock, drain, deal>>
    BY <2>5 DEF SyncAdvances, rows, pairing
  <2>6. QED
    BY <1>5, <2>2, <2>3, <2>4, <2>5, PairingUnchanged DEF Rounds
<1>6. CASE UNCHANGED vars
  BY <1>6, PairingUnchanged DEF vars
<1>7. QED
  BY <1>1, <1>2, <1>3, <1>4, <1>5, <1>6, DrainPairs, PairingUnchanged DEF Next

\* As long as no drain outlives the four seconds of its lock, nobody is ever in two
\* matches the pairing job made: with any number of players, jobs, requests and
\* closing rounds, and whatever stale entries they leave in the queue.
THEOREM PromptDrainsNeverPairTwice ==
  ASSUME PromptDrain
  PROVE  Spec => []NoDoublePairing
<1>1. Init => PairInv
  <2>1. Init => Exclusive /\ StillClear /\ NoDoublePairing
    BY DEF Init, Exclusive, StillClear, NoDoublePairing
  <2>2. QED
    BY <2>1, TypeInit DEF PairInv
<1>2. PairInv /\ [Next]_vars => PairInv'
  <2>1. PairInv => TypeInv
    BY DEF PairInv
  <2>2. ASSUME PairInv, [Next]_vars
        PROVE  Exclusive' /\ StillClear' /\ NoDoublePairing'
    BY <2>2, PairStep
  <2>3. QED
    BY <2>1, <2>2, TypeStep DEF PairInv
<1>3. PairInv => NoDoublePairing
  BY DEF PairInv
<1>4. QED
  BY <1>1, <1>2, <1>3, PTL DEF Spec
=============================================================================
