-------------------------- MODULE MatchPlayProofs --------------------------
(***************************************************************************)
(* Proofs about MatchPlay for every set of requests, every range of        *)
(* scores, with or without a bot, whichever sweeps run and however slow a  *)
(* handler is: type correctness, that the innings of a match are written   *)
(* once, that the turn lock is respected, that the stored scoreline is     *)
(* truthful and that the stored verdict follows from it.  Then, for a      *)
(* match between people: that it is counted once, that a played match      *)
(* stands, who may queue, and that it keeps MatchContract.                 *)
(***************************************************************************)
EXTENDS MatchPlay, TLAPS

LEMMA SidesFacts ==
  /\ 1 \in Sides /\ 2 \in Sides
  /\ \A s \in Sides : s = 1 \/ s = 2
  /\ Other(1) = 2 /\ Other(2) = 1
BY DEF Sides, Other

LEMMA EmptyHalves == Empty \in Halves
BY DEF Empty, Halves, ScoreOrNone

LEMMA VerdictTypes ==
  ASSUME NEW h \in Halves
  PROVE  Outcome(h) \in {1, 2, Tie} /\ Walkover(h) \in {1, 2, NoVerdict}
BY DEF Outcome, Walkover, Tie, NoVerdict

LEMMA CreditTypes ==
  ASSUME TypeOK, NEW v \in Verdicts, CreditStandings(v)
  PROVE  wins' \in [Sides -> Nat] /\ losses' \in [Sides -> Nat]
BY DEF TypeOK, CreditStandings

LEMMA EndedTypes ==
  ASSUME TypeOK, NEW h \in Halves, NEW v \in Verdicts, Ended(h, v)
  PROVE  /\ status' \in Status /\ half' \in Halves /\ verdict' \in Verdicts
         /\ quiet' \in 0..2
         /\ wins' \in [Sides -> Nat] /\ losses' \in [Sides -> Nat]
<1>1. wins' \in [Sides -> Nat] /\ losses' \in [Sides -> Nat]
  BY CreditTypes DEF Ended
<1>2. QED
  BY <1>1 DEF Ended, TypeOK, Status

LEMMA FinishTypes ==
  ASSUME TypeOK, NEW r \in Requests, Finish(r)
  PROVE  /\ pc' \in [Requests -> {"idle", "submitting", "batting", "reading", "claiming",
                                  "resolving", "requeueing"}]
         /\ side' \in [Requests -> Sides]
         /\ score' \in [Requests -> ScoreOrNone]
         /\ carried' \in [Requests -> Halves]
BY EmptyHalves, SidesFacts DEF TypeOK, Finish, ScoreOrNone

LEMMA GoResolveTypes ==
  ASSUME TypeOK, NEW r \in Requests, NEW h \in Halves, GoResolve(r, h)
  PROVE  /\ pc' \in [Requests -> {"idle", "submitting", "batting", "reading", "claiming",
                                  "resolving", "requeueing"}]
         /\ side' \in [Requests -> Sides]
         /\ score' \in [Requests -> ScoreOrNone]
         /\ carried' \in [Requests -> Halves]
BY DEF TypeOK, GoResolve
----------------------------------------------------------------------------
(* Type correctness.                                                       *)

LEMMA InitTypes == Init => TypeOK
<1> SUFFICES ASSUME Init PROVE TypeOK
  OBVIOUS
<1>1. innings \in Halves
  BY EmptyHalves DEF Init, Empty, Halves, ScoreOrNone
<1>2. NoRow \in [seen : BOOLEAN, half : Halves]
  BY EmptyHalves DEF NoRow
<1>3. row \in [{"unplayed", "lifecycle"} -> [seen : BOOLEAN, half : Halves]]
  BY <1>2 DEF Init
<1>4. /\ pc \in [Requests -> {"idle", "submitting", "batting", "reading", "claiming",
                              "resolving", "requeueing"}]
      /\ side \in [Requests -> Sides]
      /\ score \in [Requests -> ScoreOrNone]
      /\ carried \in [Requests -> Halves]
  BY EmptyHalves, SidesFacts DEF Init, ScoreOrNone
<1>5. /\ standing \in [Sides -> {"active", "eliminated", "knockout", "out"}]
      /\ round \in [Sides -> Nat]
      /\ wins \in [Sides -> Nat] /\ losses \in [Sides -> Nat]
      /\ rated \in [Sides -> Nat]
  BY DEF Init
<1>6. /\ lapsed \in BOOLEAN /\ roundOver \in BOOLEAN /\ slotOver \in BOOLEAN
      /\ roundOpen \in BOOLEAN /\ tourOver \in BOOLEAN
  BY Zenon DEF Init
<1>7. /\ status \in Status /\ half \in Halves /\ verdict \in Verdicts
      /\ holder \in 0..2 /\ quiet \in 0..2
      /\ rowLock \in Requests \cup {NoRequest}
      /\ queued \subseteq Sides /\ dropped \subseteq Sides
  BY <1>1 DEF Init, Status, OpenStatus, Verdicts, NoVerdict
<1>8. QED
  BY <1>1, <1>3, <1>4, <1>5, <1>6, <1>7, Zenon DEF TypeOK

LEMMA ArriveTypes ==
  ASSUME TypeOK, NEW r \in Requests, Arrive(r)
  PROVE  TypeOK'
<1> USE DEF TypeOK, matchRow, turn, clocks, tournament, field, credits, requests, sweepers
<1>1. ASSUME NEW s \in Sides, NEW x \in Score, SubmitBegin(r, s, x)
      PROVE  TypeOK'
  BY <1>1 DEF SubmitBegin, LockRow, ScoreOrNone
<1>2. ASSUME NEW s \in Sides, PollFindsBot(r, s)
      PROVE  TypeOK'
  BY <1>2 DEF PollFindsBot
<1>3. ASSUME NEW s \in Sides, PollFindsNoBot(r, s)
      PROVE  TypeOK'
  BY <1>3 DEF PollFindsNoBot
<1>4. QED
  BY <1>1, <1>2, <1>3 DEF Arrive

LEMMA HandlerTypes ==
  ASSUME TypeOK, NEW r \in Requests, Handler(r)
  PROVE  TypeOK'
<1>1. CASE SubmitCommit(r)
  <2> DEFINE new == [half EXCEPT ![side[r]] = score[r],
                                 ![Other(side[r])] = OtherHalf(Other(side[r]))]
  <2>1. new \in Halves /\ innings' \in Halves
    BY <1>1, SidesFacts DEF TypeOK, SubmitCommit, OtherHalf, Halves
  <2>2. GoResolve(r, new) \/ Finish(r)
    BY <1>1 DEF SubmitCommit
  <2> HIDE DEF new
  <2>3. /\ half' = new /\ status' = "in_progress" /\ quiet' = 0
        /\ holder' = 0 /\ lapsed' = FALSE /\ rowLock' = NoRequest
        /\ UNCHANGED <<verdict, clocks, tournament, field, credits, queued, sweepers>>
    BY <1>1 DEF SubmitCommit, new
  <2>4. /\ pc' \in [Requests -> {"idle", "submitting", "batting", "reading", "claiming",
                                  "resolving", "requeueing"}]
        /\ side' \in [Requests -> Sides]
        /\ score' \in [Requests -> ScoreOrNone]
        /\ carried' \in [Requests -> Halves]
    BY <2>1, <2>2, FinishTypes, GoResolveTypes
  <2>5. /\ status' \in Status /\ holder' \in 0..2 /\ quiet' \in 0..2
        /\ rowLock' \in Requests \cup {NoRequest}
    BY <2>3 DEF Status, OpenStatus
  <2>6. lapsed' \in BOOLEAN
    BY <2>3
  <2>7. QED
    BY <2>1, <2>3, <2>4, <2>5, <2>6, Zenon
    DEF TypeOK, clocks, tournament, field, credits, sweepers
<1>2. CASE BotBats(r)
  <2>1. innings' \in Halves
    BY <1>2 DEF TypeOK, BotBats, Halves, ScoreOrNone
  <2>2. GoResolve(r, innings') \/ (pc' = [pc EXCEPT ![r] = "reading"] /\ UNCHANGED <<side, score, carried>>)
    BY <1>2 DEF BotBats, AfterBotInnings
  <2>3. QED
    BY <1>2, <2>1, <2>2, GoResolveTypes
    DEF TypeOK, BotBats, Status, OpenStatus, Verdicts, NoVerdict, turn, clocks, tournament,
        field, credits, sweepers
<1>3. CASE BotHasBatted(r)
  <2>1. GoResolve(r, innings) \/ (pc' = [pc EXCEPT ![r] = "reading"] /\ UNCHANGED <<side, score, carried>>)
    BY <1>3 DEF BotHasBatted, AfterBotInnings
  <2>2. innings \in Halves
    BY DEF TypeOK
  <2>3. QED
    BY <1>3, <2>1, <2>2, GoResolveTypes
    DEF TypeOK, BotHasBatted, matchRow, turn, clocks, tournament, field, credits, sweepers
<1>4. CASE PollReads(r)
  BY <1>4, FinishTypes
  DEF TypeOK, PollReads, matchRow, turn, clocks, tournament, field, credits, sweepers
<1>5. CASE ClaimTurn(r)
  <2>1. holder' \in 0..2
    BY <1>5 DEF TypeOK, ClaimTurn, Sides
  <2>2. lapsed' \in BOOLEAN
    BY <1>5 DEF TypeOK, ClaimTurn
  <2>3. Finish(r) /\ quiet' = 0
    BY <1>5 DEF ClaimTurn
  <2>4. UNCHANGED <<status, half, verdict, rowLock, innings, clocks, tournament, field,
                    credits, queued, sweepers>>
    BY <1>5 DEF ClaimTurn
  <2>5. quiet' \in 0..2
    BY <2>3
  <2>6. QED
    BY <2>1, <2>2, <2>3, <2>4, <2>5, FinishTypes, Zenon
    DEF TypeOK, clocks, tournament, field, credits, sweepers
<1>6. CASE ClaimRefused(r)
  BY <1>6, FinishTypes
  DEF TypeOK, ClaimRefused, matchRow, turn, clocks, tournament, field, credits, sweepers
<1>7. CASE ResolveTie(r)
  BY <1>7
  DEF TypeOK, ResolveTie, Status, Verdicts, Tie, turn, clocks, tournament, field, credits, sweepers
<1>8. CASE ResolveWin(r)
  <2>1. carried[r] \in Halves
    BY DEF TypeOK
  <2>2. Outcome(carried[r]) \in {1, 2}
    BY <1>8, <2>1, VerdictTypes DEF ResolveWin
  <2>3. wins' \in [Sides -> Nat] /\ losses' \in [Sides -> Nat] /\ verdict' \in Verdicts
    BY <1>8, <2>2, CreditTypes DEF ResolveWin, Verdicts
  <2>4. rated' \in [Sides -> Nat]
    BY <1>8 DEF TypeOK, ResolveWin
  <2>5. round' \in [Sides -> Nat]
    <3>1. PICK w \in {1, 2} : round' = [round EXCEPT ![w] = @ + 1]
      BY <1>8, <2>2 DEF ResolveWin
    <3>2. QED
      BY <3>1 DEF TypeOK, Sides
  <2>6. standing' \in [Sides -> {"active", "eliminated", "knockout", "out"}]
    BY <1>8 DEF TypeOK, ResolveWin
  <2>7. /\ status' = "completed" /\ half' = carried[r] /\ quiet' = 0
        /\ pc' = [pc EXCEPT ![r] = "requeueing"]
        /\ UNCHANGED <<turn, rowLock, innings, clocks, tournament, queued, side, score,
                       carried, sweepers>>
    BY <1>8 DEF ResolveWin
  <2>8. QED
    BY <2>1, <2>3, <2>4, <2>5, <2>6, <2>7 DEF TypeOK, Status, turn, clocks, tournament, sweepers
<1>9. CASE Requeue(r)
  <2>1. carried[r] \in Halves
    BY DEF TypeOK
  <2>2. queued' \subseteq Sides
    BY <1>9, <2>1, VerdictTypes, SidesFacts DEF TypeOK, Requeue, QueueAfter, BackInQueue
  <2>3. QED
    BY <1>9, <2>2, FinishTypes
    DEF TypeOK, Requeue, matchRow, turn, clocks, tournament, field, credits, sweepers
<1>10. QED
  BY <1>1, <1>2, <1>3, <1>4, <1>5, <1>6, <1>7, <1>8, <1>9 DEF Handler

LEMMA CutTypes ==
  ASSUME TypeOK, Cut
  PROVE  /\ standing' \in [Sides -> {"active", "eliminated", "knockout", "out"}]
         /\ round' \in [Sides -> Nat]
         /\ dropped' \subseteq Sides
         /\ tourOver' \in BOOLEAN
<1> USE DEF TypeOK, Active
<1>1. ASSUME NEW kept \in SUBSET Active,
             standing' = [s \in Sides |-> IF s \in Active \ kept THEN "out" ELSE standing[s]],
             round' = [s \in Sides |-> IF s \in kept THEN 2 ELSE round[s]],
             dropped' = Active \ kept,
             UNCHANGED tourOver
      PROVE  /\ standing' \in [Sides -> {"active", "eliminated", "knockout", "out"}]
             /\ round' \in [Sides -> Nat]
             /\ dropped' \subseteq Sides
             /\ tourOver' \in BOOLEAN
  <2>1. standing' \in [Sides -> {"active", "eliminated", "knockout", "out"}]
    BY <1>1
  <2>2. round' \in [Sides -> Nat]
    BY <1>1
  <2>3. dropped' \subseteq Sides /\ tourOver' \in BOOLEAN
    BY <1>1
  <2>4. QED
    BY <2>1, <2>2, <2>3
<1>2. QED
  BY <1>1 DEF Cut

LEMMA WorkerTypes ==
  ASSUME TypeOK, Worker
  PROVE  TypeOK'
<1> USE DEF TypeOK, turn, clocks, field, credits, requests
<1>1. CASE CloseRound
  <2>1. half \in Halves /\ SweepVerdict(half) \in Verdicts
    BY VerdictTypes DEF SweepVerdict, Verdicts, Tie, NoVerdict
  <2>2. Ended(half, SweepVerdict(half)) \/ UNCHANGED <<matchRow, wins, losses>>
    BY <1>1 DEF CloseRound, SettleOpenMatch
  <2>3. /\ status' \in Status /\ half' \in Halves /\ verdict' \in Verdicts
        /\ quiet' \in 0..2
        /\ wins' \in [Sides -> Nat] /\ losses' \in [Sides -> Nat]
    BY <2>1, <2>2, EndedTypes DEF matchRow
  <2>4. QED
    BY <1>1, <2>3, CutTypes DEF CloseRound
<1>2. CASE SyncQueue
  BY <1>2 DEF SyncQueue, matchRow, tournament
<1>3. CASE UnplayedScan
  BY <1>3 DEF UnplayedScan, matchRow, tournament
<1>4. CASE UnplayedSettle
  <2> DEFINE h == row["unplayed"].half
  <2>1. h \in Halves /\ SweepVerdict(h) \in Verdicts
    BY VerdictTypes DEF SweepVerdict, Verdicts, Tie, NoVerdict
  <2>2. Ended(h, SweepVerdict(h))
    BY <1>4 DEF UnplayedSettle
  <2>3. NoRow \in [seen : BOOLEAN, half : Halves]
    BY EmptyHalves DEF NoRow
  <2> HIDE DEF h
  <2>4. QED
    BY <1>4, <2>1, <2>2, <2>3, EndedTypes DEF UnplayedSettle, tournament
<1>5. CASE EndDate
  <2>1. status' \in Status /\ quiet' \in 0..2
    BY <1>5 DEF EndDate, Open, RowFree, Status
  <2>2. /\ roundOpen' \in BOOLEAN /\ tourOver' \in BOOLEAN
        /\ standing' \in [Sides -> {"active", "eliminated", "knockout", "out"}]
    BY <1>5 DEF EndDate, Open, RowFree
  <2>3. QED
    BY <1>5, <2>1, <2>2, Zenon DEF EndDate, sweepers
<1>6. CASE ReleaseScan
  BY <1>6 DEF ReleaseScan, matchRow, tournament
<1>7. CASE ReleaseSettle
  <2> DEFINE h == row["lifecycle"].half
             v == IF Complete(h) THEN Outcome(h) ELSE NoVerdict
  <2>1. h \in Halves /\ v \in Verdicts
    BY VerdictTypes DEF Verdicts, Tie, NoVerdict
  <2>2. Ended(h, v)
    BY <1>7 DEF ReleaseSettle
  <2>3. NoRow \in [seen : BOOLEAN, half : Halves]
    BY EmptyHalves DEF NoRow
  <2> HIDE DEF h, v
  <2>4. QED
    BY <1>7, <2>1, <2>2, <2>3, EndedTypes DEF ReleaseSettle, tournament
<1>8. QED
  BY <1>1, <1>2, <1>3, <1>4, <1>5, <1>6, <1>7 DEF Worker

LEMMA NextTypes == TypeOK /\ [Next]_vars => TypeOK'
<1> SUFFICES ASSUME TypeOK, [Next]_vars PROVE TypeOK'
  OBVIOUS
<1>1. ASSUME NEW r \in Requests, Arrive(r) \/ Handler(r)
      PROVE  TypeOK'
  BY <1>1, ArriveTypes, HandlerTypes
<1>2. ASSUME NEW r \in Requests, Crash(r)
      PROVE  TypeOK'
  BY <1>2, FinishTypes
  DEF TypeOK, Crash, matchRow, turn, clocks, tournament, field, credits, sweepers
<1>3. ASSUME NEW s \in Sides, Decline(s)
      PROVE  TypeOK'
  BY <1>3
  DEF TypeOK, Decline, Status, turn, clocks, tournament, field, credits, requests, sweepers
<1>4. CASE Worker
  BY <1>4, WorkerTypes
<1>5. CASE Clock
  <2> USE DEF TypeOK, turn, tournament, field, credits, requests, sweepers
  <2>1. CASE RoundDeadline
    BY <2>1 DEF RoundDeadline, matchRow
  <2>2. CASE SlotDeadline
    BY <2>2 DEF SlotDeadline, matchRow
  <2>3. CASE HoldLapses
    BY <2>3 DEF HoldLapses, matchRow, clocks
  <2>4. CASE Age
    <3>1. quiet' \in 0..2
      BY <2>4 DEF Age
    <3>2. QED
      BY <2>4, <3>1 DEF Age, clocks
  <2>5. QED
    BY <1>5, <2>1, <2>2, <2>3, <2>4 DEF Clock
<1>6. CASE UNCHANGED vars
  BY <1>6 DEF TypeOK, vars
<1>7. QED
  BY <1>1, <1>2, <1>3, <1>4, <1>5, <1>6 DEF Next

\* Every reachable state of the match is well typed, whatever the constants.
THEOREM TypeCorrect == Spec => []TypeOK
<1>1. Init => TypeOK
  BY InitTypes
<1>2. TypeOK /\ [Next]_vars => TypeOK'
  BY NextTypes
<1>3. QED
  BY <1>1, <1>2, PTL DEF Spec
----------------------------------------------------------------------------
(* What a submission found under the row lock is still so at its commit.     *)

\* While a submission holds the row, every step that waits for the row is out.
LEMMA RowHeld ==
  ASSUME SubmitInv, NEW q \in Requests, pc[q] = "submitting"
  PROVE  rowLock = q /\ ~RowFree
BY MatchPlayAssumption, Zenon DEF SubmitInv, RowFree

\* One step of anybody leaves a held match row and its turn as they were, except
\* that the opponent's hold may lapse.
LEMMA HeldRowKept ==
  ASSUME TypeOK, SubmitInv, [Next]_vars,
         NEW q \in Requests, pc[q] = "submitting", pc'[q] = "submitting"
  PROVE  /\ rowLock' = q /\ status' = status /\ innings' = innings
         /\ holder' = holder /\ (lapsed' = lapsed \/ lapsed' = TRUE)
         /\ side'[q] = side[q] /\ score'[q] = score[q]
<1> DEFINE Kept == /\ rowLock' = q /\ status' = status /\ innings' = innings
                   /\ holder' = holder /\ (lapsed' = lapsed \/ lapsed' = TRUE)
                   /\ side'[q] = side[q] /\ score'[q] = score[q]
<1>0. rowLock = q /\ rowLock # NoRequest /\ ~RowFree
  BY RowHeld, MatchPlayAssumption
<1> USE DEF TypeOK, matchRow, turn, requests
<1>1. ASSUME NEW r \in Requests, Arrive(r) PROVE Kept
  <2>1. PICK s \in Sides : PollFindsBot(r, s) \/ PollFindsNoBot(r, s)
    BY <1>0, <1>1 DEF Arrive, SubmitBegin
  <2>2. pc[r] = "idle"
    BY <2>1 DEF PollFindsBot, PollFindsNoBot, Available
  <2>3. /\ side' = [side EXCEPT ![r] = s]
        /\ UNCHANGED <<status, holder, lapsed, rowLock, innings, score>>
    BY <2>1 DEF PollFindsBot, PollFindsNoBot
  <2>4. QED
    BY <1>0, <2>2, <2>3
<1>2. ASSUME NEW r \in Requests, Handler(r) PROVE Kept
  <2>1. CASE SubmitCommit(r)
    <3>1. r = q
      BY <1>0, <2>1 DEF SubmitCommit, SubmitInv
    <3>2. pc'[r] # "submitting"
      BY <2>1 DEF SubmitCommit, GoResolve, Finish
    <3>3. QED
      BY <3>1, <3>2
  <2>2. CASE BotHasBatted(r)
    <3>1. /\ side' = side /\ score' = score
          /\ UNCHANGED <<status, holder, lapsed, rowLock, innings>>
      BY <2>2 DEF BotHasBatted, AfterBotInnings, GoResolve
    <3>2. QED
      BY <1>0, <3>1
  <2>3. CASE PollReads(r)
    <3>1. pc[r] = "reading" /\ UNCHANGED <<status, holder, lapsed, rowLock, innings>>
      BY <2>3 DEF PollReads
    <3>2. side'[q] = side[q] /\ score'[q] = score[q]
      BY <2>3, <3>1 DEF PollReads, Finish
    <3>3. QED
      BY <1>0, <3>1, <3>2
  <2>4. CASE Requeue(r)
    <3>1. pc[r] = "requeueing" /\ UNCHANGED <<status, holder, lapsed, rowLock, innings>>
      BY <2>4 DEF Requeue
    <3>2. side'[q] = side[q] /\ score'[q] = score[q]
      BY <2>4, <3>1 DEF Requeue, Finish
    <3>3. QED
      BY <1>0, <3>1, <3>2
  <2>5. QED
    BY <1>0, <1>2, <2>1, <2>2, <2>3, <2>4
    DEF Handler, BotBats, ClaimTurn, ClaimRefused, ResolveTie, ResolveWin
<1>3. ASSUME NEW r \in Requests, Crash(r) PROVE Kept
  <2>1. r # q
    BY <1>3 DEF Crash, Finish
  <2>2. QED
    BY <1>0, <1>3, <2>1 DEF Crash, Finish
<1>4. ASSUME NEW s \in Sides, Decline(s) PROVE Kept
  BY <1>0, <1>4 DEF Decline
<1>5. CASE Worker
  BY <1>0, <1>5
  DEF Worker, CloseRound, SyncQueue, UnplayedScan, UnplayedSettle, EndDate, ReleaseScan,
      ReleaseSettle
<1>6. CASE Clock
  BY <1>0, <1>6 DEF Clock, RoundDeadline, SlotDeadline, HoldLapses, Age
<1>7. CASE UNCHANGED vars
  BY <1>0, <1>7 DEF vars
<1>8. QED
  BY <1>1, <1>2, <1>3, <1>4, <1>5, <1>6, <1>7 DEF Next

\* A submission starts in SubmitBegin and nowhere else.
LEMMA SubmitStarts ==
  ASSUME TypeOK, [Next]_vars,
         NEW q \in Requests, pc[q] # "submitting", pc'[q] = "submitting"
  PROVE  \E s \in Sides, x \in Score : SubmitBegin(q, s, x)
<1> USE DEF TypeOK, requests
<1>1. ASSUME NEW r \in Requests, NEW s \in Sides, NEW x \in Score, SubmitBegin(r, s, x)
      PROVE  q = r
  BY <1>1 DEF SubmitBegin
<1>2. ASSUME NEW r \in Requests, NEW s \in Sides, PollFindsBot(r, s) \/ PollFindsNoBot(r, s)
      PROVE  FALSE
  BY <1>2 DEF PollFindsBot, PollFindsNoBot
<1>3. ASSUME NEW r \in Requests, Handler(r) PROVE FALSE
  <2>1. pc' \in {[pc EXCEPT ![r] = p] :
                   p \in {"idle", "reading", "claiming", "resolving", "requeueing"}}
    BY <1>3
    DEF Handler, SubmitCommit, BotBats, BotHasBatted, AfterBotInnings, PollReads, ClaimTurn,
        ClaimRefused, ResolveTie, ResolveWin, Requeue, GoResolve, Finish
  <2>2. QED
    BY <2>1
<1>4. ASSUME NEW r \in Requests, Crash(r) PROVE FALSE
  BY <1>4 DEF Crash, Finish
<1>5. (\E s \in Sides : Decline(s)) \/ Worker \/ Clock \/ UNCHANGED vars => pc' = pc
  BY DEF Decline, Worker, CloseRound, SyncQueue, UnplayedScan, UnplayedSettle, EndDate,
         ReleaseScan, ReleaseSettle, Clock, RoundDeadline, SlotDeadline, HoldLapses, Age, vars
<1>6. QED
  BY <1>1, <1>2, <1>3, <1>4, <1>5 DEF Next, Arrive

LEMMA SubmitInvKept == TypeOK /\ SubmitInv /\ [Next]_vars => SubmitInv'
<1> SUFFICES ASSUME TypeOK, SubmitInv, [Next]_vars,
                    NEW q \in Requests, pc'[q] = "submitting"
             PROVE  (/\ rowLock = q /\ Open /\ side[q] # Bot /\ score[q] \in Score
                     /\ innings[side[q]] = NoScore
                     /\ innings[Other(side[q])] # NoScore \/ ~HeldAgainst(side[q]))'
  BY DEF SubmitInv, Open, HeldAgainst
<1>1. CASE pc[q] = "submitting"
  <2>1. /\ Open /\ side[q] # Bot /\ score[q] \in Score /\ innings[side[q]] = NoScore
        /\ innings[Other(side[q])] # NoScore \/ ~HeldAgainst(side[q])
    BY <1>1 DEF SubmitInv, Open, HeldAgainst
  <2>2. /\ rowLock' = q /\ status' = status /\ innings' = innings
        /\ holder' = holder /\ (lapsed' = lapsed \/ lapsed' = TRUE)
        /\ side'[q] = side[q] /\ score'[q] = score[q]
    BY <1>1, HeldRowKept
  <2>3. QED
    BY <2>1, <2>2 DEF Open, HeldAgainst
<1>2. CASE pc[q] # "submitting"
  <2>1. PICK s \in Sides, x \in Score : SubmitBegin(q, s, x)
    BY <1>2, SubmitStarts
  <2>2. side'[q] = s /\ score'[q] = x /\ rowLock' = q
    BY <2>1 DEF TypeOK, SubmitBegin, LockRow
  <2>3. /\ Open /\ s # Bot /\ innings[s] = NoScore
        /\ innings[Other(s)] # NoScore \/ ~HeldAgainst(s)
        /\ UNCHANGED <<status, innings, holder, lapsed>>
    BY <2>1, Zenon DEF SubmitBegin, Available, matchRow, turn
  <2>4. QED
    BY <2>2, <2>3 DEF Open, HeldAgainst
<1>3. QED
  BY <1>1, <1>2

\* Innings are written by the commit of a submission and by the bot's insert only.
LEMMA InningsWriters ==
  ASSUME TypeOK, SubmitInv, [Next]_vars, innings' # innings
  PROVE  \E r \in Requests :
           \/ /\ SubmitCommit(r)
              /\ side[r] \in Sides \ {Bot} /\ innings[side[r]] = NoScore
              /\ innings[Other(side[r])] # NoScore \/ ~HeldAgainst(side[r])
              /\ score[r] \in Score
              /\ innings' = [innings EXCEPT ![side[r]] = score[r]]
           \/ /\ BotBats(r)
              /\ innings[Bot] = NoScore
              /\ \E x \in Score : innings' = [innings EXCEPT ![Bot] = x]
<1>1. PICK r \in Requests : SubmitCommit(r) \/ BotBats(r)
  <2>1. ASSUME NEW r \in Requests, Arrive(r) \/ Crash(r) PROVE FALSE
    BY <2>1 DEF Arrive, SubmitBegin, PollFindsBot, PollFindsNoBot, Crash
  <2>2. ASSUME NEW r \in Requests, Handler(r) PROVE SubmitCommit(r) \/ BotBats(r)
    BY <2>2 DEF Handler, BotHasBatted, PollReads, ClaimTurn, ClaimRefused, ResolveTie,
                ResolveWin, Requeue
  <2>3. ~(\E s \in Sides : Decline(s)) /\ ~Worker /\ ~Clock /\ ~UNCHANGED vars
    BY DEF Decline, Worker, CloseRound, SyncQueue, UnplayedScan, UnplayedSettle, EndDate,
           ReleaseScan, ReleaseSettle, Clock, RoundDeadline, SlotDeadline, HoldLapses, Age, vars
  <2>4. QED
    BY <2>1, <2>2, <2>3 DEF Next
<1>2. CASE SubmitCommit(r)
  <2>1. pc[r] = "submitting" /\ innings' = [innings EXCEPT ![side[r]] = score[r]]
    BY <1>2 DEF SubmitCommit
  <2>2. /\ side[r] # Bot /\ innings[side[r]] = NoScore /\ score[r] \in Score
        /\ innings[Other(side[r])] # NoScore \/ ~HeldAgainst(side[r])
    BY <2>1 DEF SubmitInv, Open, HeldAgainst
  <2>3. side[r] \in Sides
    BY DEF TypeOK
  <2>4. QED
    BY <1>2, <2>1, <2>2, <2>3
<1>3. CASE BotBats(r)
  <2>1. innings[Bot] = NoScore /\ \E x \in Score : innings' = [innings EXCEPT ![Bot] = x]
    BY <1>3, Zenon DEF BotBats, BotClaims
  <2>2. QED
    BY <1>3, <2>1
<1>4. QED
  BY <1>1, <1>2, <1>3

LEMMA InningsKept ==
  ASSUME TypeOK, SubmitInv, [Next]_vars, NEW s \in Sides, innings[s] # NoScore
  PROVE  innings'[s] = innings[s]
<1>1. CASE innings' = innings
  BY <1>1
<1>2. CASE innings' # innings
  <2>1. PICK b, x : innings[b] = NoScore /\ innings' = [innings EXCEPT ![b] = x]
    BY <1>2, InningsWriters
  <2>2. QED
    BY <2>1
<1>3. QED
  BY <1>1, <1>2

LEMMA TurnKept ==
  ASSUME TypeOK, SubmitInv, [Next]_vars, NEW s \in Sides \ {Bot},
         innings = Empty, innings'[s] # NoScore
  PROVE  ~HeldAgainst(s)
<1>1. innings[s] = NoScore /\ innings[Other(s)] = NoScore
  BY SidesFacts DEF Empty
<1>2. PICK r \in Requests :
        /\ side[r] \in Sides \ {Bot}
        /\ innings[Other(side[r])] # NoScore \/ ~HeldAgainst(side[r])
        /\ innings' = [innings EXCEPT ![side[r]] = score[r]]
  <2>1. innings' # innings
    BY <1>1
  <2>2. ASSUME NEW x \in Score, innings' = [innings EXCEPT ![Bot] = x] PROVE FALSE
    BY <1>1, <2>2
  <2>3. QED
    BY <2>1, <2>2, InningsWriters
<1>3. s = side[r]
  BY <1>1, <1>2
<1>4. QED
  BY <1>1, <1>2, <1>3

LEMMA CoreInvariant == Spec => [](TypeOK /\ SubmitInv)
<1>1. Init => TypeOK /\ SubmitInv
  BY InitTypes DEF Init, SubmitInv
<1>2. TypeOK /\ SubmitInv /\ [Next]_vars => (TypeOK /\ SubmitInv)'
  BY NextTypes, SubmitInvKept
<1>3. QED
  BY <1>1, <1>2, PTL DEF Spec

\* An innings on record is never replaced, whichever requests race for it.
THEOREM InningsNeverReplaced == Spec => InningsFixed
<1>1. TypeOK /\ SubmitInv /\ [Next]_vars
        => [\A s \in Sides : innings[s] # NoScore => innings'[s] = innings[s]]_innings
  BY InningsKept
<1>2. QED
  BY <1>1, CoreInvariant, PTL DEF Spec, InningsFixed

\* The first innings is never recorded against a turn the opponent still holds.
THEOREM TurnLockHolds == Spec => TurnRespected
<1>1. TypeOK /\ SubmitInv /\ [Next]_vars
        => [\A s \in Sides \ {Bot} :
              innings = Empty /\ innings'[s] # NoScore => ~HeldAgainst(s)]_innings
  BY TurnKept
<1>2. QED
  BY <1>1, CoreInvariant, PTL DEF Spec, TurnRespected
----------------------------------------------------------------------------
(* Copies of the scoreline.                                                *)

\* A copy that was truthful stays so while the innings it copies only grow.
LEMMA StaysTruthful ==
  ASSUME TypeOK, SubmitInv, [Next]_vars, NEW h, Truthful(h)
  PROVE  \A s \in Sides : h[s] \in {NoScore, innings'[s]}
<1> SUFFICES ASSUME NEW s \in Sides, h[s] # NoScore PROVE h[s] = innings'[s]
  OBVIOUS
<1>1. h[s] = innings[s] /\ innings[s] # NoScore
  BY DEF Truthful
<1>2. QED
  BY <1>1, InningsKept

\* The scoreline a submission writes is made of its score and recorded innings.
LEMMA SubmitTruthful ==
  ASSUME TypeOK, CopiesInv, NEW r \in Requests, SubmitCommit(r)
  PROVE  /\ \A s \in Sides : half'[s] \in {NoScore, innings'[s]}
         /\ carried'[r] \in {half', Empty}
         /\ \A q \in Requests \ {r} : carried'[q] = carried[q]
         /\ row' = row
<1>1. half' = [half EXCEPT ![side[r]] = score[r],
                           ![Other(side[r])] = OtherHalf(Other(side[r]))]
  BY DEF SubmitCommit
<1>2. innings' = [innings EXCEPT ![side[r]] = score[r]]
  BY DEF SubmitCommit
<1>3. half \in Halves /\ innings \in Halves /\ side[r] \in Sides
  BY DEF TypeOK
<1>4. \A s \in Sides : half[s] \in {NoScore, innings[s]}
  BY DEF CopiesInv, Truthful
<1>5. \A s \in Sides : half'[s] \in {NoScore, innings'[s]}
  <2>1. OtherHalf(Other(side[r])) \in {NoScore, innings[Other(side[r])]}
    BY <1>3, <1>4, SidesFacts DEF OtherHalf
  <2>2. CASE side[r] = 1
    BY <1>1, <1>2, <1>3, <1>4, <2>1, <2>2, SidesFacts DEF Halves, Sides
  <2>3. CASE side[r] = 2
    BY <1>1, <1>2, <1>3, <1>4, <2>1, <2>3, SidesFacts DEF Halves, Sides
  <2>4. QED
    BY <1>3, <2>2, <2>3, SidesFacts
<1>6. GoResolve(r, half') \/ Finish(r)
  BY <1>1 DEF SubmitCommit
<1>7. QED
  BY <1>5, <1>6 DEF TypeOK, GoResolve, Finish, SubmitCommit, sweepers

LEMMA CopiesInvKept == TypeOK /\ SubmitInv /\ CopiesInv /\ [Next]_vars => CopiesInv'
<1> SUFFICES ASSUME TypeOK, SubmitInv, CopiesInv, [Next]_vars PROVE CopiesInv'
  OBVIOUS
<1> DEFINE Still(h) == \A s \in Sides : h[s] \in {NoScore, innings'[s]}
           Kinds == {"unplayed", "lifecycle"}
<1>1. /\ Still(half) /\ Still(innings')
      /\ \A r \in Requests : Still(carried[r])
      /\ \A k \in Kinds : Still(row[k].half)
  BY StaysTruthful DEF CopiesInv
<1>2. Still(Empty)
  BY DEF Empty
<1> SUFFICES /\ Still(half')
             /\ \A r \in Requests : Still(carried'[r])
             /\ \A k \in Kinds : Still(row'[k].half)
  BY DEF CopiesInv, Truthful
<1> HIDE DEF Still
<1>3. ASSUME half' = half, carried' = carried, row' = row
      PROVE  /\ Still(half')
             /\ \A r \in Requests : Still(carried'[r])
             /\ \A k \in Kinds : Still(row'[k].half)
  BY <1>1, <1>3
<1>4. CASE \E r \in Requests : SubmitCommit(r)
  <2>1. PICK r \in Requests : SubmitCommit(r)
    BY <1>4
  <2>2. Still(half')
    BY <2>1, SubmitTruthful DEF Still
  <2>3. QED
    BY <1>1, <1>2, <2>1, <2>2, SubmitTruthful
<1>5. ASSUME NEW r \in Requests, Handler(r), ~SubmitCommit(r)
      PROVE  /\ half' \in {half, innings', carried[r]}
             /\ carried' \in {carried, [carried EXCEPT ![r] = Empty],
                              [carried EXCEPT ![r] = innings']}
             /\ row' = row
  <2>1. CASE BotBats(r)
    BY <2>1 DEF BotBats, AfterBotInnings, GoResolve, sweepers
  <2>2. CASE BotHasBatted(r)
    BY <2>2 DEF BotHasBatted, AfterBotInnings, GoResolve, sweepers, matchRow
  <2>3. CASE PollReads(r)
    BY <2>3 DEF PollReads, Finish, sweepers, matchRow
  <2>4. CASE ClaimTurn(r) \/ ClaimRefused(r) \/ Requeue(r)
    BY <2>4 DEF ClaimTurn, ClaimRefused, Requeue, Finish, sweepers, matchRow
  <2>5. CASE ResolveTie(r) \/ ResolveWin(r)
    BY <2>5 DEF ResolveTie, ResolveWin, sweepers
  <2>6. QED
    BY <1>5, <2>1, <2>2, <2>3, <2>4, <2>5 DEF Handler
<1>6. ASSUME NEW r \in Requests, Handler(r), ~SubmitCommit(r)
      PROVE  /\ Still(half')
             /\ \A q \in Requests : Still(carried'[q])
             /\ \A k \in Kinds : Still(row'[k].half)
  BY <1>1, <1>2, <1>5, <1>6 DEF TypeOK
<1>7. ASSUME NEW r \in Requests, Arrive(r) PROVE half' = half /\ carried' = carried /\ row' = row
  BY <1>7 DEF Arrive, SubmitBegin, PollFindsBot, PollFindsNoBot, matchRow, sweepers
<1>8. ASSUME NEW r \in Requests, Crash(r)
      PROVE  half' = half /\ carried' = [carried EXCEPT ![r] = Empty] /\ row' = row
  BY <1>8 DEF Crash, Finish, matchRow, sweepers
<1>9. CASE Worker
  <2>1. carried' = carried
    BY <1>9 DEF Worker, CloseRound, SyncQueue, UnplayedScan, UnplayedSettle, EndDate,
                ReleaseScan, ReleaseSettle, requests
  <2>2. half' \in {half, row["unplayed"].half, row["lifecycle"].half}
    BY <1>9 DEF Worker, CloseRound, SettleOpenMatch, Ended, SyncQueue, UnplayedScan,
                UnplayedSettle, EndDate, ReleaseScan, ReleaseSettle, matchRow
  <2>3. \/ row' = row
        \/ \E k \in Kinds : row' = [row EXCEPT ![k] = [seen |-> TRUE, half |-> half]]
        \/ \E k \in Kinds : row' = [row EXCEPT ![k] = NoRow]
    BY <1>9 DEF Worker, CloseRound, SyncQueue, UnplayedScan, UnplayedSettle, EndDate,
                ReleaseScan, ReleaseSettle, sweepers
  <2>4. \A k \in Kinds : row'[k].half \in {row[k].half, half, Empty}
    BY <2>3 DEF TypeOK, NoRow
  <2>5. QED
    BY <1>1, <1>2, <2>1, <2>2, <2>4
<1>10. ASSUME (\E s \in Sides : Decline(s)) \/ Clock \/ UNCHANGED vars
       PROVE  half' = half /\ carried' = carried /\ row' = row
  BY <1>10 DEF Decline, Clock, RoundDeadline, SlotDeadline, HoldLapses, Age, vars, matchRow,
               requests, sweepers
<1>11. CASE \E r \in Requests : Crash(r)
  BY <1>1, <1>2, <1>8, <1>11 DEF TypeOK
<1>12. QED
  BY <1>3, <1>4, <1>6, <1>7, <1>9, <1>10, <1>11 DEF Next

\* No interleaving of handlers and sweeps stores a half that was not played.
THEOREM ScorelineIsTruthful == Spec => []ScorelineTruthful
<1>1. ASSUME Init PROVE CopiesInv
  <2>1. Truthful(half) /\ Truthful(Empty)
    BY <1>1 DEF Init, Truthful, Empty
  <2>2. /\ \A r \in Requests : carried[r] = Empty
        /\ \A k \in {"unplayed", "lifecycle"} : row[k].half = Empty
    BY <1>1 DEF Init, NoRow
  <2>3. QED
    BY <2>1, <2>2, Zenon DEF CopiesInv
<1>2. TypeOK /\ SubmitInv /\ CopiesInv /\ [Next]_vars => CopiesInv'
  BY CopiesInvKept
<1>3. CopiesInv => ScorelineTruthful
  BY DEF CopiesInv, Truthful, ScorelineTruthful
<1>4. QED
  BY <1>1, <1>2, <1>3, CoreInvariant, PTL DEF Spec
----------------------------------------------------------------------------
(* The stored verdict.                                                     *)

LEMMA OutcomeFollows ==
  ASSUME NEW h \in Halves, Complete(h) \/ Outcome(h) # Tie
  PROVE  Outcome(h) # NoVerdict /\ Follows(h, Outcome(h))
<1> USE MatchPlayAssumption
<1>1. /\ h[1] \in ScoreOrNone /\ h[2] \in ScoreOrNone
      /\ \A x \in ScoreOrNone : x \in Int /\ x >= -1
  BY SidesFacts DEF Halves, ScoreOrNone, Score, NoScore
<1>2. QED
  BY <1>1, SidesFacts DEF Outcome, Follows, Tie, NoVerdict, NoScore, Sides

LEMMA WalkoverFollows ==
  ASSUME NEW h \in Halves
  PROVE  Follows(h, Walkover(h))
<1> USE MatchPlayAssumption
<1>1. /\ h[1] \in ScoreOrNone /\ h[2] \in ScoreOrNone
      /\ \A x \in ScoreOrNone : x \in Int /\ x >= -1 /\ (x # NoScore => x > NoScore)
  BY SidesFacts DEF Halves, ScoreOrNone, Score, NoScore
<1>2. h = Empty <=> h[1] = NoScore /\ h[2] = NoScore
  BY SidesFacts DEF Halves, Empty
<1>3. Complete(h) <=> h[1] # NoScore /\ h[2] # NoScore
  BY SidesFacts DEF Complete
<1>4. QED
  BY <1>1, <1>2, <1>3, SidesFacts DEF Walkover, Follows, Tie, NoVerdict, Sides

LEMMA SweepFollows ==
  ASSUME NEW h \in Halves
  PROVE  Follows(h, SweepVerdict(h)) /\ (Complete(h) => Follows(h, Outcome(h)))
BY OutcomeFollows, WalkoverFollows DEF SweepVerdict

\* A sweep's write, from a verdict that follows from the row it read.
LEMMA EndedFollows ==
  ASSUME Follows(half, verdict), NEW h \in Halves, NEW v, Follows(h, v), Ended(h, v)
  PROVE  Follows(half', verdict') /\ ~Open'
<1>1. status' \in {"expired", "completed"}
  BY DEF Ended
<1>2. \/ half' = half /\ verdict' = verdict
      \/ half' = h /\ verdict' = v
  BY DEF Ended
<1>3. Follows(half', verdict')
  BY <1>2
<1>4. QED
  BY <1>1, <1>3 DEF Open, OpenStatus

LEMMA SubmitInHand ==
  ASSUME TypeOK, SubmitInv, NEW r \in Requests, SubmitCommit(r)
  PROVE  InHand(r)'
<1> DEFINE new == [half EXCEPT ![side[r]] = score[r],
                               ![Other(side[r])] = OtherHalf(Other(side[r]))]
<1>1. score[r] \in Score /\ side[r] \in Sides /\ half \in Halves
  BY DEF TypeOK, SubmitInv, SubmitCommit, Open, HeldAgainst
<1>2. score[r] # NoScore
  BY <1>1, MatchPlayAssumption DEF Score, NoScore
<1>3. ASSUME innings[Other(side[r])] # NoScore PROVE Complete(new)
  <2>1. OtherHalf(Other(side[r])) # NoScore
    BY <1>3 DEF OtherHalf
  <2>2. CASE side[r] = 1
    BY <1>1, <1>2, <2>1, <2>2, SidesFacts DEF Complete, Halves
  <2>3. CASE side[r] = 2
    BY <1>1, <1>2, <2>1, <2>3, SidesFacts DEF Complete, Halves
  <2>4. QED
    BY <1>1, <2>2, <2>3, SidesFacts
<1>4. (innings[Other(side[r])] # NoScore /\ GoResolve(r, new)) \/ Finish(r)
  BY DEF SubmitCommit
<1> HIDE DEF new
<1>5. CASE Finish(r)
  BY <1>5 DEF Finish, InHand, TypeOK
<1>6. CASE innings[Other(side[r])] # NoScore /\ GoResolve(r, new)
  <2>1. pc'[r] = "resolving" /\ carried'[r] = new
    BY <1>6 DEF GoResolve, TypeOK
  <2>2. Complete(carried'[r])
    BY <1>3, <1>6, <2>1
  <2>3. QED
    BY <2>1, <2>2 DEF InHand, Complete
<1>7. QED
  BY <1>4, <1>5, <1>6

LEMMA BotInHand ==
  ASSUME TypeOK, NEW r \in Requests, InHand(r), BotBats(r) \/ BotHasBatted(r)
  PROVE  InHand(r)'
<1>1. Bot \in Sides /\ side[r] = Other(Bot)
  BY DEF BotBats, BotHasBatted, InHand
<1>2. innings'[Bot] # NoScore /\ innings'[side[r]] = innings[side[r]]
  <2>1. CASE BotBats(r)
    <3>1. PICK x \in Score : innings' = [innings EXCEPT ![Bot] = x]
      BY <2>1 DEF BotBats
    <3>2. x # NoScore
      BY MatchPlayAssumption DEF Score, NoScore
    <3>3. QED
      BY <1>1, <3>1, <3>2, SidesFacts DEF TypeOK, Halves
  <2>2. CASE BotHasBatted(r)
    BY <2>2 DEF BotHasBatted
  <2>3. QED
    BY <2>1, <2>2
<1>3. AfterBotInnings(r)
  BY DEF BotBats, BotHasBatted
<1>4. CASE innings[side[r]] # NoScore
  <2>1. Complete(innings')
    BY <1>1, <1>2, <1>4, SidesFacts DEF Complete
  <2>2. GoResolve(r, innings')
    BY <1>3, <1>4 DEF AfterBotInnings
  <2>3. pc'[r] = "resolving" /\ carried'[r] = innings'
    BY <2>2 DEF GoResolve, TypeOK
  <2>4. Complete(carried'[r])
    BY <2>1, <2>3
  <2>5. QED
    BY <2>3, <2>4 DEF InHand, Complete
<1>5. CASE innings[side[r]] = NoScore
  <2>1. pc'[r] = "reading"
    BY <1>3, <1>5 DEF AfterBotInnings, TypeOK
  <2>2. QED
    BY <2>1 DEF InHand
<1>6. QED
  BY <1>4, <1>5

LEMMA InHandKept ==
  ASSUME TypeOK, SubmitInv, [Next]_vars, \A r \in Requests : InHand(r)
  PROVE  \A r \in Requests : InHand(r)'
<1> SUFFICES ASSUME NEW q \in Requests PROVE InHand(q)'
  OBVIOUS
<1>1. InHand(q)
  OBVIOUS
<1>2. ASSUME pc'[q] = pc[q], side'[q] = side[q], carried'[q] = carried[q] PROVE InHand(q)'
  BY <1>1, <1>2 DEF InHand, Complete
<1>3. ASSUME pc'[q] \notin {"batting", "resolving"} PROVE InHand(q)'
  BY <1>3 DEF InHand
<1> USE DEF TypeOK
<1>4. ASSUME NEW r \in Requests, Arrive(r) PROVE InHand(q)'
  <2>1. CASE r = q
    <3>1. ASSUME NEW s \in Sides, PollFindsBot(r, s)
          PROVE  pc'[q] = "batting" /\ Bot \in Sides /\ side'[q] = Other(Bot)
      <4>1. Bot = Other(s)
        BY <3>1 DEF PollFindsBot
      <4>2. Bot \in Sides /\ s = Other(Bot)
        BY <4>1, SidesFacts
      <4>3. QED
        BY <2>1, <3>1, <4>2 DEF PollFindsBot
    <3>2. ASSUME NEW s \in Sides, PollFindsNoBot(r, s) \/ \E x \in Score : SubmitBegin(r, s, x)
          PROVE  pc'[q] \notin {"batting", "resolving"}
      BY <2>1, <3>2 DEF PollFindsNoBot, SubmitBegin
    <3>3. (pc'[q] = "batting" /\ Bot \in Sides /\ side'[q] = Other(Bot))
             \/ pc'[q] \notin {"batting", "resolving"}
      BY <1>4, <3>1, <3>2 DEF Arrive
    <3>4. QED
      BY <3>3 DEF InHand
  <2>2. CASE r # q
    BY <1>2, <1>4, <2>2 DEF Arrive, SubmitBegin, PollFindsBot, PollFindsNoBot
  <2>3. QED
    BY <2>1, <2>2
<1>5. ASSUME NEW r \in Requests, Handler(r) PROVE InHand(q)'
  <2>1. CASE r # q
    BY <1>2, <1>5, <2>1
    DEF Handler, SubmitCommit, BotBats, BotHasBatted, AfterBotInnings, PollReads, ClaimTurn,
        ClaimRefused, ResolveTie, ResolveWin, Requeue, GoResolve, Finish
  <2>2. CASE r = q
    <3>1. CASE SubmitCommit(r)
      BY <2>2, <3>1, SubmitInHand
    <3>2. CASE BotBats(r) \/ BotHasBatted(r)
      BY <1>1, <2>2, <3>2, BotInHand
    <3>3. ASSUME ~SubmitCommit(r), ~BotBats(r), ~BotHasBatted(r)
          PROVE  pc'[q] \notin {"batting", "resolving"}
      BY <1>5, <2>2, <3>3
      DEF Handler, PollReads, ClaimTurn, ClaimRefused, ResolveTie, ResolveWin, Requeue, Finish
    <3>4. QED
      BY <1>3, <3>1, <3>2, <3>3
  <2>3. QED
    BY <2>1, <2>2
<1>6. ASSUME NEW r \in Requests, Crash(r) PROVE InHand(q)'
  <2>1. CASE r = q
    BY <1>3, <1>6, <2>1 DEF Crash, Finish
  <2>2. CASE r # q
    BY <1>2, <1>6, <2>2 DEF Crash, Finish
  <2>3. QED
    BY <2>1, <2>2
<1>7. ASSUME (\E s \in Sides : Decline(s)) \/ Worker \/ Clock \/ UNCHANGED vars
      PROVE  InHand(q)'
  <2>1. pc' = pc /\ side' = side /\ carried' = carried
    BY <1>7 DEF Decline, Worker, CloseRound, SyncQueue, UnplayedScan, UnplayedSettle, EndDate,
                ReleaseScan, ReleaseSettle, Clock, RoundDeadline, SlotDeadline, HoldLapses, Age,
                vars, requests
  <2>2. QED
    BY <1>2, <2>1
<1>8. QED
  BY <1>4, <1>5, <1>6, <1>7 DEF Next

LEMMA RowInvKept ==
  ASSUME TypeOK, SubmitInv, RowInv, \A r \in Requests : InHand(r), [Next]_vars
  PROVE  RowInv'
<1>1. ASSUME UNCHANGED <<status, half, verdict>> PROVE RowInv'
  BY <1>1 DEF RowInv, VerdictFollowsScore, Follows, Complete, Open
<1>2. ASSUME verdict' = NoVerdict PROVE RowInv'
  BY <1>2 DEF RowInv, VerdictFollowsScore, Follows, NoVerdict, Sides, Tie
<1>3. ASSUME Follows(half', verdict'), ~Open' PROVE RowInv'
  <2>1. Follows(half, verdict)'
    BY <1>3 DEF Follows, Complete
  <2>2. QED
    BY <1>3, <2>1 DEF RowInv, VerdictFollowsScore
<1>4. ASSUME NEW r \in Requests, Handler(r) PROVE RowInv'
  <2>1. CASE SubmitCommit(r)
    <3>1. verdict = NoVerdict
      BY <2>1 DEF SubmitCommit, SubmitInv, RowInv, Open, HeldAgainst
    <3>2. QED
      BY <1>2, <2>1, <3>1 DEF SubmitCommit
  <2>2. CASE BotBats(r)
    BY <1>2, <2>2 DEF BotBats
  <2>3. CASE ResolveTie(r) \/ ResolveWin(r)
    <3>1. carried[r] \in Halves /\ Complete(carried[r])
      BY <2>3 DEF TypeOK, InHand, ResolveTie, ResolveWin
    <3>2. half' = carried[r] /\ verdict' = Outcome(carried[r])
      BY <2>3 DEF ResolveTie, ResolveWin
    <3>3. status' \in {"cancelled", "completed"}
      BY <2>3 DEF ResolveTie, ResolveWin
    <3>4. Follows(half', verdict')
      BY <3>1, <3>2, OutcomeFollows
    <3>5. QED
      BY <1>3, <3>3, <3>4 DEF Open, OpenStatus
  <2>4. CASE BotHasBatted(r) \/ PollReads(r) \/ ClaimRefused(r) \/ Requeue(r)
    BY <1>1, <2>4 DEF BotHasBatted, PollReads, ClaimRefused, Requeue, matchRow
  <2>5. CASE ClaimTurn(r)
    BY <1>1, <2>5 DEF ClaimTurn
  <2>6. QED
    BY <1>4, <2>1, <2>2, <2>3, <2>4, <2>5 DEF Handler
<1>5. ASSUME NEW r \in Requests, Arrive(r) \/ Crash(r) PROVE RowInv'
  BY <1>1, <1>5 DEF Arrive, SubmitBegin, PollFindsBot, PollFindsNoBot, Crash, matchRow
<1>6. CASE Worker
  <2>1. ASSUME NEW h \in Halves, NEW v, Follows(h, v), Ended(h, v) PROVE RowInv'
    BY <1>3, <2>1, EndedFollows DEF RowInv, VerdictFollowsScore
  <2>2. CASE CloseRound
    <3>1. half \in Halves
      BY DEF TypeOK
    <3>2. Ended(half, SweepVerdict(half)) \/ UNCHANGED <<status, half, verdict>>
      BY <2>2 DEF CloseRound, SettleOpenMatch, matchRow
    <3>3. QED
      BY <1>1, <2>1, <3>1, <3>2, SweepFollows
  <2>3. CASE UnplayedSettle
    <3>1. row["unplayed"].half \in Halves
      BY DEF TypeOK
    <3>2. Ended(row["unplayed"].half, SweepVerdict(row["unplayed"].half))
      BY <2>3 DEF UnplayedSettle
    <3>3. QED
      BY <2>1, <3>1, <3>2, SweepFollows
  <2>4. CASE ReleaseSettle
    <3> DEFINE h == row["lifecycle"].half
               v == IF Complete(h) THEN Outcome(h) ELSE NoVerdict
    <3>1. h \in Halves
      BY DEF TypeOK
    <3>2. Ended(h, v)
      BY <2>4 DEF ReleaseSettle
    <3>3. Follows(h, NoVerdict)
      BY DEF Follows, NoVerdict, Sides, Tie
    <3>4. Follows(h, v)
      BY <3>1, <3>3, SweepFollows
    <3> HIDE DEF h, v
    <3>5. QED
      BY <2>1, <3>1, <3>2, <3>4
  <2>5. CASE EndDate
    <3>1. status' \notin OpenStatus
      BY <2>5 DEF EndDate, Open, OpenStatus, RowFree
    <3>2. half' = half /\ verdict' = verdict
      BY <2>5 DEF EndDate
    <3>3. QED
      BY <1>3, <3>1, <3>2 DEF RowInv, VerdictFollowsScore, Open
  <2>6. CASE SyncQueue \/ UnplayedScan \/ ReleaseScan
    BY <1>1, <2>6 DEF SyncQueue, UnplayedScan, ReleaseScan, matchRow
  <2>7. QED
    BY <1>6, <2>2, <2>3, <2>4, <2>5, <2>6 DEF Worker
<1>7. ASSUME NEW s \in Sides, Decline(s) PROVE RowInv'
  <2>1. status' = "cancelled" /\ half' = half /\ verdict' = verdict
    BY <1>7 DEF Decline
  <2>2. QED
    BY <1>3, <2>1 DEF RowInv, VerdictFollowsScore, Open, OpenStatus
<1>8. CASE Clock
  BY <1>1, <1>8 DEF Clock, RoundDeadline, SlotDeadline, HoldLapses, Age, matchRow
<1>9. CASE UNCHANGED vars
  BY <1>1, <1>9 DEF vars
<1>10. QED
  BY <1>4, <1>5, <1>6, <1>7, <1>8, <1>9 DEF Next

\* No interleaving stores a winner, or a tie, that the stored scoreline denies.
THEOREM VerdictIsEarned == Spec => []VerdictFollowsScore
<1> DEFINE Inv == RowInv /\ \A r \in Requests : InHand(r)
<1>1. ASSUME Init PROVE Inv
  <2>1. RowInv
    BY <1>1 DEF Init, RowInv, VerdictFollowsScore, Follows, NoVerdict, Sides, Tie
  <2>2. QED
    BY <1>1, <2>1 DEF Init, InHand
<1>2. ASSUME TypeOK, SubmitInv, Inv, [Next]_vars PROVE Inv'
  BY <1>2, RowInvKept, InHandKept
<1>3. Inv => VerdictFollowsScore
  BY DEF RowInv
<1> HIDE DEF Inv
<1>4. QED
  BY <1>1, <1>2, <1>3, CoreInvariant, PTL DEF Spec
----------------------------------------------------------------------------
(* Two people, a round that only the locking sweep closes, and handlers     *)
(* that do not stall: the match is counted once.                           *)

PeopleOnly == Bot = 0 /\ Sweeps \subseteq {"close"} /\ PromptHandlers

\* One request at most has the match to resolve: the one that found the board full.
\* The closing round leaves such a match alone, so it is still open when that request
\* comes back for the row.
ResolvingInv ==
  /\ \A r \in Requests : pc[r] = "resolving" =>
       Open /\ Complete(innings) /\ carried[r] = innings /\ quiet = 0
  /\ \A r, q \in Requests : pc[r] = "resolving" /\ pc[q] = "resolving" => r = q

\* The steps this excludes never begin.
NobodyElse ==
  /\ \A r \in Requests : pc[r] # "batting"
  /\ \A k \in {"unplayed", "lifecycle"} : ~ row[k].seen

\* The row is the board, nothing is credited before the decision, and what the players
\* are left with is the decision's.
PlayInv ==
  /\ half = innings
  /\ Open => verdict = NoVerdict /\ \A s \in Sides : wins[s] = 0 /\ losses[s] = 0 /\ rated[s] = 0
  /\ CountedOnce
  /\ Complete(innings) => status # "confirmed"
  /\ PlayedMatchStands
  /\ \A r \in Requests : pc[r] = "requeueing" => ~ Open /\ verdict = Outcome(carried[r])
  /\ \A s \in Sides : standing[s] = "eliminated" => ~ Open /\ verdict = Other(s)
  /\ QueuedMayPlay

PeopleInv == TypeOK /\ SubmitInv /\ NobodyElse /\ ResolvingInv /\ PlayInv

LEMMA InitPeople == Init => PeopleInv
<1> SUFFICES ASSUME Init PROVE PeopleInv
  OBVIOUS
<1>1. TypeOK /\ SubmitInv
  BY InitTypes DEF Init, SubmitInv
<1>2. NobodyElse /\ ResolvingInv
  BY DEF Init, NobodyElse, ResolvingInv, NoRow
<1>3. ~ Complete(innings)
  BY SidesFacts DEF Init, Empty, Complete
<1>4. Open /\ verdict = NoVerdict /\ \A s \in Sides : wins[s] = 0 /\ losses[s] = 0 /\ rated[s] = 0
  BY DEF Init, Open, OpenStatus
<1>5. CountedOnce
  BY <1>4, SidesFacts DEF Init, CountedOnce
<1>6. PlayInv
  BY <1>3, <1>4, <1>5 DEF Init, PlayInv, PlayedMatchStands, QueuedMayPlay
<1> QED
  BY <1>1, <1>2, <1>6 DEF PeopleInv

\* A step that decides nothing, writes no innings and brings nobody further than they
\* were.
LEMMA StillPeople ==
  ASSUME NobodyElse, ResolvingInv, PlayInv,
         UNCHANGED <<status, half, verdict, innings, standing, wins, losses, rated, row>>,
         queued' \subseteq queued,
         \A r \in Requests :
           /\ pc'[r] # "batting"
           /\ pc'[r] \in {"resolving", "requeueing"} => pc'[r] = pc[r] /\ carried'[r] = carried[r],
         (\E r \in Requests : pc[r] = "resolving") => quiet' = 0
  PROVE  NobodyElse' /\ ResolvingInv' /\ PlayInv'
<1>1. NobodyElse'
  BY DEF NobodyElse
<1>2. ResolvingInv'
  BY DEF ResolvingInv, Open, Complete
<1>3. CountedOnce' /\ PlayedMatchStands'
  BY DEF PlayInv, CountedOnce, PlayedMatchStands, Open, Complete
<1>4. QueuedMayPlay'
  BY DEF PlayInv, QueuedMayPlay, Open
<1>5. \A r \in Requests : pc'[r] = "requeueing" => (~ Open /\ verdict = Outcome(carried[r]))'
  BY DEF PlayInv, Open, Outcome
<1>6. PlayInv'
  BY <1>3, <1>4, <1>5 DEF PlayInv, Open, Complete
<1> QED
  BY <1>1, <1>2, <1>6

LEMMA RequestsStill ==
  ASSUME PeopleOnly, PeopleInv, NEW r \in Requests,
         Arrive(r) \/ Crash(r) \/ PollReads(r) \/ ClaimTurn(r) \/ ClaimRefused(r)
  PROVE  NobodyElse' /\ ResolvingInv' /\ PlayInv'
<1>1. /\ pc \in [Requests -> {"idle", "submitting", "batting", "reading", "claiming",
                               "resolving", "requeueing"}]
      /\ carried \in [Requests -> Halves]
  BY DEF PeopleInv, TypeOK
<1>2. NobodyElse /\ ResolvingInv /\ PlayInv
  BY DEF PeopleInv
<1>3. \A s \in Sides : ~ PollFindsBot(r, s)
  BY SidesFacts DEF PeopleOnly, PollFindsBot
<1>4. /\ UNCHANGED <<status, half, verdict, innings, standing, wins, losses, rated, row, queued>>
      /\ UNCHANGED quiet \/ quiet' = 0
  BY <1>3 DEF Arrive, SubmitBegin, PollFindsNoBot, Crash, PollReads, ClaimTurn, ClaimRefused,
     matchRow, field, credits, sweepers
<1>5. \/ \E to \in {"submitting", "reading", "claiming"} : pc' = [pc EXCEPT ![r] = to] /\ UNCHANGED carried
      \/ pc' = [pc EXCEPT ![r] = "idle"] /\ carried' = [carried EXCEPT ![r] = Empty]
  BY <1>3 DEF Arrive, SubmitBegin, PollFindsNoBot, Crash, PollReads, ClaimTurn, ClaimRefused, Finish
<1>6. \A q \in Requests :
        /\ pc'[q] # "batting"
        /\ pc'[q] \in {"resolving", "requeueing"} => pc'[q] = pc[q] /\ carried'[q] = carried[q]
  BY <1>1, <1>2, <1>5 DEF NobodyElse
<1>7. (\E q \in Requests : pc[q] = "resolving") => quiet' = 0
  BY <1>2, <1>4 DEF ResolvingInv
<1> QED
  BY <1>2, <1>4, <1>6, <1>7, StillPeople

LEMMA SubmitPeople ==
  ASSUME PeopleOnly, PeopleInv, NEW r \in Requests, SubmitCommit(r)
  PROVE  NobodyElse' /\ ResolvingInv' /\ PlayInv'
<1> DEFINE new == [half EXCEPT ![side[r]] = score[r],
                               ![Other(side[r])] = OtherHalf(Other(side[r]))]
<1>1. /\ pc[r] = "submitting" /\ side[r] \in Sides /\ half = innings /\ innings \in Halves
      /\ Open /\ innings[side[r]] = NoScore /\ score[r] # NoScore
      /\ pc \in [Requests -> {"idle", "submitting", "batting", "reading", "claiming",
                               "resolving", "requeueing"}]
      /\ carried \in [Requests -> Halves]
  <2>1. pc[r] = "submitting" /\ score[r] \in Score
    BY DEF SubmitCommit, PeopleInv, SubmitInv
  <2> QED
    BY <2>1, MatchPlayAssumption DEF PeopleInv, TypeOK, SubmitInv, PlayInv, Score, NoScore
<1>2. new = innings' /\ innings' = [innings EXCEPT ![side[r]] = score[r]]
  <2>1. innings' = [innings EXCEPT ![side[r]] = score[r]]
    BY DEF SubmitCommit
  <2>2. OtherHalf(Other(side[r])) = innings[Other(side[r])]
    BY <1>1 DEF OtherHalf
  <2>3. side[r] = 1 \/ side[r] = 2
    BY <1>1, SidesFacts
  <2>4. /\ Other(side[r]) \in Sides /\ Other(side[r]) # side[r]
        /\ innings \in [Sides -> ScoreOrNone]
    BY <1>1, <2>3, SidesFacts DEF Halves
  <2>5. new = [innings EXCEPT ![side[r]] = score[r], ![Other(side[r])] = innings[Other(side[r])]]
    BY <1>1, <2>2
  <2> QED
    BY <1>1, <2>1, <2>4, <2>5
<1>3. /\ half' = innings' /\ status' = "in_progress" /\ quiet' = 0
      /\ UNCHANGED <<verdict, standing, wins, losses, rated, queued, row>>
  BY <1>2 DEF SubmitCommit, field, credits, sweepers
<1>4. \/ innings[Other(side[r])] # NoScore /\ GoResolve(r, innings')
      \/ Finish(r)
  BY <1>2 DEF SubmitCommit
<1>5. ~ Complete(innings) /\ \A q \in Requests : pc[q] # "resolving" /\ pc[q] # "requeueing"
  BY <1>1 DEF Complete, PeopleInv, ResolvingInv, PlayInv
<1>6. innings[Other(side[r])] # NoScore => Complete(innings')
  BY <1>1, <1>2, SidesFacts DEF Complete, Halves
<1>7. \A q \in Requests : /\ pc'[q] \notin {"batting", "requeueing"}
                          /\ pc'[q] = "resolving" => q = r
  BY <1>1, <1>4, <1>5 DEF GoResolve, Finish, PeopleInv, NobodyElse
<1>8. pc'[r] = "resolving" => carried'[r] = innings' /\ Complete(innings')
  BY <1>1, <1>4, <1>6 DEF GoResolve, Finish
<1>9. Open' /\ ~ (status' = "completed")
  BY <1>3 DEF Open, OpenStatus
<1>10. NobodyElse'
  BY <1>3, <1>7 DEF PeopleInv, NobodyElse
<1>11. ResolvingInv'
  BY <1>3, <1>7, <1>8, <1>9 DEF ResolvingInv, Complete
<1>12. CountedOnce'
  BY <1>1, <1>3, <1>9, SidesFacts DEF PeopleInv, PlayInv, CountedOnce
<1>13. queued = {} /\ \A s \in Sides : standing[s] # "eliminated"
  BY <1>1 DEF PeopleInv, PlayInv, QueuedMayPlay
<1>14. PlayInv'
  BY <1>1, <1>3, <1>7, <1>9, <1>12, <1>13
  DEF PeopleInv, PlayInv, PlayedMatchStands, QueuedMayPlay
<1> QED
  BY <1>10, <1>11, <1>14

\* The first credit is the only one.
LEMMA FirstCredit ==
  ASSUME PeopleInv, Open, NEW v, CreditStandings(v)
  PROVE  \A s \in Sides : /\ wins'[s] = IF s = v THEN 1 ELSE 0
                          /\ losses'[s] = IF v = Other(s) THEN 1 ELSE 0
<1>1. \A s \in Sides : wins[s] = 0 /\ losses[s] = 0
  BY DEF PeopleInv, PlayInv
<1>2. \A s \in Sides : (v \in Sides /\ s # v) <=> v = Other(s)
  BY DEF Sides, Other
<1> QED
  BY <1>1, <1>2 DEF CreditStandings

LEMMA ResolvePeople ==
  ASSUME PeopleOnly, PeopleInv, NEW r \in Requests, ResolveTie(r) \/ ResolveWin(r)
  PROVE  NobodyElse' /\ ResolvingInv' /\ PlayInv'
<1> DEFINE v == Outcome(carried[r])
<1>1. /\ pc[r] = "resolving" /\ Open /\ Complete(innings) /\ carried[r] = innings
      /\ innings \in Halves
      /\ pc \in [Requests -> {"idle", "submitting", "batting", "reading", "claiming",
                               "resolving", "requeueing"}]
      /\ standing \in [Sides -> {"active", "eliminated", "knockout", "out"}]
      /\ rated \in [Sides -> Nat]
  BY DEF PeopleInv, TypeOK, ResolvingInv, ResolveTie, ResolveWin
<1>2. /\ half' = innings' /\ innings' = innings /\ verdict' = v
      /\ pc' = [pc EXCEPT ![r] = "requeueing"]
      /\ UNCHANGED <<carried, queued, row>>
      /\ status' = IF v = Tie THEN "cancelled" ELSE "completed"
  BY <1>1 DEF ResolveTie, ResolveWin, sweepers
<1>3. v \in {1, 2, Tie}
  BY <1>1, VerdictTypes
<1>4. /\ \A q \in Requests : pc'[q] \notin {"batting", "resolving"}
      /\ \A q \in Requests : pc'[q] = "requeueing" => q = r
  BY <1>1, <1>2 DEF PeopleInv, NobodyElse, ResolvingInv, PlayInv
<1>5. NobodyElse' /\ ResolvingInv'
  BY <1>2, <1>4 DEF PeopleInv, NobodyElse, ResolvingInv
<1>6. ~ Open'
  BY <1>2 DEF Open, OpenStatus
<1>7. \A s \in Sides : wins[s] = 0 /\ losses[s] = 0 /\ rated[s] = 0 /\ standing[s] # "eliminated"
  BY <1>1 DEF PeopleInv, PlayInv
<1>8. CountedOnce'
  <2>1. CASE ResolveTie(r)
    <3>1. UNCHANGED <<wins, losses, rated>> /\ status' # "completed"
      BY <2>1 DEF ResolveTie, credits
    <3> QED
      BY <1>7, <3>1, SidesFacts DEF CountedOnce
  <2>2. CASE ResolveWin(r)
    <3>1. /\ CreditStandings(v) /\ status' = "completed"
          /\ rated' = [s \in Sides |-> rated[s] + 1]
      BY <2>2 DEF ResolveWin
    <3>2. \A s \in Sides : /\ wins'[s] = IF s = v THEN 1 ELSE 0
                           /\ losses'[s] = IF v = Other(s) THEN 1 ELSE 0
      BY <1>1, <3>1, FirstCredit
    <3>3. \A s \in Sides : rated'[s] = 1
      BY <1>7, <3>1
    <3> QED
      BY <1>2, <3>1, <3>2, <3>3, SidesFacts DEF CountedOnce
  <2> QED
    BY <2>1, <2>2
<1>9. \A s \in Sides : standing'[s] = "eliminated" => verdict' = Other(s)
  <2>1. CASE ResolveTie(r)
    BY <1>7, <2>1 DEF ResolveTie, field
  <2>2. CASE ResolveWin(r)
    <3>1. v \in {1, 2} /\ standing' = [standing EXCEPT ![v] = "active", ![Other(v)] = "eliminated"]
      BY <1>3, <2>2 DEF ResolveWin
    <3> QED
      BY <1>1, <1>2, <1>7, <3>1, SidesFacts
  <2> QED
    BY <2>1, <2>2
<1>10. queued' = {}
  BY <1>1, <1>2 DEF PeopleInv, PlayInv, QueuedMayPlay
<1>11. PlayedMatchStands'
  BY <1>2 DEF PlayedMatchStands
<1>12. \A q \in Requests : pc'[q] = "requeueing" => verdict' = Outcome(carried[q])'
  BY <1>2, <1>4 DEF Outcome
<1>13. PlayInv'
  BY <1>2, <1>6, <1>8, <1>9, <1>10, <1>11, <1>12 DEF PlayInv, QueuedMayPlay
<1> QED
  BY <1>5, <1>13
LEMMA RequeuePeople ==
  ASSUME PeopleOnly, PeopleInv, NEW r \in Requests, Requeue(r)
  PROVE  NobodyElse' /\ ResolvingInv' /\ PlayInv'
<1> DEFINE v == Outcome(carried[r])
<1>1. /\ pc[r] = "requeueing" /\ ~ Open /\ verdict = v /\ v \in {1, 2, Tie}
      /\ pc \in [Requests -> {"idle", "submitting", "batting", "reading", "claiming",
                               "resolving", "requeueing"}]
      /\ carried \in [Requests -> Halves]
  BY VerdictTypes DEF PeopleInv, TypeOK, PlayInv, Requeue
<1>2. /\ UNCHANGED <<status, half, verdict, quiet, innings, standing, wins, losses, rated, row>>
      /\ pc' = [pc EXCEPT ![r] = "idle"] /\ carried' = [carried EXCEPT ![r] = Empty]
      /\ queued' = QueueAfter(v)
  BY DEF Requeue, Finish, matchRow, field, credits, sweepers
<1>3. \A q \in Requests :
        /\ pc'[q] # "batting"
        /\ pc'[q] \in {"resolving", "requeueing"} => pc'[q] = pc[q] /\ carried'[q] = carried[q]
  BY <1>1, <1>2 DEF PeopleInv, NobodyElse
<1>4. (\E q \in Requests : pc[q] = "resolving") => quiet' = 0
  BY <1>2 DEF PeopleInv, ResolvingInv
<1>5. \A s \in Sides : s \in queued' => standing'[s] # "eliminated"
  <2>1. \A s \in Sides : standing[s] = "eliminated" => v = Other(s)
    BY <1>1 DEF PeopleInv, PlayInv
  <2>2. \A s \in Sides : v = Other(s) => s \notin queued'
    <3>1. \A s \in Sides : v = Other(s) => v # Tie /\ s = Other(v)
      BY DEF Sides, Other, Tie
    <3> QED
      BY <1>2, <3>1 DEF QueueAfter
  <2> QED
    BY <1>2, <2>1, <2>2
<1>6. queued' \subseteq Sides
  BY NextTypes DEF PeopleInv, TypeOK, Next, Handler
<1>7. NobodyElse' /\ ResolvingInv'
  BY <1>2, <1>3, <1>4 DEF PeopleInv, NobodyElse, ResolvingInv, Open, Complete
<1>8. CountedOnce' /\ PlayedMatchStands'
  BY <1>2 DEF PeopleInv, PlayInv, CountedOnce, PlayedMatchStands, Open, Complete
<1>9. \A q \in Requests : pc'[q] = "requeueing" => (~ Open /\ verdict = Outcome(carried[q]))'
  BY <1>1, <1>2, <1>3 DEF PeopleInv, PlayInv, Open, Outcome
<1>10. PlayInv'
  BY <1>1, <1>2, <1>5, <1>6, <1>8, <1>9 DEF PeopleInv, PlayInv, QueuedMayPlay, Open, Complete
<1> QED
  BY <1>7, <1>10

\* A match that is decided while nobody has it to resolve.
LEMMA DecidedPeople ==
  ASSUME PeopleInv, Open, ~ Open', \A r \in Requests : pc[r] # "resolving",
         UNCHANGED <<innings, rated, queued, requests, row>>, half' = half,
         \A s \in Sides : standing'[s] = "eliminated" => standing[s] = "eliminated",
         CountedOnce', PlayedMatchStands'
  PROVE  NobodyElse' /\ ResolvingInv' /\ PlayInv'
<1>1. \A r \in Requests : pc[r] # "requeueing" /\ pc[r] # "batting"
  BY DEF PeopleInv, PlayInv, NobodyElse
<1>2. queued = {} /\ \A s \in Sides : standing[s] # "eliminated"
  BY DEF PeopleInv, PlayInv, QueuedMayPlay
<1>3. NobodyElse' /\ ResolvingInv'
  BY <1>1 DEF PeopleInv, NobodyElse, ResolvingInv, requests
<1>4. status' # "confirmed"
  BY DEF Open, OpenStatus
<1>5. PlayInv'
  BY <1>1, <1>2, <1>4 DEF PeopleInv, PlayInv, QueuedMayPlay, requests
<1> QED
  BY <1>3, <1>5

LEMMA DeclinePeople ==
  ASSUME PeopleOnly, PeopleInv, NEW s \in Sides, Decline(s)
  PROVE  NobodyElse' /\ ResolvingInv' /\ PlayInv'
<1>1. /\ status = "confirmed" /\ status' = "cancelled"
      /\ UNCHANGED <<half, verdict, innings, standing, wins, losses, rated, queued, requests, row>>
  BY DEF Decline, Declinable, field, credits, sweepers
<1>2. Open /\ ~ Open' /\ ~ Complete(innings)
  BY <1>1 DEF Open, OpenStatus, PeopleInv, PlayInv
<1>3. \A r \in Requests : pc[r] # "resolving"
  BY <1>2 DEF PeopleInv, ResolvingInv
<1>4. CountedOnce' /\ PlayedMatchStands'
  BY <1>1, <1>2 DEF PeopleInv, PlayInv, CountedOnce, PlayedMatchStands, Complete
<1> QED
  BY <1>1, <1>2, <1>3, <1>4, DecidedPeople

\* The closing round's cut, and what it makes of a match nobody has finished.
LEMMA ClosePeople ==
  ASSUME PeopleOnly, PeopleInv, CloseRound
  PROVE  NobodyElse' /\ ResolvingInv' /\ PlayInv'
<1>1. /\ UNCHANGED <<innings, rated, queued, requests, row>>
      /\ SettleOpenMatch /\ Cut
      /\ half = innings /\ innings \in Halves
      /\ standing \in [Sides -> {"active", "eliminated", "knockout", "out"}]
  BY DEF CloseRound, PeopleInv, TypeOK, PlayInv
<1>2. \A s \in Sides : standing'[s] = "eliminated" => standing[s] = "eliminated"
  BY <1>1 DEF Cut
<1>3. CASE Open /\ ~ Deferred
  <2> DEFINE v == SweepVerdict(half)
  <2>1. Ended(half, v) /\ v \in Verdicts
    BY <1>1, <1>3, VerdictTypes DEF SettleOpenMatch, SweepVerdict, Verdicts, Tie, NoVerdict
  <2>2. Open /\ ~ Open' /\ half' = half /\ verdict = NoVerdict
    BY <1>3, <2>1 DEF Ended, Open, OpenStatus, PeopleInv, PlayInv
  <2>3. \A r \in Requests : pc[r] # "resolving"
    BY <1>1, <1>3 DEF Deferred, PeopleInv, ResolvingInv
  <2>4. /\ status' = IF v = NoVerdict THEN "expired" ELSE "completed"
        /\ verdict' = v
    BY <2>1, <2>2 DEF Ended
  <2>5. \A s \in Sides : /\ wins'[s] = IF s = v THEN 1 ELSE 0
                         /\ losses'[s] = IF v = Other(s) THEN 1 ELSE 0
                         /\ rated'[s] = 0
    BY <1>1, <2>1, <2>2, FirstCredit DEF Ended, PeopleInv, PlayInv
  <2>6. CountedOnce'
    BY <2>4, <2>5, SidesFacts DEF CountedOnce, NoVerdict, Sides, Other
  <2>7. Complete(innings) => v # NoVerdict
    BY <1>1, OutcomeFollows DEF SweepVerdict
  <2>8. PlayedMatchStands'
    BY <1>1, <2>4, <2>7 DEF PlayedMatchStands, Complete
  <2> QED
    BY <1>1, <1>2, <2>2, <2>3, <2>6, <2>8, DecidedPeople
<1>4. CASE ~ (Open /\ ~ Deferred)
  <2>1. UNCHANGED <<status, half, verdict, quiet, wins, losses>>
    BY <1>1, <1>4 DEF SettleOpenMatch, matchRow
  <2>2. UNCHANGED <<pc, carried>>
    BY <1>1 DEF requests
  <2>3. NobodyElse' /\ ResolvingInv'
    BY <1>1, <2>1, <2>2 DEF PeopleInv, NobodyElse, ResolvingInv, Open, Complete
  <2>4. CountedOnce' /\ PlayedMatchStands'
    BY <1>1, <2>1 DEF PeopleInv, PlayInv, CountedOnce, PlayedMatchStands, Open, Complete
  <2>5. \A r \in Requests : pc'[r] = "requeueing" => (~ Open /\ verdict = Outcome(carried[r]))'
    BY <2>1, <2>2 DEF PeopleInv, PlayInv, Open, Outcome
  <2>6. QueuedMayPlay'
    BY <1>1, <1>2, <2>1 DEF PeopleInv, TypeOK, PlayInv, QueuedMayPlay, Open
  <2>7. PlayInv'
    BY <1>1, <1>2, <2>1, <2>4, <2>5, <2>6 DEF PeopleInv, PlayInv, Open, Complete
  <2> QED
    BY <2>3, <2>7
<1> QED
  BY <1>3, <1>4

LEMMA NextPeople ==
  ASSUME PeopleOnly, PeopleInv, [Next]_vars
  PROVE  PeopleInv'
<1>1. TypeOK' /\ SubmitInv'
  BY NextTypes, SubmitInvKept DEF PeopleInv
<1>2. NobodyElse /\ ResolvingInv /\ PlayInv
  BY DEF PeopleInv
<1> SUFFICES NobodyElse' /\ ResolvingInv' /\ PlayInv'
  BY <1>1 DEF PeopleInv
<1>3. ASSUME NEW r \in Requests, Arrive(r) \/ Handler(r) \/ Crash(r)
      PROVE  NobodyElse' /\ ResolvingInv' /\ PlayInv'
  <2>1. ~ BotBats(r) /\ ~ BotHasBatted(r)
    BY <1>2 DEF NobodyElse, BotBats, BotHasBatted
  <2> QED
    BY <1>3, <2>1, RequestsStill, SubmitPeople, ResolvePeople, RequeuePeople DEF Handler
<1>4. ASSUME NEW s \in Sides, Decline(s) PROVE NobodyElse' /\ ResolvingInv' /\ PlayInv'
  BY <1>4, DeclinePeople
<1>5. CASE Worker
  <2>1. CloseRound \/ SyncQueue
    BY <1>2, <1>5 DEF Worker, PeopleOnly, NobodyElse, UnplayedScan, UnplayedSettle, EndDate,
       ReleaseScan, ReleaseSettle
  <2>2. CASE SyncQueue
    <3>1. /\ UNCHANGED <<status, half, verdict, quiet, innings, standing, wins, losses, rated, row, pc, carried>>
          /\ queued' \subseteq queued
      BY <2>2 DEF SyncQueue, matchRow, field, credits, requests
    <3>2. \A r \in Requests : pc[r] # "batting"
      BY <1>2 DEF NobodyElse
    <3>3. (\E r \in Requests : pc[r] = "resolving") => quiet' = 0
      BY <1>2, <3>1 DEF ResolvingInv
    <3> QED
      BY <1>2, <3>1, <3>2, <3>3, StillPeople
  <2> QED
    BY <2>1, <2>2, ClosePeople
<1>6. CASE Clock \/ UNCHANGED vars
  <2>1. UNCHANGED <<status, half, verdict, innings, standing, wins, losses, rated, row, pc, carried, queued>>
    BY <1>6 DEF Clock, RoundDeadline, SlotDeadline, HoldLapses, Age, vars, matchRow, field, credits,
       requests, sweepers
  <2>2. (\E r \in Requests : pc[r] = "resolving") => quiet' = 0
    BY <1>2, <1>6 DEF PeopleOnly, ResolvingInv, Clock, RoundDeadline, SlotDeadline, HoldLapses, Age,
       vars, matchRow
  <2>3. \A r \in Requests : pc[r] # "batting"
    BY <1>2 DEF NobodyElse
  <2> QED
    BY <1>2, <2>1, <2>2, <2>3, StillPeople
<1> QED
  BY <1>3, <1>4, <1>5, <1>6 DEF Next

LEMMA PeopleInvariant ==
  ASSUME PeopleOnly
  PROVE  Spec => []PeopleInv
<1>1. PeopleInv /\ [Next]_vars => PeopleInv'
  BY NextPeople
<1> QED
  BY <1>1, InitPeople, PTL DEF Spec

\* Whichever of the submissions and the closing round decides the match, and whatever
\* crashes in between, it is credited once, for the verdict on record.
THEOREM MatchCountsOnce ==
  ASSUME PeopleOnly
  PROVE  Spec => []CountedOnce
<1>1. PeopleInv => CountedOnce
  BY DEF PeopleInv, PlayInv
<1> QED
  BY <1>1, PeopleInvariant, PTL

\* A match with both innings on record is never expired or declined away.
THEOREM PlayedIsDecided ==
  ASSUME PeopleOnly
  PROVE  Spec => []PlayedMatchStands
<1>1. PeopleInv => PlayedMatchStands
  BY DEF PeopleInv, PlayInv
<1> QED
  BY <1>1, PeopleInvariant, PTL

\* Nobody waits in the queue with this match still to play, and no loser does.
THEOREM QueueIsForTheFree ==
  ASSUME PeopleOnly
  PROVE  Spec => []QueuedMayPlay
<1>1. PeopleInv => QueuedMayPlay
  BY DEF PeopleInv, PlayInv
<1> QED
  BY <1>1, PeopleInvariant, PTL
----------------------------------------------------------------------------
(* The contract.                                                           *)

\* A decision is one of the contract's when the innings on record say it.
LEMMA DecisionMeetsContract ==
  ASSUME TypeOK, TypeOK', Open, verdict = NoVerdict, ~ Open', UNCHANGED innings,
         Follows(innings, verdict'), verdict' = NoVerdict => ~ Complete(innings),
         \A s \in Sides : wins'[s] = wins[s] + IF s = verdict' THEN 1 ELSE 0,
         \A s \in Sides : losses'[s] = losses[s] + IF verdict' = Other(s) THEN 1 ELSE 0
  PROVE  Contract!Next
<1>1. /\ wins \in [Sides -> Nat] /\ losses \in [Sides -> Nat]
      /\ wins' \in [Sides -> Nat] /\ losses' \in [Sides -> Nat]
      /\ verdict' \in {NoVerdict, 1, 2, Tie}
  BY DEF TypeOK, Verdicts, NoVerdict, Tie
<1>2. Contract!Batted = Contract!Sides <=> Complete(innings)
  BY DEF Contract!Batted, Contract!Sides, Contract!NoScore, Complete, Sides, NoScore
<1>3. CASE verdict' \in Sides
  <2> DEFINE w == verdict'
  <2>1. w \in Sides /\ innings[w] # NoScore /\ innings[w] > innings[Other(w)]
    BY <1>3 DEF Follows
  <2>2. /\ wins' = [wins EXCEPT ![w] = @ + 1]
        /\ losses' = [losses EXCEPT ![Other(w)] = @ + 1]
    <3>1. w = 1 \/ w = 2
      BY <2>1, SidesFacts
    <3>2. \A s \in Sides : wins'[s] = IF s = w THEN wins[s] + 1 ELSE wins[s]
      BY <1>1
    <3>3. \A s \in Sides : losses'[s] = IF s = Other(w) THEN losses[s] + 1 ELSE losses[s]
      BY <1>1, <3>1, SidesFacts
    <3>4. Other(w) \in Sides
      BY <3>1, SidesFacts
    <3> QED
      BY <1>1, <2>1, <3>2, <3>3, <3>4
  <2>3. Contract!Win(w)
    BY <2>1, <2>2, <1>3 DEF Contract!Win, Contract!Batted, Contract!Sides, Contract!NoScore,
       Contract!Other, Sides, NoScore, Other, Tie
  <2> QED
    BY <2>1, <2>3 DEF Contract!Next, Contract!Sides, Sides
<1>4. CASE verdict' \notin Sides
  <2>1. wins' = wins /\ losses' = losses
    <3>1. \A s \in Sides : wins'[s] = wins[s] /\ losses'[s] = losses[s]
      BY <1>1, <1>4, SidesFacts
    <3> QED
      BY <1>1, <3>1
  <2>2. CASE verdict' = Tie
    <3>1. Complete(innings) /\ innings[1] = innings[2]
      BY <2>2 DEF Follows
    <3>2. Contract!TieMatch
      BY <1>2, <1>4, <2>1, <2>2, <3>1 DEF Contract!TieMatch
    <3> QED
      BY <3>2 DEF Contract!Next
  <2>3. CASE verdict' = NoVerdict
    <3>1. Contract!Void
      BY <1>2, <1>4, <2>1, <2>3 DEF Contract!Void, NoVerdict, Tie
    <3> QED
      BY <3>1 DEF Contract!Next
  <2> QED
    BY <1>1, <1>4, <2>2, <2>3, SidesFacts
<1> QED
  BY <1>3, <1>4

LEMMA SubmitMeetsContract ==
  ASSUME PeopleInv, PeopleInv', NEW r \in Requests, SubmitCommit(r)
  PROVE  Contract!Next
<1>1. /\ side[r] \in Sides /\ Open /\ innings[side[r]] = NoScore /\ score[r] \in Score
  BY DEF SubmitCommit, PeopleInv, TypeOK, SubmitInv
<1>2. /\ Open' /\ innings' = [innings EXCEPT ![side[r]] = score[r]]
      /\ UNCHANGED <<wins, losses>>
  BY DEF SubmitCommit, credits, Open, OpenStatus
<1>3. Contract!Bat(side[r], score[r])
  BY <1>1, <1>2 DEF Contract!Bat, Contract!Batted, Contract!Sides, Contract!NoScore, NoScore
<1> QED
  BY <1>1, <1>3 DEF Contract!Next, Contract!Sides, Sides, Score

LEMMA NextMeetsContract ==
  ASSUME PeopleOnly, PeopleInv, PeopleInv', [Next]_vars
  PROVE  [Contract!Next]_(Contract!vars)
<1>1. /\ TypeOK /\ TypeOK' /\ ResolvingInv /\ PlayInv
      /\ innings \in Halves /\ half = innings
      /\ Open => verdict = NoVerdict
  BY DEF PeopleInv, TypeOK, PlayInv
<1>2. ASSUME UNCHANGED <<status, verdict, innings, wins, losses>> PROVE UNCHANGED Contract!vars
  BY <1>2 DEF Contract!vars, Open
<1>3. ASSUME NEW r \in Requests, ResolveTie(r) \/ ResolveWin(r) PROVE Contract!Next
  <2> DEFINE v == Outcome(innings)
  <2>1. pc[r] = "resolving" /\ Open /\ Complete(innings) /\ carried[r] = innings
    BY <1>1, <1>3 DEF ResolvingInv, ResolveTie, ResolveWin
  <2>2. UNCHANGED innings /\ verdict' = v /\ ~ Open'
    BY <1>3, <2>1 DEF ResolveTie, ResolveWin, Open, OpenStatus
  <2>3. v # NoVerdict /\ Follows(innings, v) /\ v \in {1, 2, Tie}
    BY <1>1, <2>1, OutcomeFollows, VerdictTypes
  <2>4. /\ \A s \in Sides : wins'[s] = wins[s] + IF s = v THEN 1 ELSE 0
        /\ \A s \in Sides : losses'[s] = losses[s] + IF v = Other(s) THEN 1 ELSE 0
    <3>1. CASE ResolveTie(r)
      <4>1. UNCHANGED <<wins, losses>> /\ v = Tie
        BY <2>1, <3>1 DEF ResolveTie, credits
      <4>2. \A s \in Sides : s # Tie /\ Other(s) # Tie
        BY SidesFacts DEF Tie
      <4>3. \A s \in Sides : wins[s] \in Nat /\ losses[s] \in Nat
        BY <1>1 DEF TypeOK
      <4> HIDE DEF v
      <4> QED
        BY <4>1, <4>2, <4>3
    <3>2. CASE ResolveWin(r)
      <4>1. CreditStandings(v)
        BY <2>1, <3>2 DEF ResolveWin
      <4>2. \A s \in Sides : (v \in Sides /\ s # v) <=> v = Other(s)
        BY DEF Sides, Other
      <4> QED
        BY <4>1, <4>2 DEF CreditStandings
    <3> QED
      BY <1>3, <3>1, <3>2
  <2> HIDE DEF v
  <2> QED
    BY <1>1, <2>1, <2>2, <2>3, <2>4, DecisionMeetsContract
<1>4. ASSUME NEW s \in Sides, Decline(s) PROVE Contract!Next
  <2>1. /\ status = "confirmed" /\ status' = "cancelled"
        /\ UNCHANGED <<verdict, innings, wins, losses>>
    BY <1>4 DEF Decline, Declinable, credits
  <2>2. Open /\ ~ Open' /\ ~ Complete(innings) /\ verdict' = NoVerdict
    BY <1>1, <2>1 DEF Open, OpenStatus, PlayInv
  <2>3. Follows(innings, verdict')
    BY <2>2 DEF Follows, NoVerdict, Sides, Tie
  <2>4. \A t \in Sides : /\ t # verdict' /\ Other(t) # verdict'
                         /\ wins[t] \in Nat /\ losses[t] \in Nat
    BY <1>1, <2>2, SidesFacts DEF TypeOK, NoVerdict
  <2> QED
    BY <1>1, <2>1, <2>2, <2>3, <2>4, DecisionMeetsContract
<1>5. CASE CloseRound
  <2>1. UNCHANGED innings /\ SettleOpenMatch
    BY <1>5 DEF CloseRound
  <2>2. CASE Open /\ ~ Deferred
    <3> DEFINE v == SweepVerdict(innings)
    <3>1. Ended(innings, v)
      BY <1>1, <2>1, <2>2 DEF SettleOpenMatch
    <3>2. ~ Open' /\ verdict' = v /\ CreditStandings(v)
      BY <1>1, <2>2, <3>1 DEF Ended, Open, OpenStatus
    <3>3. Follows(innings, v) /\ (v = NoVerdict => ~ Complete(innings))
      BY <1>1, SweepFollows, OutcomeFollows DEF SweepVerdict
    <3>4. \A s \in Sides : (v \in Sides /\ s # v) <=> v = Other(s)
      BY DEF Sides, Other
    <3>5. /\ \A s \in Sides : wins'[s] = wins[s] + IF s = v THEN 1 ELSE 0
          /\ \A s \in Sides : losses'[s] = losses[s] + IF v = Other(s) THEN 1 ELSE 0
      BY <3>2, <3>4 DEF CreditStandings
    <3> HIDE DEF v
    <3> QED
      BY <1>1, <2>1, <2>2, <3>2, <3>3, <3>5, DecisionMeetsContract
  <2>3. CASE ~ (Open /\ ~ Deferred)
    BY <1>2, <2>1, <2>3 DEF SettleOpenMatch, matchRow
  <2> QED
    BY <2>2, <2>3
<1>6. ASSUME NEW r \in Requests, Handler(r) PROVE [Contract!Next]_(Contract!vars)
  <2>1. CASE SubmitCommit(r)
    BY <2>1, SubmitMeetsContract
  <2>2. CASE ResolveTie(r) \/ ResolveWin(r)
    BY <1>3, <2>2
  <2>3. ~ BotBats(r) /\ ~ BotHasBatted(r)
    BY DEF PeopleInv, NobodyElse, BotBats, BotHasBatted
  <2>4. CASE PollReads(r) \/ ClaimTurn(r) \/ ClaimRefused(r) \/ Requeue(r)
    BY <1>2, <2>4 DEF PollReads, ClaimTurn, ClaimRefused, Requeue, matchRow, credits
  <2> QED
    BY <1>6, <2>1, <2>2, <2>3, <2>4 DEF Handler
<1>7. ASSUME NEW r \in Requests, Arrive(r) \/ Crash(r) PROVE UNCHANGED Contract!vars
  BY <1>2, <1>7 DEF Arrive, SubmitBegin, PollFindsBot, PollFindsNoBot, Crash, matchRow, credits
<1>8. CASE Worker
  <2>1. CloseRound \/ SyncQueue
    BY <1>8 DEF Worker, PeopleOnly, PeopleInv, NobodyElse, UnplayedScan, UnplayedSettle, EndDate,
       ReleaseScan, ReleaseSettle
  <2>2. CASE SyncQueue
    BY <1>2, <2>2 DEF SyncQueue, matchRow, credits
  <2> QED
    BY <1>5, <2>1, <2>2
<1>9. CASE Clock \/ UNCHANGED vars
  BY <1>2, <1>9 DEF Clock, RoundDeadline, SlotDeadline, HoldLapses, Age, vars, matchRow, credits
<1> QED
  BY <1>4, <1>6, <1>7, <1>8, <1>9 DEF Next

LEMMA InitMeetsContract == Init => Contract!Init
<1> SUFFICES ASSUME Init PROVE Contract!Init
  OBVIOUS
<1>1. innings \in Halves
  BY InitTypes DEF TypeOK
<1>2. \E s \in Sides : innings[s] = NoScore
  BY SidesFacts DEF Init, Empty
<1>3. Open /\ verdict = NoVerdict
  BY DEF Init, Open, OpenStatus
<1> QED
  BY <1>1, <1>2, <1>3 DEF Init, Contract!Init, Contract!Batted, Contract!Sides, Contract!NoScore,
     Sides, NoScore, Halves, ScoreOrNone, Score, NoVerdict

\* Polls, submissions, crashes and the closing round together keep the contract with
\* the two players: one decision, by the innings on record, credited as it is taken.
THEOREM MatchKeepsContract ==
  ASSUME PeopleOnly
  PROVE  Spec => ImplementsContract
<1>1. PeopleInv /\ PeopleInv' /\ [Next]_vars => [Contract!Next]_(Contract!vars)
  BY NextMeetsContract
<1> QED
  BY <1>1, InitMeetsContract, PeopleInvariant, PTL DEF Spec, ImplementsContract, Contract!Spec
=============================================================================
