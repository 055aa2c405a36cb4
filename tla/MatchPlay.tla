----------------------------- MODULE MatchPlay -----------------------------
(***************************************************************************)
(* One normal-phase tournament match, from the moment it is paired to the  *)
(* moment it is decided: the headset's two requests (poll and score        *)
(* submission, meta.service.ts), the resolution they trigger               *)
(* (match-outcome.ts) and the scheduled sweeps of the worker that end a    *)
(* match nobody finished (close-round, expire-unplayed-slots and the       *)
(* lifecycle job).                                                         *)
(*                                                                         *)
(* A step is what one process does between two awaits that another process *)
(* can observe.  A transaction that locks the match row for update is one  *)
(* step, or two when a clock may move inside it; what a handler does after *)
(* its commit is a step of its own, and a crash may come before it.        *)
(***************************************************************************)
EXTENDS Integers, FiniteSets

CONSTANTS
  Requests,       \* API requests that can be in flight at the same time
  NoRequest,      \* "nobody holds the row lock"
  MaxScore,       \* the scores of an innings are 0..MaxScore
  Bot,            \* the side a bot plays, or 0 when both are people
  Sweeps,         \* which of the worker's sweeps run
  SerialClient,   \* a headset has at most one request in flight
  PromptHandlers  \* no handler stalls for minutes between its commit and the
                  \* resolution that follows it (it may still crash there)

Sides == {1, 2}
Other(s) == 3 - s
Score == 0..MaxScore
NoScore == -1
ScoreOrNone == Score \cup {NoScore}
SweepKinds == {"close", "unplayed", "lifecycle"}

ASSUME MatchPlayAssumption ==
  /\ NoRequest \notin Requests
  /\ MaxScore \in Nat
  /\ Bot \in {0, 1, 2}
  /\ Sweeps \subseteq SweepKinds
  /\ SerialClient \in BOOLEAN
  /\ PromptHandlers \in BOOLEAN

\* Verdicts: the winner's side, a tie to be replayed, or none yet.
NoVerdict == 0
Tie == 3
Verdicts == 0..3

OpenStatus == {"confirmed", "in_progress"}
Status == OpenStatus \cup {"completed", "cancelled", "expired"}

VARIABLES
  status, half, verdict,    \* the matches row: status and its result column
  holder, lapsed,           \* active_player_id; its hold is over ten minutes old
  quiet,                    \* age of updated_at: 0, 1 = two, 2 = five minutes
  rowLock,                  \* the request whose transaction holds the row
  innings,                  \* match_innings, keyed by side
  roundOver, slotOver,      \* the two deadlines have passed
  roundOpen, tourOver,      \* tournament_rounds.status, tournaments.status
  standing, round,          \* tournament_participants.status and round_number
  wins, losses, rated,      \* what the match has credited, and rating updates
  queued,                   \* sides in the matchmaking queue
  pc, side, score, carried, \* the requests in flight
  row, dropped              \* rows a sweep has scanned; close-round's queue sync

matchRow == <<status, half, verdict, quiet>>
turn == <<holder, lapsed>>
clocks == <<roundOver, slotOver>>
tournament == <<roundOpen, tourOver>>
field == <<standing, round>>
credits == <<wins, losses, rated>>
requests == <<pc, side, score, carried>>
sweepers == <<row, dropped>>
vars == <<status, half, verdict, holder, lapsed, quiet, rowLock, innings,
          roundOver, slotOver, roundOpen, tourOver, standing, round,
          wins, losses, rated, queued, pc, side, score, carried, row, dropped>>

Empty == [s \in Sides |-> NoScore]
Halves == [Sides -> ScoreOrNone]
NoRow == [seen |-> FALSE, half |-> Empty]

Open == status \in OpenStatus
RowFree == rowLock = NoRequest
Complete(h) == \A s \in Sides : h[s] # NoScore

\* Mutant of Outcome: a level score falls back on player 1.
OutcomeTieToFirst(h) == IF h[1] >= h[2] THEN 1 ELSE 2

\* resolveMatchOutcome: the higher innings wins whoever chased, level is a tie.
Outcome(h) == IF h[1] = h[2] THEN Tie ELSE IF h[1] > h[2] THEN 1 ELSE 2

\* Mutant of Walkover: the side that did not turn up takes it.
WalkoverSwapped(h) ==
  IF Complete(h) \/ h = Empty THEN NoVerdict
  ELSE IF h[1] # NoScore THEN 2 ELSE 1

\* resolveAbandonedMatch: the only side on the board takes the match.
Walkover(h) ==
  IF Complete(h) \/ h = Empty THEN NoVerdict
  ELSE IF h[1] # NoScore THEN 1 ELSE 2

\* assertMatchSlotPlayable: inside the round and inside the slot.
SlotPlayable == roundOpen /\ ~roundOver /\ ~slotOver

\* isTurnHoldActive, seen from the side that wants to bat.
HeldAgainst(s) == holder = Other(s) /\ ~lapsed

Available(r, s) ==
  /\ pc[r] = "idle"
  /\ s # Bot
  /\ SerialClient => \A q \in Requests : pc[q] # "idle" => side[q] # s

\* A handler returns: its locals go out of scope.
Finish(r) ==
  /\ pc' = [pc EXCEPT ![r] = "idle"]
  /\ side' = [side EXCEPT ![r] = 1]
  /\ score' = [score EXCEPT ![r] = NoScore]
  /\ carried' = [carried EXCEPT ![r] = Empty]

\* It goes on to resolve the match from the scoreline h it has in hand.
GoResolve(r, h) ==
  /\ pc' = [pc EXCEPT ![r] = "resolving"]
  /\ carried' = [carried EXCEPT ![r] = h]
  /\ UNCHANGED <<side, score>>

\* One win and one loss; a verdict without a winner credits nobody.
CreditStandings(v) ==
  /\ wins' = [s \in Sides |-> wins[s] + IF s = v THEN 1 ELSE 0]
  /\ losses' = [s \in Sides |-> losses[s] + IF v \in Sides /\ s # v THEN 1 ELSE 0]

TypeOK ==
  /\ status \in Status
  /\ half \in Halves
  /\ verdict \in Verdicts
  /\ holder \in 0..2
  /\ lapsed \in BOOLEAN
  /\ quiet \in 0..2
  /\ rowLock \in Requests \cup {NoRequest}
  /\ innings \in Halves
  /\ roundOver \in BOOLEAN /\ slotOver \in BOOLEAN
  /\ roundOpen \in BOOLEAN /\ tourOver \in BOOLEAN
  /\ standing \in [Sides -> {"active", "eliminated", "knockout", "out"}]
  /\ round \in [Sides -> Nat]
  /\ wins \in [Sides -> Nat] /\ losses \in [Sides -> Nat]
  /\ rated \in [Sides -> Nat]
  /\ queued \subseteq Sides
  /\ pc \in [Requests -> {"idle", "submitting", "batting", "reading", "claiming",
                          "resolving", "requeueing"}]
  /\ side \in [Requests -> Sides]
  /\ score \in [Requests -> ScoreOrNone]
  /\ carried \in [Requests -> Halves]
  /\ row \in [{"unplayed", "lifecycle"} -> [seen : BOOLEAN, half : Halves]]
  /\ dropped \subseteq Sides

----------------------------------------------------------------------------
(* A match as pairing leaves it: both innings to play, or a chase with the *)
(* setter's solo innings already recorded and on the board.                *)

Init ==
  /\ innings \in {Empty} \cup
       {[Empty EXCEPT ![s] = x] : s \in Sides \ {Bot}, x \in Score}
  /\ half = innings
  /\ status = "confirmed" /\ verdict = NoVerdict
  /\ holder = 0 /\ lapsed = FALSE /\ quiet = 0
  /\ rowLock = NoRequest
  /\ roundOver = FALSE /\ slotOver = FALSE
  /\ roundOpen = TRUE /\ tourOver = FALSE
  /\ standing = [s \in Sides |-> "active"]
  /\ round = [s \in Sides |-> 1]
  /\ wins = [s \in Sides |-> 0] /\ losses = [s \in Sides |-> 0]
  /\ rated = [s \in Sides |-> 0]
  /\ queued = {}
  /\ pc = [r \in Requests |-> "idle"]
  /\ side = [r \in Requests |-> 1]
  /\ score = [r \in Requests |-> NoScore]
  /\ carried = [r \in Requests |-> Empty]
  /\ row = [k \in {"unplayed", "lifecycle"} |-> NoRow]
  /\ dropped = {}

----------------------------------------------------------------------------
(* POST /matches/:id/scores                                                *)

\* Mutant of LockRow: the match is read without FOR UPDATE.
ReadRow(r) == UNCHANGED rowLock

LockRow(r) == rowLock' = r

\* BEGIN, SELECT ... FOR UPDATE and every check made under the lock.
SubmitBegin(r, s, x) ==
  /\ Available(r, s)
  /\ RowFree
  /\ Open
  /\ SlotPlayable
  /\ innings[s] = NoScore
  /\ innings[Other(s)] # NoScore \/ ~HeldAgainst(s)
  /\ LockRow(r)
  /\ pc' = [pc EXCEPT ![r] = "submitting"]
  /\ side' = [side EXCEPT ![r] = s]
  /\ score' = [score EXCEPT ![r] = x]
  /\ UNCHANGED <<matchRow, turn, innings, clocks, tournament, field, credits,
                 queued, carried, sweepers>>

\* Mutant of OtherHalf: a missing half is written as a duck.
OtherHalfOrZero(s) == IF half[s] # NoScore THEN half[s] ELSE 0

\* The opponent's half: what is on the board, else their recorded innings.
OtherHalf(s) == IF half[s] # NoScore THEN half[s] ELSE innings[s]

\* INSERT the innings, fill the scoreline, release the turn, COMMIT.  Only the
\* submission that found the other innings on record goes on to resolve.
SubmitCommit(r) ==
  LET s == side[r]
      new == [half EXCEPT ![s] = score[r], ![Other(s)] = OtherHalf(Other(s))]
      both == innings[Other(s)] # NoScore
  IN
  /\ pc[r] = "submitting"
  /\ innings' = [innings EXCEPT ![s] = score[r]]
  /\ half' = new
  /\ status' = "in_progress"
  /\ quiet' = 0
  /\ holder' = 0 /\ lapsed' = FALSE
  /\ rowLock' = NoRequest
  /\ IF both THEN GoResolve(r, new) ELSE Finish(r)
  /\ UNCHANGED <<verdict, clocks, tournament, field, credits, queued, sweepers>>

----------------------------------------------------------------------------
(* GET /matches/current                                                    *)

\* playPendingBotInnings finds an open match against a bot, still playable.
PollFindsBot(r, s) ==
  /\ Available(r, s)
  /\ Bot = Other(s)
  /\ Open /\ SlotPlayable
  /\ pc' = [pc EXCEPT ![r] = "batting"]
  /\ side' = [side EXCEPT ![r] = s]
  /\ UNCHANGED <<matchRow, turn, rowLock, innings, clocks, tournament, field,
                 credits, queued, score, carried, sweepers>>

\* It finds none, or one whose window has passed.
PollFindsNoBot(r, s) ==
  /\ Available(r, s)
  /\ Bot = Other(s) => ~(Open /\ SlotPlayable)
  /\ pc' = [pc EXCEPT ![r] = "reading"]
  /\ side' = [side EXCEPT ![r] = s]
  /\ UNCHANGED <<matchRow, turn, rowLock, innings, clocks, tournament, field,
                 credits, queued, score, carried, sweepers>>

\* Both innings are on record: this poll resolves the match, as any other does.
AfterBotInnings(r) ==
  IF innings[side[r]] # NoScore
  THEN GoResolve(r, innings')
  ELSE /\ pc' = [pc EXCEPT ![r] = "reading"]
       /\ UNCHANGED <<side, score, carried>>

\* Mutant of BotClaims: the second of two polls replaces the first one's innings.
BotReplaces == TRUE

\* The insert that is the claim to bat for the bot.
BotClaims == innings[Bot] = NoScore

\* The bot's innings is inserted (the foreign key waits for the row lock) and
\* the result written over the row, whatever its status has become.
BotBats(r) ==
  /\ pc[r] = "batting"
  /\ RowFree
  /\ BotClaims
  /\ \E x \in Score : innings' = [innings EXCEPT ![Bot] = x]
  /\ half' = innings'
  /\ status' = "in_progress"
  /\ verdict' = NoVerdict
  /\ quiet' = 0
  /\ AfterBotInnings(r)
  /\ UNCHANGED <<turn, rowLock, clocks, tournament, field, credits, queued,
                 sweepers>>

\* ON CONFLICT DO NOTHING: an earlier poll recorded it; read what is there.
BotHasBatted(r) ==
  /\ pc[r] = "batting"
  /\ innings[Bot] # NoScore
  /\ UNCHANGED innings
  /\ AfterBotInnings(r)
  /\ UNCHANGED <<matchRow, turn, rowLock, clocks, tournament, field, credits,
                 queued, sweepers>>

\* getCurrentMatch reads the open match and its innings; the turn is only asked
\* for when it saw an empty board.
PollReads(r) ==
  /\ pc[r] = "reading"
  /\ IF Open /\ innings = Empty
     THEN /\ pc' = [pc EXCEPT ![r] = "claiming"]
          /\ UNCHANGED <<side, score, carried>>
     ELSE Finish(r)
  /\ UNCHANGED <<matchRow, turn, rowLock, innings, clocks, tournament, field,
                 credits, queued, sweepers>>

\* claimTurn: one conditional UPDATE on who holds the match.
ClaimTurn(r) ==
  LET s == side[r] IN
  /\ pc[r] = "claiming"
  /\ RowFree
  /\ ~HeldAgainst(s)
  /\ holder' = s
  /\ lapsed' = IF holder = s THEN lapsed ELSE FALSE
  /\ quiet' = 0
  /\ Finish(r)
  /\ UNCHANGED <<status, half, verdict, rowLock, innings, clocks, tournament,
                 field, credits, queued, sweepers>>

ClaimRefused(r) ==
  /\ pc[r] = "claiming"
  /\ RowFree
  /\ HeldAgainst(side[r])
  /\ Finish(r)
  /\ UNCHANGED <<matchRow, turn, rowLock, innings, clocks, tournament, field,
                 credits, queued, sweepers>>

----------------------------------------------------------------------------
(* applyMatchOutcome, run by a request after its own commit.  No statement  *)
(* of it looks at the status the match has by then.                        *)

ResolveTie(r) ==
  /\ pc[r] = "resolving"
  /\ RowFree
  /\ Outcome(carried[r]) = Tie
  /\ status' = "cancelled"
  /\ half' = carried[r]
  /\ verdict' = Tie
  /\ quiet' = 0
  /\ pc' = [pc EXCEPT ![r] = "requeueing"]
  /\ UNCHANGED <<turn, rowLock, innings, clocks, tournament, field, credits,
                 queued, side, score, carried, sweepers>>

\* applyMatchWinner: result, ratings and standings in one transaction.
ResolveWin(r) ==
  LET w == Outcome(carried[r])
      l == Other(w)
  IN
  /\ pc[r] = "resolving"
  /\ RowFree
  /\ w # Tie
  /\ status' = "completed"
  /\ half' = carried[r]
  /\ verdict' = w
  /\ quiet' = 0
  /\ CreditStandings(w)
  /\ rated' = [s \in Sides |-> rated[s] + 1]
  /\ standing' = [standing EXCEPT ![w] = "active", ![l] = "eliminated"]
  /\ round' = [round EXCEPT ![w] = @ + 1]
  /\ pc' = [pc EXCEPT ![r] = "requeueing"]
  /\ UNCHANGED <<turn, rowLock, innings, clocks, tournament, queued, side,
                 score, carried, sweepers>>

\* Mutant of BackInQueue: the tie forgotten.
WinnerBackInQueue(v) == {v}

\* Who is requeued: everyone but a bot after a tie, the winner after a win.
BackInQueue(v) == IF v = Tie THEN Sides \ {Bot} ELSE {v}

\* Mutant of QueueAfter: a win is handled as a tie is.
QueueAfterTie(v) == queued \cup IF Open THEN {} ELSE Sides \ {Bot}

\* requeuePlayer refuses a player with an open match; after a win the loser is
\* taken out of the queue.  A tie leaves a bot out; a win does not look.
QueueAfter(v) ==
  (queued \cup IF Open THEN {} ELSE BackInQueue(v)) \ IF v = Tie THEN {} ELSE {Other(v)}

Requeue(r) ==
  /\ pc[r] = "requeueing"
  /\ queued' = QueueAfter(Outcome(carried[r]))
  /\ Finish(r)
  /\ UNCHANGED <<matchRow, turn, rowLock, innings, clocks, tournament, field,
                 credits, sweepers>>

\* The connection drops or the process dies: the transaction rolls back and
\* whatever the handler had still to do is lost.
Crash(r) ==
  /\ pc[r] # "idle"
  /\ Finish(r)
  /\ rowLock' = IF rowLock = r THEN NoRequest ELSE rowLock
  /\ UNCHANGED <<matchRow, turn, innings, clocks, tournament, field, credits,
                 queued, sweepers>>

\* Mutant of Declinable: a match already being played can be declined too.
DeclinableInPlay == Open

Declinable == status = "confirmed"

\* POST /matches/:id/decline while nobody has batted in the match.  The other
\* player's requeue runs before the COMMIT, still sees the match open and
\* refuses, so the queue does not move.
Decline(s) ==
  /\ s # Bot
  /\ RowFree
  /\ Declinable
  /\ status' = "cancelled"
  /\ quiet' = 0
  /\ UNCHANGED <<half, verdict, turn, rowLock, innings, clocks, tournament,
                 field, credits, queued, requests, sweepers>>

----------------------------------------------------------------------------
(* The worker's sweeps.                                                    *)

\* Mutant of Deferred: no allowance for a resolution in flight.
DeferredIfSettled == Complete(half) /\ verdict # NoVerdict

\* The open matches settleOpenMatches leaves alone: already settled, or complete
\* so recently that a resolution may still be in flight.
Deferred == Complete(half) /\ (verdict # NoVerdict \/ quiet = 0)

Ended(h, v) ==
  /\ status' = IF v = NoVerdict THEN "expired" ELSE "completed"
  /\ half' = IF v = NoVerdict THEN half ELSE h
  /\ verdict' = IF v = NoVerdict THEN verdict ELSE v
  /\ quiet' = 0
  /\ CreditStandings(v)

SweepVerdict(h) == IF Complete(h) THEN Outcome(h) ELSE Walkover(h)

SettleOpenMatch ==
  IF Open /\ ~Deferred
  THEN Ended(half, SweepVerdict(half))
  ELSE UNCHANGED <<matchRow, wins, losses>>

Active == {s \in Sides : standing[s] = "active"}

\* The standings order of close-round; registration order breaks ties.
RanksAbove(s, t) == wins'[s] > wins'[t] \/ (wins'[s] = wins'[t] /\ losses'[s] <= losses'[t])

\* The cut closeRound makes, as it falls on these two: keep some for the next
\* round, start the bracket, or finish a tournament with nobody left to play.
Cut ==
  \/ \E kept \in SUBSET Active :
       /\ \A s \in kept, t \in Active \ kept : RanksAbove(s, t)
       /\ standing' = [s \in Sides |-> IF s \in Active \ kept THEN "out" ELSE standing[s]]
       /\ round' = [s \in Sides |-> IF s \in kept THEN 2 ELSE round[s]]
       /\ dropped' = Active \ kept
       /\ UNCHANGED tourOver
  \/ /\ standing' = [s \in Sides |-> IF s \in Active THEN "knockout" ELSE standing[s]]
     /\ dropped' = Active
     /\ UNCHANGED <<round, tourOver>>
  \/ /\ Cardinality(Active) < 2
     /\ standing' = [s \in Sides |-> "out"]
     /\ dropped' = Active
     /\ tourOver' = TRUE
     /\ UNCHANGED round

\* close-round, in one transaction that waits for the row lock.
CloseRound ==
  /\ "close" \in Sweeps
  /\ roundOpen /\ roundOver
  /\ RowFree
  /\ roundOpen' = FALSE
  /\ SettleOpenMatch
  /\ Cut
  /\ UNCHANGED <<turn, rowLock, innings, clocks, rated, queued, requests, row>>

\* syncQueueAfterClose, after the commit.
SyncQueue ==
  /\ dropped # {}
  /\ queued' = queued \ dropped
  /\ dropped' = {}
  /\ UNCHANGED <<matchRow, turn, rowLock, innings, clocks, tournament, field,
                 credits, requests, row>>

\* Mutant of UnplayedDue: a complete scoreline is never looked at again.
UnplayedIncomplete == ~Complete(half)

UnplayedDue == ~Complete(half) \/ quiet = 2

\* expire-unplayed-slots reads its candidates without locking them ...
UnplayedScan ==
  /\ "unplayed" \in Sweeps
  /\ ~row["unplayed"].seen
  /\ Open /\ slotOver
  /\ UnplayedDue
  /\ row' = [row EXCEPT !["unplayed"] = [seen |-> TRUE, half |-> half]]
  /\ UNCHANGED <<matchRow, turn, rowLock, innings, clocks, tournament, field,
                 credits, queued, requests, dropped>>

\* ... and decides each from the row it read, by id alone.
UnplayedSettle ==
  LET h == row["unplayed"].half IN
  /\ row["unplayed"].seen
  /\ RowFree
  /\ Ended(h, SweepVerdict(h))
  /\ row' = [row EXCEPT !["unplayed"] = NoRow]
  /\ UNCHANGED <<turn, rowLock, innings, clocks, tournament, field, rated,
                 queued, requests, dropped>>

\* The end date: the lifecycle job expires whatever is open and retires everyone.
EndDate ==
  /\ "lifecycle" \in Sweeps
  /\ ~tourOver
  /\ RowFree
  /\ status' = IF Open THEN "expired" ELSE status
  /\ quiet' = IF Open THEN 0 ELSE quiet
  /\ roundOpen' = FALSE /\ tourOver' = TRUE
  /\ standing' = [s \in Sides |-> "out"]
  /\ UNCHANGED <<half, verdict, turn, rowLock, innings, clocks, round, credits,
                 queued, requests, sweepers>>

\* releaseMatchesFromCompletedTournaments: scanned without a lock, decided by id,
\* with no allowance for a resolution in flight.
ReleaseScan ==
  /\ "lifecycle" \in Sweeps
  /\ ~row["lifecycle"].seen
  /\ tourOver /\ Open
  /\ row' = [row EXCEPT !["lifecycle"] = [seen |-> TRUE, half |-> half]]
  /\ UNCHANGED <<matchRow, turn, rowLock, innings, clocks, tournament, field,
                 credits, queued, requests, dropped>>

ReleaseSettle ==
  LET h == row["lifecycle"].half IN
  /\ row["lifecycle"].seen
  /\ RowFree
  /\ Ended(h, IF Complete(h) THEN Outcome(h) ELSE NoVerdict)
  /\ row' = [row EXCEPT !["lifecycle"] = NoRow]
  /\ UNCHANGED <<turn, rowLock, innings, clocks, tournament, field, rated,
                 queued, requests, dropped>>

----------------------------------------------------------------------------
(* Time.                                                                   *)

RoundDeadline ==
  /\ ~roundOver
  /\ roundOver' = TRUE
  /\ UNCHANGED <<matchRow, turn, rowLock, innings, slotOver, tournament, field,
                 credits, queued, requests, sweepers>>

SlotDeadline ==
  /\ ~slotOver
  /\ slotOver' = TRUE
  /\ UNCHANGED <<matchRow, turn, rowLock, innings, roundOver, tournament, field,
                 credits, queued, requests, sweepers>>

\* Ten minutes since the turn was granted.
HoldLapses ==
  /\ holder # 0 /\ ~lapsed
  /\ lapsed' = TRUE
  /\ UNCHANGED <<matchRow, holder, rowLock, innings, clocks, tournament, field,
                 credits, queued, requests, sweepers>>

\* Two, then five minutes without a write to the row.
Age ==
  /\ quiet < 2
  /\ PromptHandlers => \A r \in Requests : pc[r] # "resolving"
  /\ quiet' = quiet + 1
  /\ UNCHANGED <<status, half, verdict, turn, rowLock, innings, clocks,
                 tournament, field, credits, queued, requests, sweepers>>

----------------------------------------------------------------------------
Handler(r) ==
  \/ SubmitCommit(r)
  \/ BotBats(r) \/ BotHasBatted(r)
  \/ PollReads(r) \/ ClaimTurn(r) \/ ClaimRefused(r)
  \/ ResolveTie(r) \/ ResolveWin(r) \/ Requeue(r)

Arrive(r) ==
  \E s \in Sides :
    \/ \E x \in Score : SubmitBegin(r, s, x)
    \/ PollFindsBot(r, s) \/ PollFindsNoBot(r, s)

Worker ==
  \/ CloseRound \/ SyncQueue
  \/ UnplayedScan \/ UnplayedSettle
  \/ EndDate \/ ReleaseScan \/ ReleaseSettle

Clock == RoundDeadline \/ SlotDeadline \/ HoldLapses \/ Age

Next ==
  \/ \E r \in Requests : Arrive(r) \/ Handler(r) \/ Crash(r)
  \/ \E s \in Sides : Decline(s)
  \/ Worker
  \/ Clock

Spec == Init /\ [][Next]_vars

\* The sweep runs every minute, deadlines pass, and a handler that does not
\* crash goes on to its next step.
FairSpec ==
  /\ Spec
  /\ WF_vars(SlotDeadline) /\ WF_vars(Age)
  /\ WF_vars(UnplayedScan) /\ WF_vars(UnplayedSettle)
  /\ \A r \in Requests : WF_vars(Handler(r))

----------------------------------------------------------------------------
(* Properties of every interleaving.                                       *)

\* Whatever the order of polls, submissions and sweeps, a half of the stored
\* scoreline is empty or is the innings that side really played: stale copies
\* of the row written back by a sweep or a poll may lose a half, never forge one
\* (meta.service.ts playPendingBotInnings and submitScore, the sweeps).
ScorelineTruthful == \A s \in Sides : half[s] \in {NoScore, innings[s]}

Follows(h, v) ==
  /\ v \in Sides => h[v] # NoScore /\ h[v] > h[Other(v)]
  /\ v = Tie => Complete(h) /\ h[1] = h[2]

\* A stored verdict is what the stored scoreline says: the winner is the higher
\* innings or the only one, a tie is level (match-resolution.ts as the handler
\* and the three sweeps apply it).
VerdictFollowsScore == Follows(half, verdict)

\* An innings, once on record, is never replaced: not by a second submission,
\* nor by two polls that both want to bat for the bot (match_innings' primary key
\* and the claim in playPendingBotInnings).
InningsFixed ==
  [][\A s \in Sides : innings[s] # NoScore => innings'[s] = innings[s]]_innings

\* The first innings of a match is never recorded for a person while the opponent
\* holds a turn that has not lapsed, although the turn is read long before the
\* innings is written (the turn lock of submitScore and claimTurn).
TurnRespected ==
  [][\A s \in Sides \ {Bot} :
       innings = Empty /\ innings'[s] # NoScore => ~HeldAgainst(s)]_innings

----------------------------------------------------------------------------
(* Properties of a match between two people whose round is closed by the    *)
(* sweep that locks the row.                                               *)

\* The match counts once: one win, one loss and one rating change each, for the
\* verdict on record and only when it is completed, whichever of the submission
\* and the sweep decides it and whatever crashes in between.
CountedOnce ==
  /\ \A s \in Sides :
       /\ wins[s] = IF status = "completed" /\ verdict = s THEN 1 ELSE 0
       /\ losses[s] = IF status = "completed" /\ verdict = Other(s) THEN 1 ELSE 0
       /\ rated[s] <= 1
  /\ rated[1] = rated[2]

\* Two innings on record are a result: a played match is never expired or
\* declined away, only completed, or cancelled as a tie.
PlayedMatchStands ==
  Complete(innings) /\ ~Open =>
    status = "completed" \/ (status = "cancelled" /\ verdict = Tie)

\* Nobody waits in the queue while this match is still theirs to play, and a
\* loser does not wait in it at all (requeuePlayer's hasActiveMatch check and
\* applyMatchWinner's removeFromQueue, both after the commit).
QueuedMayPlay ==
  queued # {} => ~Open /\ \A s \in queued : standing[s] # "eliminated"

\* What the match promises its players, whatever decides it.
Contract == INSTANCE MatchContract WITH
  decision <- IF Open THEN "open"
              ELSE IF verdict = Tie THEN "tied"
              ELSE IF verdict \in Sides THEN "won" ELSE "void",
  winner <- IF ~Open /\ verdict \in Sides THEN verdict ELSE 0

\* Polls, submissions, crashes and the closing round together implement the
\* contract: each innings written once, one decision, credited as it is taken.
ImplementsContract == Contract!Spec

\* A match does not stay open for good: however its requests fail, the slot sweep
\* ends it (expire-unplayed-slots, including the complete scorelines that nothing
\* resolved).
MatchEnds == Open ~> ~Open

----------------------------------------------------------------------------
(* The inductive invariants behind the first four properties.              *)

\* What a submission found under the row lock is still so when it writes.
SubmitInv ==
  \A r \in Requests : pc[r] = "submitting" =>
    /\ rowLock = r
    /\ Open
    /\ side[r] # Bot
    /\ score[r] \in Score
    /\ innings[side[r]] = NoScore
    /\ innings[Other(side[r])] # NoScore \/ ~HeldAgainst(side[r])

\* A copy of the scoreline, on the row or in somebody's hands, may have gaps but
\* nothing that was not played.
Truthful(h) == \A s \in Sides : h[s] \in {NoScore, innings[s]}

CopiesInv ==
  /\ Truthful(half)
  /\ \A r \in Requests : Truthful(carried[r])
  /\ \A k \in {"unplayed", "lifecycle"} : Truthful(row[k].half)

\* The verdict on the row follows from its scoreline, and an open row has none.
RowInv == VerdictFollowsScore /\ (Open => verdict = NoVerdict)

\* Who bats for the bot is the person it plays; what is resolved is complete.
InHand(r) ==
  /\ pc[r] = "batting" => Bot \in Sides /\ side[r] = Other(Bot)
  /\ pc[r] = "resolving" => Complete(carried[r])

----------------------------------------------------------------------------
(* Statements of the documentation that the code does not keep.            *)

\* HANDOVER.md, "score submission with no double-counting".
NoDoubleCounting == \A s \in Sides : wins[s] + losses[s] <= 1 /\ rated[s] <= 1

\* META_INTEGRATION_API.md, "Bat first - nothing on the board yet": the turn that
\* makes a poll answer "bat first" is granted on an empty board.
BatFirstOnEmptyBoard ==
  [][holder' # holder /\ holder' # 0 => innings = Empty]_holder

\* HANDOVER.md's `out`: a player the closing round has put out stays out.
OutStaysOut == [][\A s \in Sides : standing[s] = "out" => standing'[s] = "out"]_standing
=============================================================================
