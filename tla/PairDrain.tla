----------------------------- MODULE PairDrain -----------------------------
(***************************************************************************)
(* One pass of pair-players over the queue of one cup, again and again.    *)
(* MatchQueue leaves open which two players a pass chooses and when it     *)
(* turns to the bot; here is how it decides.  A pass tries the best pair,  *)
(* sets it aside if it cannot be matched, and goes on until no pair is     *)
(* left or it has done enough; then it gives the leftovers a bot, if their *)
(* round is nearly over.  The sweep every two seconds only visits the cups *)
(* in an index, which players enter by joining and which is cleared, in    *)
(* two calls, by whoever leaves the queue empty.                           *)
(*                                                                         *)
(* All entries are for the one open round.  Of the time a player waits     *)
(* only its marks matter: ten seconds, thirty seconds and five minutes.    *)
(***************************************************************************)
EXTENDS Integers, FiniteSets, FiniteSetsExt

CONSTANTS
  Users,
  Tier,         \* the skill tier of each
  Doomed,       \* pairs nothing can be scheduled for: no window, no free slot
  MaxAttempts,  \* 500: pairs a pass tries
  MaxPaired,    \* 50: matches a pass makes
  Stale         \* bound: who may be queued while in a match

ASSUME DrainAssumption ==
  /\ Tier \in [Users -> Nat]
  /\ Doomed \subseteq SUBSET Users
  /\ Stale \subseteq Users
  /\ MaxAttempts \in Nat /\ MaxPaired \in Nat

VARIABLES
  waiting,   \* queue:tournament:<cup>
  mark,      \* the last mark each one's wait has passed
  busy,      \* who of them is in an open match all the same
  indexed,   \* the cup is in queue:tournament:ids
  leaving,   \* a removal has counted nobody left, and is about to clear the index
  late,      \* the round, or the play windows in it, close within fifteen minutes
  stage,     \* where the pass is
  pair,      \* whom it is trying
  excluded,  \* the pairs it has set aside
  paired,    \* the matches it has made
  left       \* leftovers due a bot that it has yet to come to

queue == <<waiting, mark, busy, indexed, leaving, late>>
pass == <<stage, pair, excluded, paired, left>>
vars == <<waiting, mark, busy, indexed, leaving, late,
          stage, pair, excluded, paired, left>>

Marks == 0..3    \* none, ten seconds, thirty seconds, five minutes
Pairs == kSubset(2, Users)

TypeOK ==
  /\ waiting \subseteq Users /\ busy \subseteq waiting
  /\ mark \in [Users -> Marks]
  /\ indexed \in BOOLEAN /\ leaving \in BOOLEAN /\ late \in BOOLEAN
  /\ stage \in {"idle", "pairing", "trying", "drop", "leftovers"}
  /\ pair \in Pairs \cup {{}}
  /\ left \subseteq Users
  /\ excluded \subseteq Pairs
  /\ paired \in 0..MaxPaired

Init ==
  /\ waiting = {} /\ busy = {}
  /\ mark = [u \in Users |-> 0]
  /\ indexed = FALSE /\ leaving = FALSE /\ late = FALSE
  /\ stage = "idle"
  /\ pair = {} /\ excluded = {} /\ left = {}
  /\ paired = 0

----------------------------------------------------------------------------
(* The queue.                                                              *)

Out(S) ==
  /\ waiting' = waiting \ S
  /\ left' = left \ S
  /\ busy' = busy \ S
  /\ mark' = [u \in Users |-> IF u \in S THEN 0 ELSE mark[u]]

\* join, requeuePlayer and the enroller looked for an open match some calls ago, and
\* may by now queue someone who is in one.
Enters(u, stale) ==
  /\ u \notin waiting /\ (stale => u \in Stale)
  /\ waiting' = waiting \cup {u}
  /\ busy' = IF stale THEN busy \cup {u} ELSE busy
  /\ indexed' = TRUE
  /\ UNCHANGED <<mark, leaving, late, pass>>

\* removeFromQueue: the MULTI and the count after it, and then the index.
Leaves(u) ==
  /\ u \in waiting /\ ~leaving
  /\ Out({u})
  /\ leaving' = (waiting = {u})
  /\ UNCHANGED <<indexed, late, stage, pair, excluded, paired>>

LeaverDrops ==
  /\ leaving
  /\ leaving' = FALSE
  /\ indexed' = FALSE
  /\ UNCHANGED <<waiting, mark, busy, late, pass>>

MatchEnds(u) ==
  /\ u \in busy
  /\ busy' = busy \ {u}
  /\ UNCHANGED <<waiting, mark, indexed, leaving, late, pass>>

TimePasses(u) ==
  /\ u \in waiting /\ mark[u] < 3
  /\ mark' = [mark EXCEPT ![u] = @ + 1]
  /\ UNCHANGED <<waiting, busy, indexed, leaving, late, pass>>

GetsLate ==
  /\ ~late /\ late' = TRUE
  /\ UNCHANGED <<waiting, mark, busy, indexed, leaving, pass>>

----------------------------------------------------------------------------
(* Who may play whom.                                                      *)

Distance(P) == Max({Tier[u] : u \in P}) - Min({Tier[u] : u \in P})

\* scorePair: the longer wait of the two decides; at first only the closest two
\* tiers in the round may play.
Tolerated(P, among) ==
  LET waited == Max({mark[u] : u \in P}) IN
  CASE waited = 0 -> \A Q \in kSubset(2, among) : Distance(P) <= Distance(Q)
    [] waited = 1 -> Distance(P) <= 1
    [] OTHER -> TRUE

\* findBestPair: its ranking is left open.
Candidates == {P \in kSubset(2, waiting) : P \notin excluded /\ Tolerated(P, waiting)}

\* Every attempt has made a match or set a pair aside.
Attempts == Cardinality(excluded) + paired

----------------------------------------------------------------------------
(* A pass.                                                                 *)

Reset ==
  /\ pair' = {} /\ excluded' = {} /\ left' = {}
  /\ paired' = 0

\* The sweep comes to the cup; or a pair-now job, which join and requeuePlayer add
\* and the enroller does not, and which is lost if it finds a pass under way.
PassBegins(bySweep) ==
  /\ stage = "idle"
  /\ bySweep => indexed
  /\ stage' = "pairing"
  /\ Reset
  /\ UNCHANGED <<waiting, mark, busy, indexed, leaving, late>>

MayTry == stage = "pairing" /\ Attempts < MaxAttempts /\ paired < MaxPaired

Tries(P) ==
  /\ MayTry
  /\ P \in Candidates
  /\ pair' = P
  /\ stage' = "trying"
  /\ UNCHANGED <<queue, excluded, paired, left>>

\* Mutant of BotFallbackIsDue: a late arrival gets the bot too.
DueAtOnce(u) == late

\* Mutant of BotFallbackIsDue: the bot is for the odd one out.
DueAlone(u) == mark[u] = 3 /\ late /\ waiting = {u}

BotFallbackIsDue(u) == mark[u] = 3 /\ late

\* Nothing is left to try, or enough has been done: pairLeftoversWithBot reads who
\* is still there, and judges them all by one clock, read a moment after the last
\* pair was looked for.
Drained ==
  /\ stage = "pairing"
  /\ MayTry => Candidates = {}
  /\ left' = {u \in waiting : BotFallbackIsDue(u)}
  /\ excluded' = {} /\ paired' = 0
  /\ stage' = "leftovers"
  /\ UNCHANGED <<queue, pair>>

\* Mutant of SetAside: the pass forgets what it has tried.
Forgotten == UNCHANGED excluded

SetAside == excluded' = excluded \cup {pair}

\* cleanupTournamentIndex, after S were taken out: the count, and then the index.
Counts(S) == stage' = IF waiting \ S = {} THEN "drop" ELSE "pairing"

\* A match is made.  Whether either has since left the queue is not asked.
Matched ==
  /\ stage = "trying"
  /\ pair \cap busy = {} /\ pair \notin Doomed
  /\ Out(pair)
  /\ paired' = paired + 1
  /\ pair' = {}
  /\ Counts(pair)
  /\ UNCHANGED <<indexed, leaving, late, excluded>>

\* Who is in a match already is taken out of the queue.
DropsStale ==
  /\ stage = "trying"
  /\ pair \cap busy # {}
  /\ Out(pair \cap busy)
  /\ SetAside
  /\ pair' = {}
  /\ Counts(pair \cap busy)
  /\ UNCHANGED <<indexed, leaving, late, paired>>

\* Nothing can be scheduled for the two, or the transaction fails, perhaps after
\* both were taken out of the queue.
Skips ==
  /\ stage = "trying"
  /\ \/ Out({})
     \/ pair \notin Doomed /\ Out(pair)
  /\ SetAside
  /\ pair' = {}
  /\ stage' = "pairing"
  /\ UNCHANGED <<indexed, leaving, late, paired>>

Drops ==
  /\ stage = "drop"
  /\ indexed' = FALSE
  /\ stage' = "pairing"
  /\ UNCHANGED <<waiting, mark, busy, leaving, late, pair, excluded, paired, left>>

\* pairLeftoversWithBot, one player at a time.
GetsBot(u) ==
  /\ stage = "leftovers" /\ u \in left \ busy
  /\ Out({u})
  /\ UNCHANGED <<indexed, leaving, late, stage, pair, excluded, paired>>

\* In a match already, or the transaction failed.
PassedOver(u) ==
  /\ stage = "leftovers" /\ u \in left
  /\ left' = left \ {u}
  /\ UNCHANGED <<queue, stage, pair, excluded, paired>>

PassEnds ==
  /\ stage = "leftovers" /\ left = {}
  /\ stage' = "idle"
  /\ Reset
  /\ UNCHANGED queue

\* The worker dies, or Redis fails between two attempts; the lock lapses.
PassDies ==
  /\ stage # "idle" /\ (stage = "leftovers" => left # {})
  /\ stage' = "idle"
  /\ Reset
  /\ UNCHANGED queue

----------------------------------------------------------------------------
Pass ==
  \/ PassBegins(TRUE)
  \/ \E P \in Pairs : Tries(P)
  \/ Drained \/ Matched \/ DropsStale \/ Skips \/ Drops
  \/ \E u \in Users : GetsBot(u) \/ PassedOver(u)
  \/ PassEnds \/ PassDies

Queue ==
  \/ \E u \in Users :
       \/ \E stale \in BOOLEAN : Enters(u, stale)
       \/ Leaves(u) \/ MatchEnds(u) \/ TimePasses(u)
  \/ LeaverDrops \/ GetsLate

Next == Pass \/ PassBegins(FALSE) \/ Queue

Spec == Init /\ [][Next]_vars

\* What may go wrong with a pass and does not do so for ever.
Mishap ==
  \/ PassDies
  \/ Skips /\ (pair \cap busy # {} \/ pair \notin Doomed)
  \/ \E u \in Users : PassedOver(u) /\ u \notin busy

\* The sweep runs every two seconds, a pass goes on, and time passes for whoever
\* waits.  Nothing says that the round gets late, or that anybody leaves.
Fairness ==
  /\ WF_vars(Pass)
  /\ WF_vars(LeaverDrops)
  /\ \A u \in Users : WF_vars(TimePasses(u))
  /\ <>[][~Mishap]_vars

FairSpec == Spec /\ Fairness

----------------------------------------------------------------------------
(* Properties.                                                             *)

\* Nobody is due a bot while somebody waits whom the pass could have given them: when
\* it turns to the leftovers, everyone else there has been tried with each of them and
\* failed, whatever their tiers and however short the others' wait (drainQueue: "every
\* pair a real opponent could have made already made") - unless it had done enough.
BotsAreForLeftovers ==
  [][stage = "pairing" /\ stage' = "leftovers" /\ MayTry =>
       \A u \in left' : \A v \in waiting \ {u} : {u, v} \in excluded]_vars

\* Two players for whom a match can be scheduled do not wait beside each other for
\* ever, whatever other pairs the pass cannot match (drainQueue, pairKey), unless the
\* sweep no longer visits their cup.
WaitersMeet ==
  \A P \in Pairs \ Doomed : P \subseteq waiting ~> ~(P \subseteq waiting) \/ ~indexed

\* Once the round is nearly over nobody who is free waits for ever, with the same
\* exception.
NobodyLeftWaiting ==
  \A u \in Users :
    late /\ u \in waiting \ busy ~> u \notin waiting \ busy \/ ~indexed
=============================================================================
