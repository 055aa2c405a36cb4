---------------------------- MODULE MatchQueue ----------------------------
(***************************************************************************)
(* The matchmaking queue and the matches it makes.  The queue is in Redis  *)
(* (a sorted set per pool, one set of members and one hash per player),    *)
(* the matches, participants and rounds are in Postgres, and no            *)
(* transaction spans both: a step is one Redis MULTI, one SQL transaction, *)
(* or the reads made before one.  API requests queue and remove players,   *)
(* the enroller queues whoever may play, the pairing job takes two out and *)
(* makes their match, close-round moves the field on or starts the         *)
(* bracket, and jobs of the worker clear out dead entries.                 *)
(*                                                                         *)
(* There is one tournament, the cup, with its pool, and the pool of casual *)
(* matches.  Participants outside Users may be paired with them or drawn   *)
(* against them; they are not followed.  What a match is like once it is   *)
(* open is in MatchPlay.                                                   *)
(***************************************************************************)
EXTENDS Naturals, FiniteSets

CONSTANTS
  Users,       \* players
  Matches,     \* identities of the matches that can be open together
  Requests,    \* API requests, and removals of the worker, in flight
  Drains,      \* pairing jobs that can run at the same time
  Nobody,      \* the pairing lock is free, a request is for nobody
  MaxRound,    \* bound: the last round of the cup that closes; 0 if none does
  Pools,       \* bound: the pools players join
  PromptDrain  \* no drain outlives the four seconds of its lock

Pool == {"casual", "cup"}

ASSUME QueueAssumption ==
  /\ Nobody \notin Drains \cup Users
  /\ MaxRound \in Nat
  /\ Pools \subseteq Pool
  /\ PromptDrain \in BOOLEAN

VARIABLES
  waiting, member, entry,  \* queue:<pool>, queue:member, queue:player:<user>
  players, kind,           \* of the open matches; none for one that is over
  standing, round,         \* tournament_participants: status, round_number
  current, open,           \* the cup's normal round, and whether it is active
  advancing,               \* whose entry close-round has yet to bring in line
  lock,                    \* holder of the pairing lock
  drain, deal,             \* where each pairing job is, and with whom
  request, user, carried,  \* where each request is, for whom, with what entry
  enroll, enrollRound      \* where the enroller is with each player

redis == <<waiting, member, entry>>
rows == <<players, kind>>
field == <<standing, round>>
cup == <<current, open, advancing>>
pairing == <<lock, drain, deal>>
requests == <<request, user, carried>>
enroller == <<enroll, enrollRound>>
vars == <<waiting, member, entry, players, kind, standing, round, current, open,
          advancing, lock, drain, deal, request, user, carried, enroll, enrollRound>>

NoEntry == [pool |-> "none", round |-> 0]
Entry == [pool : Pool, round : Nat] \cup {NoEntry}
NoDeal(q) == [pool |-> q, players |-> {}, round |-> 0]

Open(m) == players[m] # {}

Busy(u) == \E m \in Matches : u \in players[m]

InCurrentRound(u) == standing[u] = "active" /\ open /\ round[u] = current

\* The round an entry is for; without a hash the pairing job reads round 1.
RoundOf(u) == IF entry[u] = NoEntry THEN 1 ELSE entry[u].round

TypeOK ==
  /\ waiting \in [Pool -> SUBSET Users]
  /\ member \subseteq Users
  /\ entry \in [Users -> Entry]
  /\ players \in [Matches -> SUBSET Users]
  /\ kind \in [Matches -> {"casual", "cup", "bracket"}]
  /\ standing \in [Users -> {"active", "eliminated", "knockout", "out"}]
  /\ round \in [Users -> Nat]
  /\ current \in Nat /\ open \in BOOLEAN
  /\ advancing \subseteq Users
  /\ lock \in Drains \cup {Nobody}
  /\ drain \in [Drains -> {"idle", "draining", "chosen", "clear", "taken"}]
  /\ deal \in [Drains -> [pool : Pool, players : SUBSET Users, round : Nat]]
  /\ request \in [Requests -> {"idle", "adding", "leaving", "dropping"}]
  /\ user \in [Requests -> Users \cup {Nobody}]
  /\ carried \in [Requests -> Entry]
  /\ enroll \in [Users -> {"idle", "candidate", "adding"}]
  /\ enrollRound \in [Users -> Nat]

Init ==
  /\ waiting = [q \in Pool |-> {}] /\ member = {}
  /\ entry = [u \in Users |-> NoEntry]
  /\ players = [m \in Matches |-> {}]
  /\ kind = [m \in Matches |-> "casual"]
  /\ standing = [u \in Users |-> "active"]
  /\ round = [u \in Users |-> 1]
  /\ current = 1 /\ open = TRUE
  /\ advancing = {}
  /\ lock = Nobody
  /\ drain = [w \in Drains |-> "idle"]
  /\ deal = [w \in Drains |-> NoDeal("casual")]
  /\ request = [r \in Requests |-> "idle"]
  /\ user = [r \in Requests |-> Nobody]
  /\ carried = [r \in Requests |-> NoEntry]
  /\ enroll = [u \in Users |-> "idle"]
  /\ enrollRound = [u \in Users |-> 0]

----------------------------------------------------------------------------
(* The MULTIs that write the queue.                                        *)

\* zadd, sadd and hset of one player.
Queue(u, q, n) ==
  /\ waiting' = [waiting EXCEPT ![q] = @ \cup {u}]
  /\ member' = member \cup {u}
  /\ entry' = [entry EXCEPT ![u] = [pool |-> q, round |-> n]]

\* Mutant of Unqueue: without its srem.
UnqueueNoSrem(S, Q) ==
  /\ waiting' = [q \in Pool |-> IF q \in Q THEN waiting[q] \ S ELSE waiting[q]]
  /\ member' = member
  /\ entry' = [u \in Users |-> IF u \in S THEN NoEntry ELSE entry[u]]

\* zrem from the given pools, srem and del.
Unqueue(S, Q) ==
  /\ waiting' = [q \in Pool |-> IF q \in Q THEN waiting[q] \ S ELSE waiting[q]]
  /\ member' = member \ S
  /\ entry' = [u \in Users |-> IF u \in S THEN NoEntry ELSE entry[u]]

----------------------------------------------------------------------------
(* API requests, and the removals of the worker's jobs.                    *)

Start(r, u, at, e) ==
  /\ request[r] = "idle"
  /\ request' = [request EXCEPT ![r] = at]
  /\ user' = [user EXCEPT ![r] = u]
  /\ carried' = [carried EXCEPT ![r] = e]
  /\ UNCHANGED <<redis, rows, field, cup, pairing, enroller>>

\* Returns, or dies on the way: its locals go out of scope.
Finish(r) ==
  /\ request' = [request EXCEPT ![r] = "idle"]
  /\ user' = [user EXCEPT ![r] = Nobody]
  /\ carried' = [carried EXCEPT ![r] = NoEntry]
  /\ UNCHANGED <<rows, field, cup, pairing, enroller>>

\* Mutant of EntryFor: the hash is built without its tournament.
EntryForNobody(u, q) == [pool |-> "none", round |-> round[u]]

EntryFor(u, q) == [pool |-> q, round |-> IF q = "cup" THEN round[u] ELSE 1]

\* MatchmakingService.join, up to its MULTI.
JoinBegins(r, u, q) ==
  /\ u \notin member /\ ~Busy(u)
  /\ q = "cup" => InCurrentRound(u)
  /\ Start(r, u, "adding", EntryFor(u, q))

\* requeuePlayer, up to its MULTI.  The entry to a round, a result, a decline, a
\* withdrawal, a buyback or an administrator calls it, and it asks for no round.
RequeueBegins(r, u, q) ==
  /\ u \notin member /\ ~Busy(u)
  /\ Start(r, u, "adding", EntryFor(u, q))

\* leave, and the API's removeFromQueue, read the hash to learn the pool.
LeaveBegins(r, u) == Start(r, u, "leaving", entry[u])

\* The worker's removeFromQueue: for whoever the round's close does not carry on,
\* for a member who may not be paired or has no hash (reconcile-queue), and for one
\* whose play window has passed (expire-unplayed-slots).
DropBegins(r, u) ==
  /\ \/ standing[u] # "active"
     \/ u \in member /\ entry[u] = NoEntry
     \/ entry[u].pool = "cup"
  /\ Start(r, u, "dropping", entry[u])

Added(r) ==
  /\ request[r] = "adding"
  /\ Queue(user[r], carried[r].pool, carried[r].round)
  /\ Finish(r)

\* No hash, or no tournament in it, means the casual pool.
PoolOf(e) == {IF e = NoEntry THEN "casual" ELSE e.pool}

Left(r) ==
  /\ request[r] = "leaving"
  /\ Unqueue({user[r]}, PoolOf(carried[r]))
  /\ Finish(r)

\* The worker's copy clears the casual pool as well.
Dropped(r) ==
  /\ request[r] = "dropping"
  /\ Unqueue({user[r]}, PoolOf(carried[r]) \cup {"casual"})
  /\ Finish(r)

Dies(r) ==
  /\ request[r] # "idle"
  /\ Finish(r)
  /\ UNCHANGED redis

----------------------------------------------------------------------------
(* enroll-participants, one player at a time.                              *)

EnrollStep(u, at, n) ==
  /\ enroll' = [enroll EXCEPT ![u] = at]
  /\ enrollRound' = [enrollRound EXCEPT ![u] = n]
  /\ UNCHANGED <<rows, field, cup, pairing, requests>>

\* Mutant of Candidate: players are enrolled when the cup goes live, and then no more.
FirstRoundCandidate(u) == InCurrentRound(u) /\ ~Busy(u) /\ round[u] = 1

Candidate(u) == InCurrentRound(u) /\ ~Busy(u)

\* The candidates are read in one query ...
EnrollReads(u) ==
  /\ "cup" \in Pools
  /\ enroll[u] = "idle"
  /\ Candidate(u)
  /\ EnrollStep(u, "candidate", round[u])
  /\ UNCHANGED redis

\* ... each is then looked up among the members ...
EnrollChecks(u) ==
  /\ enroll[u] = "candidate"
  /\ IF u \in member THEN EnrollStep(u, "idle", 0)
                      ELSE EnrollStep(u, "adding", enrollRound[u])
  /\ UNCHANGED redis

\* ... and, once a play window has been looked for, queued.
EnrollAdds(u) ==
  /\ enroll[u] = "adding"
  /\ Queue(u, "cup", enrollRound[u])
  /\ EnrollStep(u, "idle", 0)

----------------------------------------------------------------------------
(* pair-players.                                                           *)

DrainStep(w, at, d) ==
  /\ drain' = [drain EXCEPT ![w] = at]
  /\ deal' = [deal EXCEPT ![w] = d]
  /\ UNCHANGED <<field, cup, requests, enroller>>

Paired(P) == Cardinality(P) = 2

\* acquireLock.  The job is for one pool, or for the casual one and then the cup's.
Acquire(w, q) ==
  /\ drain[w] = "idle" /\ lock = Nobody
  /\ lock' = w
  /\ DrainStep(w, "draining", NoDeal(q))
  /\ UNCHANGED <<redis, rows>>

\* findBestPair takes two of the pool whose entries are for the same round.  Its
\* ranking, how far apart the two may be, and that a pair that failed is passed over
\* for the rest of the drain are left open.
Choose(w, P) ==
  /\ drain[w] = "draining"
  /\ P \subseteq waiting[deal[w].pool] /\ Paired(P)
  /\ \A u, v \in P : RoundOf(u) = RoundOf(v)
  /\ \E u \in P : DrainStep(w, "chosen", [deal[w] EXCEPT !.players = P, !.round = RoundOf(u)])
  /\ UNCHANGED <<redis, rows, lock>>

\* pairLeftoversWithBot, for whoever waits in the cup's pool and has a hash.  That
\* the round is nearly over, and nobody else left, is left open.
ChooseLeftover(w, u) ==
  /\ drain[w] = "draining" /\ deal[w].pool = "cup"
  /\ u \in waiting["cup"] /\ entry[u] # NoEntry
  /\ DrainStep(w, "chosen", [deal[w] EXCEPT !.players = {u}, !.round = entry[u].round])
  /\ UNCHANGED <<redis, rows, lock>>

\* Mutant of InTheWay: the guard only knows the casual matches.
InTheWayCasually(P) == {u \in P : \E m \in Matches : kind[m] = "casual" /\ u \in players[m]}

InTheWay(P) == {u \in P : Busy(u)}

\* Nobody of the pair plays, and a match of the cup has an open round to belong to.
Playable(d) ==
  /\ InTheWay(d.players) = {}
  /\ d.pool = "cup" => open /\ d.round = current

\* BEGIN, and the reads of the transaction.
Check(w) ==
  /\ drain[w] = "chosen"
  /\ Playable(deal[w])
  /\ DrainStep(w, "clear", deal[w])
  /\ UNCHANGED <<redis, rows, lock>>

\* Not playable, or the transaction fails, also after the queue was written.
Fails(w) ==
  /\ drain[w] \in {"chosen", "clear", "taken"}
  /\ DrainStep(w, "draining", NoDeal(deal[w].pool))
  /\ UNCHANGED <<redis, rows, lock>>

\* One of a pair plays already: that entry is stale, and dropped.
DropsStale(w) ==
  LET d == deal[w] IN
  /\ drain[w] = "chosen"
  /\ Paired(d.players) /\ InTheWay(d.players) # {}
  /\ Unqueue(InTheWay(d.players), {d.pool, "casual"})
  /\ DrainStep(w, "draining", NoDeal(d.pool))
  /\ UNCHANGED <<rows, lock>>

\* The transaction that makes a match of the cup clears its players' solo innings
\* before it writes the queue, and keeps their participant rows locked to the end.
Locked(u) ==
  \E w \in Drains : drain[w] = "taken" /\ deal[w].pool = "cup" /\ u \in deal[w].players

\* The MULTI that takes them out of the queue, before the COMMIT.  A casual pair
\* also leaves the cup's pool, where their hash names it.
Take(w) ==
  LET P == deal[w].players
      cupToo == IF deal[w].pool = "cup" THEN P ELSE {u \in P : entry[u].pool = "cup"}
  IN
  /\ drain[w] = "clear"
  /\ deal[w].pool = "cup" => \A u \in P : ~Locked(u)
  /\ waiting' = [waiting EXCEPT !["casual"] = @ \ P, !["cup"] = @ \ cupToo]
  /\ member' = member \ P
  /\ entry' = [u \in Users |-> IF u \in P THEN NoEntry ELSE entry[u]]
  /\ DrainStep(w, "taken", deal[w])
  /\ UNCHANGED <<rows, lock>>

\* COMMIT: the match exists.
Commit(w, m) ==
  /\ drain[w] = "taken"
  /\ ~Open(m)
  /\ players' = [players EXCEPT ![m] = deal[w].players]
  /\ kind' = [kind EXCEPT ![m] = deal[w].pool]
  /\ DrainStep(w, "draining", NoDeal(deal[w].pool))
  /\ UNCHANGED <<redis, lock>>

NextPool(w) ==
  /\ drain[w] = "draining" /\ deal[w].pool = "casual"
  /\ DrainStep(w, "draining", NoDeal("cup"))
  /\ UNCHANGED <<redis, rows, lock>>

\* releaseLock deletes the key, whoever holds it by now.
Release(w) ==
  /\ drain[w] = "draining"
  /\ lock' = Nobody
  /\ DrainStep(w, "idle", NoDeal("casual"))
  /\ UNCHANGED <<redis, rows>>

\* The worker dies, and leaves its lock behind.
Killed(w) ==
  /\ drain[w] # "idle"
  /\ DrainStep(w, "idle", NoDeal("casual"))
  /\ UNCHANGED <<redis, rows, lock>>

\* Four seconds after it was set, whether or not its holder still runs.
LockLapses ==
  /\ lock # Nobody
  /\ PromptDrain => drain[lock] = "idle"
  /\ lock' = Nobody
  /\ UNCHANGED <<redis, rows, field, cup, drain, deal, requests, enroller>>

----------------------------------------------------------------------------
(* What becomes of a match, and of a round.                                *)

MatchStep(m) ==
  /\ Open(m)
  /\ players' = [players EXCEPT ![m] = {}]
  /\ kind' = [kind EXCEPT ![m] = "casual"]
  /\ UNCHANGED <<redis, cup, pairing, requests, enroller>>

\* applyMatchWinner: the winner goes on to the next round, the loser is eliminated;
\* a bot, or a participant who is not followed, may be the other side.
MatchWon(m, W) ==
  LET L == players[m] \ W IN
  /\ kind[m] = "cup"
  /\ W \subseteq players[m] /\ Cardinality(W) <= 1 /\ Cardinality(L) <= 1
  /\ \A u \in W : round[u] <= MaxRound
  /\ \A u \in players[m] : ~Locked(u)
  /\ standing' = [u \in Users |-> IF u \in W THEN "active"
                                  ELSE IF u \in L THEN "eliminated" ELSE standing[u]]
  /\ round' = [u \in Users |-> IF u \in W THEN round[u] + 1 ELSE round[u]]
  /\ MatchStep(m)

\* A casual match, a tie, a match declined or expired.  The matches of the bracket
\* are left open: where the bracket goes is not modelled here.
MatchOver(m) ==
  /\ kind[m] # "bracket"
  /\ MatchStep(m)
  /\ UNCHANGED field

Active == {u \in Users : standing[u] = "active"}

\* settleOpenMatches settles the open matches of the cup, except those it leaves to a
\* resolution in flight, those of an earlier round and those made since it looked.  One
\* that it decides by its scoreline is MatchWon just before.
Settled(left) == {m \in Matches : Open(m) /\ kind[m] = "cup"} \ left

RoundStep(left, drawn) ==
  /\ open /\ current <= MaxRound
  /\ \A u \in Users : ~Locked(u)
  /\ left \subseteq {m \in Matches : Open(m) /\ kind[m] = "cup"}
  /\ players' = [m \in Matches |-> IF m \in Settled(left) THEN {}
                                   ELSE IF drawn[m] # {} THEN drawn[m] ELSE players[m]]
  /\ kind' = [m \in Matches |-> IF m \in Settled(left) THEN "casual"
                                ELSE IF drawn[m] # {} THEN "bracket" ELSE kind[m]]
  /\ UNCHANGED <<redis, pairing, requests, enroller>>

NoDraw == [m \in Matches |-> {}]

\* closeRound makes its cut: the kept go on to the next round, the others are out.
CutField(left, kept) ==
  /\ kept \subseteq Active /\ kept # {}
  /\ RoundStep(left, NoDraw)
  /\ standing' = [u \in Users |-> IF u \in Active \ kept THEN "out" ELSE standing[u]]
  /\ round' = [u \in Users |-> IF u \in kept THEN current + 1 ELSE round[u]]
  /\ current' = current + 1
  /\ advancing' = advancing \cup kept
  /\ UNCHANGED open

\* Half the field or fewer are left: they are drawn into the bracket.
StartBracket(left, drawn) ==
  /\ \A m \in Matches : drawn[m] # {} => ~Open(m)
  /\ \A m \in Matches : Cardinality(drawn[m]) <= 2 /\ drawn[m] \subseteq Active
  /\ \A m, n \in Matches : m # n => drawn[m] \cap drawn[n] = {}
  /\ RoundStep(left, drawn)
  /\ standing' = [u \in Users |-> IF u \in Active THEN "knockout" ELSE standing[u]]
  /\ open' = FALSE
  /\ UNCHANGED <<round, current, advancing>>

\* Nobody is left to be given an opponent: the cup is over.
EndCup(left) ==
  /\ Cardinality(Active) < 2
  /\ RoundStep(left, NoDraw)
  /\ standing' = [u \in Users |-> "out"]
  /\ open' = FALSE
  /\ UNCHANGED <<round, current, advancing>>

\* syncQueueAfterClose, for a player who goes on and still has a hash.
SyncAdvances(u) ==
  /\ u \in advancing
  /\ advancing' = advancing \ {u}
  /\ entry' = IF entry[u] = NoEntry THEN entry ELSE [entry EXCEPT ![u].round = current]
  /\ UNCHANGED <<waiting, member, rows, field, current, open, pairing, requests, enroller>>

----------------------------------------------------------------------------
Api(r) ==
  \/ \E u \in Users :
       \/ \E q \in Pools : JoinBegins(r, u, q) \/ RequeueBegins(r, u, q)
       \/ LeaveBegins(r, u) \/ DropBegins(r, u)
  \/ Added(r) \/ Left(r) \/ Dropped(r) \/ Dies(r)

Enroller(u) == EnrollReads(u) \/ EnrollChecks(u) \/ EnrollAdds(u)

Drain(w) ==
  \/ \E q \in Pools : Acquire(w, q)
  \/ \E P \in SUBSET Users : Choose(w, P)
  \/ \E u \in Users : ChooseLeftover(w, u)
  \/ Check(w) \/ Fails(w) \/ DropsStale(w) \/ Take(w)
  \/ \E m \in Matches : Commit(w, m)
  \/ NextPool(w) \/ Release(w) \/ Killed(w)

Ends(m) == MatchOver(m) \/ \E W \in SUBSET Users : MatchWon(m, W)

Rounds ==
  \/ \E left \in SUBSET Matches :
       \/ \E kept \in SUBSET Users : CutField(left, kept)
       \/ \E drawn \in [Matches -> SUBSET Users] : StartBracket(left, drawn)
       \/ EndCup(left)
  \/ \E u \in Users : SyncAdvances(u)

Next ==
  \/ \E r \in Requests : Api(r)
  \/ \E u \in Users : Enroller(u)
  \/ \E w \in Drains : Drain(w)
  \/ LockLapses
  \/ \E m \in Matches : Ends(m)
  \/ Rounds

Spec == Init /\ [][Next]_vars

\* A transaction comes to an end.
Transacts(w) ==
  Check(w) \/ Fails(w) \/ DropsStale(w) \/ Take(w) \/ \E m \in Matches : Commit(w, m)

\* What may go wrong with a drain and does not do so for ever: the worker dies, or
\* the transaction of a playable match fails.
Mishap(w) ==
  \/ Killed(w)
  \/ Fails(w) /\ (drain[w] = "chosen" => Playable(deal[w]))

\* The repeatable jobs run again and again, a waiting player's turn comes when the
\* round is nearly over, and keys expire.
Fairness ==
  /\ \A u \in Users : WF_vars(Enroller(u)) /\ WF_vars(SyncAdvances(u))
  /\ \A u \in Users : SF_vars(\E w \in Drains : ChooseLeftover(w, u))
  /\ \A w \in Drains : WF_vars(Transacts(w))
  /\ WF_vars(\E w \in Drains : Acquire(w, "cup"))
  /\ WF_vars(LockLapses)
  /\ <>[][\A w \in Drains : ~Mishap(w)]_vars

LiveSpec == Spec /\ Fairness

----------------------------------------------------------------------------
(* Properties.                                                             *)

\* Nobody is in two matches the pairing job made, however stale the queue is: the
\* job looks at the matches table in the transaction that writes the match
\* (pairInQueue, pairLeftoversWithBot), and only one job runs at a time.
NoDoublePairing ==
  \A m, n \in Matches :
    m # n /\ kind[m] # "bracket" /\ kind[n] # "bracket" => players[m] \cap players[n] = {}

\* Whoever counts as a member has an entry and waits in a pool.  Joining, requeueing
\* and enrolling all refuse a member, so one who waited nowhere would be shut
\* out of matchmaking until reconcile-queue finds them.
MembersWait ==
  \A u \in member : entry[u] # NoEntry /\ \E q \in Pool : u \in waiting[q]

\* A player of the open round ends up in a match, with a bot at the latest, unless
\* the round closes or they leave the field, or their entry was written for an
\* earlier round: the enroller passes over a member, and pairing over the entry.
EveryonePlays ==
  \A u \in Users :
    InCurrentRound(u) ~>
      Busy(u) \/ ~InCurrentRound(u) \/ (u \in member /\ entry[u].round # current)

\* No match of a normal round is made for a player who holds one of the bracket.
BracketPlayersNotPaired ==
  [][\A m, n \in Matches :
       ~Open(m) /\ Open(m)' /\ kind'[m] = "cup" /\ kind[n] = "bracket" =>
         players'[m] \cap players[n] = {}]_rows
=============================================================================
