# TournamentMatchMaker: a verification project

TournamentMatchMaker runs VR cricket tournaments. Players register, book a seat
at a venue or play from home, are paired by a matchmaking queue, bat one innings
each in a headset, and the higher score wins; rounds close on a deadline, the
field is cut, and the last sixteen play a knockout. The program is a TypeScript
monorepo: an HTTP API (`src/apps/api`), a worker that runs scheduled jobs
(`src/apps/worker`), a web client (`src/apps/web`), shared pure rules
(`src/packages/shared`) and a Postgres schema (`src/packages/db`). State lives in
Postgres and in Redis, and every request and job is a separate transaction (or
several) against both, so nearly everything that is hard about it is what two of
them do to each other.

This directory holds TLA+ modules of that behaviour, TLC configurations that
check them, and proofs checked by TLAPS. `PROJECT.json` is the index: components,
runs, the source lines each definition stands for, findings, hazards, theorems.

Checking it: `tlc -config <run>.cfg <MC module>` for a run (`PROJECT.json` pairs
them), `tlapm <Module>Proofs.tla` for the proofs.

## 1. The system

| Component | State | Operations | Interacts with | Hard behaviour | What makes it correct |
|---|---|---|---|---|---|
| Match play and resolution (`meta.service.ts`, `match-outcome.ts`, `match-turn.ts`) | row of `matches`, `match_innings`, turn holder and its time | poll, claim turn, submit score, bot innings, resolve, decline | standings, ratings, queue; ended by the sweeps of the worker | resolution runs after the commit that triggers it; three sweeps may decide the same match; the turn is read minutes before it is used | each innings written once, one verdict, credited once, and the verdict is what the scores say |
| Venue slots and bookings (`bookings.service.ts`, `slot-lock.ts`) | `time_slots.status`, `booked_count`, `bookings`, a Redis key per slot | book, cancel, lock, finalize, release, admin unlock | pairing and confirmation take seats; entry fixes the window | the count is cached in a column; the lock is kept in two stores; a lock outlives its transaction by minutes | the count is exact, `full` is never stale, every lock has an owner |
| Match confirmation (`matches.service.ts`, `expire-matches`) | `matches.status = pending`, confirmations in Redis | confirm, decline, expire after five minutes | slot lock, requeue | Redis is written before the commit; the sweep decides from an old scan | a pending match ends, and with it the lock |
| Matchmaking queue and pairing (`matchmaking.service.ts`, `pair-players`, `requeue-player.ts`, `enroll-participants`, `reconcile-queue`) | Redis sorted set, membership set and hash per queue; `matches` in Postgres | join, leave, requeue, pair, drain, remove stale, enroll, reconcile | slots, matches, standings | two stores with no common transaction; a lock with a lease; entries re-added between scan and removal | nobody is in two open matches, nobody with an open match waits, nobody eligible is forgotten |
| Round close and standings (`close-round`, `round-advancement.ts`) | `tournament_rounds`, `tournament_participants` | settle the open matches, cut, open the next round or the bracket | match play, queue, buybacks | runs concurrently with resolutions it has waited for | each round closed once, the cut follows the standings, the right number advance |
| Knockout (`close-round`, `tournaments.service.ts`) | bracket rows of `matches` | generate, advance, replay, restart, sweep stalled | match play | winners arrive one side at a time, ties are replayed, walkovers cascade | one match per bracket place, each filled by the winners below it, one champion |
| Tournament lifecycle (`tournament-lifecycle`, admin) | `tournaments.status` and its dates | scheduled transitions, start now, cancel, complete, release | everything | administrators edit what the job is about to move | only legal transitions, each taken once |
| Registration and entry (`tournaments.service.ts`, `live-participation.ts`) | `tournament_participants`, `participant_round_slots` | register, enter, save slot, withdraw | bookings, queue | capacity and the one-live-tournament rule are checked before they are relied on; entry is four transactions | capacity respected, one live tournament, no seat without a registration |
| Buybacks and payments (`stripe.ts`, `stripe.webhook.ts`) | `buybacks`, the payment intent at the provider | checkout, webhook success and failure, fulfil | standings, round close | webhooks late, duplicated, reordered; the round may close in between | paid exactly once means active exactly once |
| Solo targets (`meta.service.ts`) | `solo_target` of a participant, a copy in the queue hash | submit, chase when paired, reset | pairing, match play | kept in two stores, read before the pairing that consumes it | an acknowledged innings is used, and in one match only |
| Pure rules (`packages/shared`) | none | outcome, walkover, ratings, pairing order, advancement, flow | all | zero, one and odd counts | agree with a reference definition |
| Notifications and the bell (`dispatch-notification`, `bullmq.ts`, `SocketSyncProvider.tsx`, `NotificationBell.tsx`) | job queue, `notifications`, the sockets and lists of the open tabs | enqueue, dispatch, retry, publish, fetch, mark read | all | at-least-once jobs, reused job ids, events that fall between two connections | what is unread comes to be shown, what was read stays read |
| Sessions and headset link (`auth.service.ts`, `api.ts` of the web client, `meta-link.service.ts`) | refresh tokens, the tokens of each tab, link codes | login, refresh, logout, suspend; generate, verify | all requests | delete then insert; tabs that share a cookie; get then delete | a refresh token is good for one pair, no call waits for ever, a code links one headset |
| Administration (`modules/admin`) | edits of all of the above | set result, force confirm, force expire, unlock, recount, bracket edits | all | bypasses the handlers' guards | leaves the invariants of the others intact |
| Rate limits and authorization, geo and venue directory, other pages of the web client, schema and deployment | counters, none, browser state, none | | | | per-request guards, read-only lookups, pages: section 6 |

`PROJECT.json` gives the status of each of them, and under `hazards` each
behaviour of this code that tests would hardly reach, at its line, with the
property that covers it or the reason why none does.

## 2. The modules

### `MatchPlay`: one match from pairing to verdict

State. `status`, `half`, `verdict` are the `matches` row (its status and the
result JSON: the two halves of the scoreline and who won). `holder` and `lapsed`
are `active_player_id` and whether it is older than `TURN_HOLD_MS`; `quiet` is
the age of `updated_at` in the two classes the sweeps distinguish. `innings` is
`match_innings`. `standing`, `round`, `wins`, `losses` are the two participants'
rows, `rated` counts the rating updates the match caused, `queued` is membership
of the Redis queue. `rowLock` is the request whose transaction holds the match
row; `pc`, `side`, `score`, `carried` are the program counters and locals of the
requests in flight; `row` and `dropped` are what a sweep read before it acts.

Steps. A step is what one process does between two awaits at which another
process can observe it. `SubmitBegin`/`SubmitCommit` are the transaction of
`submitScore` (in two steps because the turn may lapse inside it); `PollFindsBot`,
`BotBats`, `BotHasBatted`, `PollReads`, `ClaimTurn`, `ClaimRefused` are
`getCurrentMatch`; `ResolveTie`, `ResolveWin`, `Requeue` are `applyMatchOutcome`,
which a request runs after its own commit. `CloseRound`/`SyncQueue`,
`UnplayedScan`/`UnplayedSettle`, `EndDate`, `ReleaseScan`/`ReleaseSettle` are
the sweeps: scanned and settled in two steps where the code reads without a lock and
then updates by id. `Crash` may strike a request at any point. Both the
match that starts empty and the chase of a recorded solo innings are initial
states. The cut of `CloseRound` is any cut the standings order allows for
these two players in a larger field.

Abstracted: the text of the result, ratings as numbers (how often they move is
kept), the rest of the field, sockets and notifications.

### `MatchContract`: what a match promises

Each player bats at most once, the match is decided at most once, by the innings
on record, and the standings are credited in the same step. `MatchPlay` between
two people with the closing round implements it under the refinement mapping
`Contract` (`ImplementsContract`).

### `VenueSlots`: one slot of a venue

State. `slotStatus` and `booked` are the `time_slots` row, `booking` the rows of
`bookings` (one per player and slot by the unique index, cancelled ones
included), `key` the Redis slot lock. `hasVr` is `users.has_vr_headset`,
`window` the play window of each player's round entry as far as this slot is
concerned. `stage` is how far a pairing attempt has come (`claiming` the key,
`reserving` the row, `seating`) and then the status of its match; `players`,
`seats`, `cup` say who plays it, who takes a seat here and whether it is a
tournament match. `confirms` are the Redis confirmations, `old` that the match
is five minutes old, `task` a decline or sweep under way.

Steps. `Book`, `Cancel` are `BookingsService`; `EnterHere`, `EnterElsewhere` the
round entry, `ChangeHeadset` the profile page; `PairBegins` to `PairFails` the
part of `pairInQueue` that anchors a match to a slot and seats its players;
`ConfirmFirst`, `ConfirmSecond`, `ConfirmLost` the confirmation (`ConfirmLost` is a crash
after the Redis write); `DeclineBegins`, `DeclineCommits`, `DeclineDies` the
decline, whose release of the lock is on another connection; `SweepScans`,
`SweepExpires` the two sweeps that expire matches by id; `AdminUnlock`, and the
clocks.

A transaction that locks the slot row is one step, since every writer of the row
locks it. Abstracted: the search among slots (`Found` says this slot qualifies),
the venue, prices, and the rest of the calendar.

### `MatchQueue`: the queue, and the matches it makes

State. `waiting`, `member`, `entry` are what Redis holds: a sorted set per pool, the
set `queue:member`, and a hash per player with the pool and the round it is for.
`players` and `kind` are the open rows of `matches` (a match identity is free
again when its match is over). `standing` and `round` are `tournament_participants`;
`current` and `open` the cup's normal round; `advancing` the players whose entry
`syncQueueAfterClose` has still to bring to the new round. `lock` is the pairing lock,
`drain` how far each pairing job is (`chosen` a pair, found them `clear`, `taken`
them out of the queue) and `deal` whom it is about to pair and for which round.
`request`, `user`, `carried` are requests and removals in flight with the
entry they have built or read; `enroll`, `enrollRound` the same of the enroller.

Steps. A step is one Redis MULTI, one SQL transaction, or the reads made before
one: every race of this component lies between those. `JoinBegins`,
`RequeueBegins`/`Added`, `LeaveBegins`/`Left`, `DropBegins`/`Dropped` are the
requests and the removals of the worker; `EnrollReads`, `EnrollChecks`,
`EnrollAdds` the enroller; `Acquire` to `Killed` the pairing job, from the lock
through one pair or one bot match to the next pool and the release; `LockLapses`
the time to live. `MatchWon`, `MatchOver` end a match; `CutField`, `StartBracket`,
`EndCup` are the transaction of `closeRound`, which may leave some of the open
matches to a resolution in flight, and `SyncAdvances` is what it does to Redis afterwards.
`Locked` says that a pairing of the cup has updated its players' participant rows, which keeps
`closeRound` and `applyMatchWinner` out until it ends.

Left open (any choice allowed): which two players a pass chooses, that it sets
aside a pair which failed, and how near its end the round must be for a bot - `PairDrain` has
them - and where the bracket goes after its first matches (`Bracket`). Left out: the solo innings an
entry carries, and the moment between `exists` and `hset` of the sync.
Participants outside `Users` may be opponents and are not followed.

### `PairDrain`: how a pass over one queue decides

State. Of the queue: `waiting`, the last `mark` (10 s, 30 s, 5 min) each wait has
passed, who is `busy` with a match all the same, whether the cup is `indexed` in
`queue:tournament:ids`, a removal that has counted nobody left and is about to clear
that index (`leaving`), and whether the round is within fifteen minutes of its end (`late`).
Of the pass: its `stage`, the `pair` it tries, the pairs it has `excluded`, the
matches it has `paired`, and the players it has `left` for the bot.

Steps. `PassBegins` (the sweep, for indexed cups only, or a pair-now job),
`Tries`, then `Matched`, `DropsStale` or `Skips`, until `Drained`; `GetsBot` and
`PassedOver` for the leftovers; `PassEnds`, `PassDies`. A removal and the count
after it are one step and the clearing of the index another (`Drops`, `LeaverDrops`):
a join in between is what loses the index. Nothing is written between the last
look for a pair and the look at the leftovers, and the clock of the second is read after
that of the first, so both are `Drained`. `Attempts` is |`excluded`| + `paired`, because every
attempt adds to one of them.

Abstracted: the ranking among the pairs that are allowed; all entries are for the
one open round. The casual pool, which has no bot and no index, is not in it.

### `Bracket`: a tournament down to its champion

State. The normal rounds are counts: the `field` a threshold is taken of, `entrants` who hold a
registration and those who `quit`, how many of the entrants are `active`, the buyback `forms` opened for
this round, how many came `back` by one, and how many a late result `revived`. `result` has, for each match
whose result is on its way, where its winner and its loser are by now: `in` the round, put `out`, or `left`. From the draw on, `bracket` maps each place of the knockout (round and slot, which a unique index
makes a key) to its match, `standing` is the status of each player, numbered by
record (`overwritten` is `active` or `eliminated` where the bracket asks for `knockout`), and `advancing` holds winners whose result is stored and who have not been
entered into the next match yet.

Steps. `Bats` completes the scoreline of a match; `Resolves` is `applyMatchWinner`, which makes the winner
active and the loser eliminated whatever they were, also after a cut (`Cut`) has put either out;
`ResolvesLate` the same after the draw; `EndsWithoutEffect` a handler that dies, a tie, or a sweep that
decides the match and counts the win only. `OpensForm` is the checkout, which compares the field with
the threshold, and `BuysBack` the grant, which asks for the phase and the round only; `Leaves` a
withdrawal. `ClosesRound`, `DrawsBracket`, `ClosesLastRound` are `closeRound`
(`shouldStartKnockout`, `playersToAdvance`, `knockoutThreshold`, `resolveFieldSize`
are operators of the same names); `Wins`, `GoesOn`, `GoesNowhere` the result
and `advanceKnockoutWinner` after it; `EndsUndecided`, `SweepDecides`, `Withdraws` ties,
expiries, walkovers and withdrawals; `RestartsBracket` and `FinishesBracket` the sweep of
brackets that have stopped moving.

Abstracted: a player is in one match whose result is on its way, and a match is resolved by one handler
(`MatchPlay` has the others). A result that comes after the draw and whose player is not in the bracket changes
nothing that a sweep of the bracket reads, so such sides, and the counts of the normal rounds, are let go at
the draw.

### `Buybacks`: one player who pays to come back

State. Rows of `buybacks` with their round and whether the intent is `linked`;
the provider's intents, refunds and unacknowledged `events`; the player's participant row;
the tournament's `phase` and round; where each checkout (`checkout`, `seen`, `wanted`) and
each webhook delivery (`hook`, `event`) is. The provider is external: an intent is
paid once, a declined card leaves it open, and an event is delivered in any order,
perhaps to two handlers at once, until it is acknowledged.

Steps. `CheckoutBegins` to `CheckoutDies`; `Pays`, `Declined`, `Canceled`; the handlers,
with the check before the transaction (`HookClears`) and the transaction (`HookGrants`) apart;
refunds and statuses set by hand; and the tournament that goes on meanwhile.

### `CupEntry`: who is in which tournament

State. `status` and `closes` of each tournament, the `stage` of its dates, and whether it has a bracket match
with one player only (`half`);
`registered` and `place` are `tournament_registrations` and
`tournament_participants`; `requests` the registrations in flight, `due` what a sweep
of the lifecycle job has found and not moved yet, `page` an administrator's page that
shows a status of a while ago, `closing` tournaments a page moved while the sweep was closing their round.

Steps. A registration checks on one connection and commits on another
(`RegisterCommits`, `RegisterRollsBack`); `Enter` and `EnterRegisters` the round entry of someone not
registered; `Withdraw`; `JobScans`, `JobMoves`, `JobFails` the job, which reads the
status again under the lock, and whose completion is rolled back while a match is half empty (`Expires`); `PageMoves` and `PageRetires` the administrator, who
does not; `EditDates`, `EditPlace` the forms. Of play there are
`Plays` (a loss, a cut, a buyback), `ResultIsLate` (a result that lands after its player was put out, or after the
end), `BracketWaits` and `BracketMoves` (a match that has one of its winners, and then the other) and `PlayEnds`, the
completion by `closeRound` and by the sweep of the bracket. A late result of a tournament that a page has moved back to
an earlier status is left out.

### `WebSession` and `LiveNotices`: a browser

`WebSession` is the API client of each tab against the sign-in service. A pair of tokens
is a number; `rows` are the refresh tokens, `origin` what each pair was issued for, `good`
the access tokens still accepted, `cookie` and `stored` what the tabs share, `access` and
`refreshing` what each has to itself, `call` its refresh and `req` the requests, of which those
`queued` are the callbacks in `refreshQueue`. The delete of a refresh token
(`RefreshServed`) and the insert of the next (`RefreshIssues`) are two statements.

`LiveNotices` extends it by the `job` of a notice with its attempts, its `row` and its
`mail`, and for each tab the socket with the token it was opened with (`sock`), whether the
listeners are on it (`hears`) and what the bell has to fetch (`due`, `again`) and shows
(`shown`). `newer` counts, up to `Listed`, the notices that came
after this one: the bell asks for the newest rows, read ones included. They are other followed notices, or
any other notice of the player (`OtherWritten`). The bell fetches by a request of `WebSession`.

## 3. Runs

| Run | Instance | Question |
|---|---|---|
| `match_people` | two people, three requests in flight, clients that may retry, crashes, decline, the closing round | is the match decided and credited once, and does it implement the contract? |
| `match_storm` | a match against the bot, all sweeps, handlers that may stall for minutes | is what is stored truthful whatever races, and does the match end? |
| `venue` | two players who may both change headset, one match, one seat, fairness | are the counts and the lock right under every order, and does an open match end? |
| `queue_pairing` | two players, two matches, both pools, two pairing jobs, one request, the enroller | is anybody paired twice, or a member of a queue they do not wait in? |
| `queue_rounds` | two players, one pairing job, the enroller, one closing round, fairness | does everybody in the open round get a match? |
| `drain` | three players of tiers 1, 2 and 4, of whom two cannot be scheduled together, fairness | is anybody held up by others, or given a bot they need not have? |
| `buyback` | one checkout, two webhook deliveries, two rows, a round that closes, refunds | does a payment buy one re-entry, and is it never forgotten? |
| `bracket` | fields of three and of ten, a match whose result may come late, a buyback, a mishap, fairness | is the bracket one, and does it end? |
| `bracket_stuck` | a field of fourteen in which nothing goes wrong, fairness | violated: the bracket never ends (finding) |
| `entry` | two players, one place, a tournament with dates and one without, two things that fail, are late, wait or are done by hand, fairness | do capacity and the one live tournament hold, and does the tournament run to its end? |
| `session` | two tabs, four requests, three pairs, one fault, fairness | is a refresh token good for one pair, and does every call end? |
| `notices` | one tab, one notice added up to twice, newer ones that push it off a list of two, one fault, fairness | does the bell come to show it, and does what was read stay read? |

### Properties

- `CountedOnce`: whichever of the submission and the sweep decides the match,
  and whatever crashes, wins, losses and ratings are credited once, for the
  verdict on record. It holds for a match between people and the sweep that locks
  the row, provided no handler stalls for two minutes between its commit and its
  resolution (`PromptHandlers`): the code itself relies on those two minutes.
- `PlayedMatchStands`: two innings on record are never expired or declined away.
- `QueuedMayPlay`: nobody is in the queue while this match is theirs to play,
  and a loser is never in it.
- `TurnRespected`: no first innings is taken while the opponent holds the turn.
- `InningsFixed`: an innings is never replaced.
- `ScorelineTruthful`, `VerdictFollowsScore`: the stored halves are innings
  really played, and the stored verdict is what they say. These hold with
  every sweep and stalled handlers, where `CountedOnce` does not.
- `MatchEnds`: an open match does not stay open.
- `SeatsCounted`, `FullMeansFull`, `LockAccounted`, `PendingEnds`: the cached
  count, the cached status, the owner of a lock, and the end of an open match.
- `NoDoublePairing` (and `PromptDrainsNeverPairTwice`, proved): nobody is in two matches the pairing job made, though queue
  entries go stale at every step. It rests on the lock: with `PromptDrain = FALSE`
  (a drain that outlives the four seconds of its lock) TLC finds it violated by two
  drains that both find the same player free, and the unconditional delete of the lock
  lets a third one in. The production readiness audit lists this as items 1.9 and
  1.10, and the code is still so.
- `MembersWait`: a member of the queue has an entry and waits in a pool. The opposite
  does not hold and is not claimed: a leave that read its hash before the player was queued
  elsewhere leaves them in a sorted set without membership, which pairing tolerates.
- `EveryonePlays`: whoever is in the open round gets a match, or leaves the
  round, also after a crash between the Redis removal and the commit. One case is excluded by
  name: an entry written for an earlier round. An enroller that read its
  candidates before the close and writes after the sync leaves one, the next enroller
  passes over a member, and pairing refuses the entry with the remark that close-round
  will move them on (`pair-players.job.ts:383`), which it did already. Without the
  exclusion TLC finds the property violated.

- `BotsAreForLeftovers`: when a pass turns to the leftovers, everybody else in the
  queue was tried with each of them, whatever their tiers. A pass that stops because it has made
  fifty matches is excluded: it hands out bots to people it could have paired.
- `WaitersMeet`: two players who can be scheduled do not wait beside each other for ever,
  whatever other pairs fail. It needs more attempts in a pass (500) than there are pairs that fail;
  with `MaxAttempts` no greater than those TLC refutes it.
- `NobodyLeftWaiting`: once the round is nearly over nobody who is free waits for ever. A
  player who joins in its last five minutes may see it end first: time is not
  bounded here. Both leave out, by name, a cup that has lost its index: `ZCARD` and
  `SREM` are two calls, a join in between is indexed and at once unindexed, and then only a
  pair-now job that finds the lock free, or the next join, brings the sweep back. The
  enroller adds no such job. Without that exception TLC refutes both.
- `OneGrantPerPayment`, `PaymentNotForgotten`, `NoSecondCharge`: a payment buys one re-entry; as
  long as a paid row is pending an event of it is still to be delivered; and no second form is opened while a paid one is unsettled.
- `OnePlaceAtATime`, `LosersStayOut`, `ScheduledRounds`: nobody stands in two bracket
  matches or plays themselves, a loser never plays on, and the bracket comes after two normal
  rounds, or one more for each player who was out and came back, by a buyback or by a result that landed after the
  cut. The first two need `Prompt`: with `Prompt = FALSE` an advance that
  arrives after the sweep has redrawn the bracket puts a player into a second match, or makes
  them face themselves, and TLC refutes both.
- `BracketEndsUnlessTaken`: a bracket reaches its champion, or stands where its
  redraw wants a slot that a completed match keeps.
- `OneLivePlace`, `CapacityKept`, `JobYields`, `RunsToTheEnd`: nobody competes in two tournaments; only
  an administrator registers players beyond the places; the job never overwrites a
  move made since its scan; and a published tournament reaches its end by its dates, unless a bracket
  match keeps waiting for its second player. The job is not alone in ending a tournament: a round that was being closed
  when a page moved it may still complete it.
- `OnePairPerToken`, `RequestsSettle`: one refresh wins however many tabs race, and every
  call of a page is answered, also those that waited for the refresh of another.
- `ReadStaysRead`, `NoticeShown`: retries do not make a notice unread again; an attached tab comes
  to show what is unread and among the newest it asks for, also if the event fell between two connections or overtook a fetch.

### Bounds, and why they are enough

- Requests: 2 or 3 in flight. Every race of the code is between two writers; the
  third request adds the retry behind them.
- `MaxScore = 1`: the code compares two scores and tests for absence, so higher, lower,
  level and absent are all that can be told apart.
- Two sides: a match has two.
- `quiet` stops at 2 (five minutes), the last threshold any sweep looks at.
- Venue: `Capacity = 1` with two players and one match reaches full, over-full,
  locked and unlocked while it is still anybody's. One player owns a headset, the other comes
  to the venue, and both may change that at any moment (`Changing`).
- Queue: two players make one pair or two odd ones out, two matches are what a double
  pairing needs, and two jobs what the lock is for. `Pools` are the pools players join;
  `MaxRound` is the last round that closes (0 when the run is not about closing).
  Three players were too many for the runs; the theorems do not bound them.
- A match identity of `VenueSlots` that `ended` or was `played` stays so; the
  number of matches of a run is the number of `Matches`.
- Drain: three players are the fewest with a pair that fails and another behind it;
  the tiers make all three bands of tolerance differ. `MaxAttempts = 4` is one more than
  the pairs there are; `MaxPaired = 2` lets a pass reach its limit. `Stale` says who may be
  queued while in a match.
- Buybacks: two rows are what a second form needs, two deliveries what the row lock is for, one
  closing round what makes a form stale. One checkout at a time: two at once can open
  two intents, which the code does not exclude.
- Bracket: of a field of three at most one is scheduled for a bracket (more with a late result), of ten up to
  five, after losses and withdrawals any number below; one handler of late results (`Late`) is enough to lift a field over its
  threshold: draws with and without a bye, at every round from the quarter-finals on. Larger
  fields add a round of the same kind, until the round of sixteen is exceeded (see below).
- Entry: one place and two players contend for it; each has to do with both tournaments
  (`Choice`), the second of which keeps them live elsewhere. `MaxMoves` counts what an
  administrator does and what fails, comes late or waits.
- Session: two tabs of which one signs out, `MaxPairs = 3` so that a pair issued by one
  refresh lapses and is refreshed again; `MaxFaults` counts calls lost and crashes. Notices: one tab
  suffices, since tabs share no bell; `MaxAdds = 2` adds the notice again after its job is forgotten;
  `Listed = 2` for the ten rows of the code: a notice that is on the list, at its end, and off it.
- Symmetry (requests, matches, handlers: no property names one) is used in `match_people`,
  `queue_pairing` and `buyback` only, none of which has a liveness property.

### Fairness

`MatchPlay!FairSpec`: the slot deadline passes and the row ages (clocks); the
`expire-unplayed-slots` job is a repeatable job of the worker, so a scan and its
settling are weakly fair; a handler that does not crash takes its next step. No
fairness is put on crashes, players or the other sweeps. `VenueSlots!FairSpec`:
the match ages; `expire-matches` runs every minute (weak fairness of the scan); a
decline that does not die commits; the update of the sweep gets the row lock in
the end although declines may take it again and again (strong fairness of
`SweepExpires`, which Postgres' queue of lock waiters justifies). Nothing is
assumed of players: `PendingEnds` holds when nobody ever confirms.
`MatchQueue!LiveSpec`: the enroller and the pairing job are repeatable jobs of the worker
(weak fairness of their steps and of the sync that follows a close), the key of the lock
expires, and a transaction ends. A waiting player's turn for a bot comes again and
again while the end of the round is near (strong fairness of `ChooseLeftover`: between two
such turns the job may be pairing others). Crashes and failing transactions happen
finitely often; nothing is assumed of players or of matches ending.
`PairDrain!FairSpec`: the sweep runs every two seconds and a pass goes on (weak fairness of
`Pass`, to which pair-now jobs do not belong), time passes for whoever waits, a removal clears
its index; a pass fails or dies finitely often. Nothing says that the round gets late, that a match
ends or that anybody leaves.
`Bracket!LiveSpec`: closing and sweeping are repeatable jobs, a bracket match with two players gets a
result (by play or by the two-hour sweep), and a winner whose process lives goes on.
`CupEntry!LiveSpec`: time passes for the dated tournament, the sweep scans every minute, and moves what
it found. `WebSession!SessionFairness`: calls are answered or rejected, a refresh runs, a page
loads; nobody has to sign in or to send. `LiveNotices!Fairness`: the worker works, calls end,
sockets connect, the bell fetches; strong fairness only of an answer that no invalidation has
overtaken: the player and the network may interrupt any fetch, but not every one for ever.

### Where the code and its documents differ

One is a run. `bracket_stuck`: seven players enter the bracket; after three
quarter-finals and one semi-final three are left, and the redraw of three is for the semi-finals
again, whose slot 0 a completed match keeps. The insert conflicts, the transaction rolls back, and
every later sweep does the same. The end date does not mend it when a half-empty match is left among the rows:
completion then rolls back too (`EndDateIsAHardStop` below). But `knockout.test.ts:44` says that the bracket has to shrink to a
single champion from any starting size. The same happens to a bracket of four whose slot 1 is tied or
expires after slot 0 was played.

The others are stated as properties in the modules, each with the sentence it comes from, and TLC refutes
each on a small instance; no run is kept for them.

| Property | Instance | What happens |
|---|---|---|
| `NoDoubleCounting` (MatchPlay) | `Bot = 2`, no sweep | HANDOVER.md: score submission with no double-counting. A poll that finds both innings of a bot match resolves it, also the poll that lost the claim to bat, and the resolution does not look at the status: two polls credit the match twice. |
| `BatFirstOnEmptyBoard` (MatchPlay) | two people, two requests | The integration guide's "bat first" means an empty board; the turn is granted on a test of the holder alone, after the board was read. |
| `OutStaysOut` (MatchPlay) | two people, the closing round | `out` is final in HANDOVER.md; a resolution that lands after the cut makes a winner who was put out active again. |
| `NoOverbooking` (VenueSlots) | two players, two matches, one seat | HANDOVER.md says no overbooking; seats taken for a match are not compared with the capacity. |
| `LockedOnlyWhilePending` (VenueSlots) | one match, changing headsets | A comment in pair-players tells of slots left locked for good as something mended; a headset gained between pairing and confirmation brings it back. |
| `BracketPlayersNotPaired` (MatchQueue) | `MaxRound = 1` | A comment in close-round says that dequeuing the field keeps the queue from building a normal match against a player of the bracket. A pairing that has done its checks when close-round commits does not look again. |
| `FormIsForThisRound` (Buybacks) | that of `buyback` | "Buy back into the round that is running now": a form opened for an earlier round is handed out again; paid, it can never be granted, and the refund is refused because the row stays pending. |
| `TwoRoundsWithoutBuyback` (Bracket) | that of `bracket` | `round-advancement.ts:17-28`: "Two rounds, whatever N is", and only buybacks buy a third. A match in flight at the cut, both of whose players it puts out, makes its winner active again: the field is over the threshold and a third round opens, with nobody having bought back. |
| `EndDateIsAHardStop` (CupEntry) | that of `entry` | `tournament-lifecycle.job.ts:126`: the end date is a hard stop, "so the tournament cannot hang open". While a bracket match has one player only, the update that expires all open matches breaks `matches_players_present`, and every sweep rolls back. |
| `NobodyInFinished` (CupEntry) | that of `entry` | Completion retires the participants; a registration that passed its checks before commits after it, and an administrator can register somebody into a completed tournament with no race at all. |
| `BellAlwaysWorks` (LiveNotices) | that of `notices` | README.md: "In-app notifications always work via Socket.IO and the bell icon". The socket keeps the token it was opened with, the server closes it when that has lapsed, and the refreshed token opens no other; a page that replaces the socket loses the bell's listeners. Only a focus of the window fetches again. |

Met on the way, and not stated as properties:

- Buybacks. A declined card marks the row failed while the intent can still be paid, and the payment is
  then ignored. `failBuybackFromWebhook` reads the status and updates without it, so a completed row
  can be marked failed, and a refund requires `completed`. Setting a row back to `pending` by
  hand allows a second grant (the run edits to `failed` only). A payment of somebody who plays elsewhere
  by then fails at the unique index each time it is delivered.
- Bracket. More than sixteen entrants overflow into two finals (late registrations by an administrator
  can raise the field). A player who waits in a half-empty match cannot withdraw: the update breaks
  `matches_players_present`. The API's copy of `closeRound` lacks the queue sync, the next
  window, `current_round`, and the case of fewer than two players.
- Entry. Withdrawing and registering again leaves a registration with a participant who is `out`. A refused
  entry leaves its seat booked. The server writes any status a page sends, also backward.
- Sessions. Of two tabs that refresh at once one is signed out, and takes the stored token with it; a lost
  answer to a refresh signs the tab out; a sign-out in one tab that races a refresh in another leaves
  that other pair alive.
- Notices. The bell lists the ten newest and counts the unread ones among these: an unread notice with ten
  newer ones, read or not, is neither shown nor counted. Marking all read also marks those never shown. A mail that went out, and whose note did not, goes
  out again.
- Pairing. A stale lone entry is not dropped by the leftovers' pass: it stays until the match ends.

## 4. Proofs

`MatchPlayProofs` proves about `MatchPlay`, for every set of requests, every range of
scores, with a bot on either side or none, for every choice of sweeps and however
slow a handler is:

- `TypeCorrect`: `Spec => []TypeOK`.
- `InningsNeverReplaced`: `Spec => InningsFixed`. By itself the property is not
  inductive: `SubmitCommit` writes `innings` without looking, on the strength of
  what `SubmitBegin` saw. `SubmitInv` says that what a submission found under the
  row lock is still so when it writes: it holds the lock, the match is open, its
  side has not batted and the turn is not held against it. The step that matters
  is that everybody else who would disturb this needs the row to be free
  (`HeldRowKept`).
- `TurnLockHolds`: `Spec => TurnRespected`, from the same invariant.
- `ScorelineIsTruthful`: `Spec => []ScorelineTruthful`. Stale copies of the
  scoreline are written back by requests and sweeps, so the invariant has to cover
  the copies as well: `CopiesInv` says that no copy, on the row, carried by a
  request or scanned by a sweep, holds a score that was not played. It is kept
  because an innings, once there, does not change.
- `VerdictIsEarned`: `Spec => []VerdictFollowsScore`. A verdict is only ever
  stored with the scoreline it was computed from, except when a row without a
  verdict gains a half: `RowInv` adds that an open row has no verdict, and `InHand` that what is
  being resolved is complete.

and, under `PeopleOnly` (two people, of the sweeps only the closing round, no handler that stalls
for two minutes: the instance of `match_people`, for any requests and scores):

- `MatchCountsOnce`, `PlayedIsDecided`, `QueueIsForTheFree`: `Spec => []CountedOnce`,
  `[]PlayedMatchStands`, `[]QueuedMayPlay`. None is inductive: the credit is given by a request that
  let go of the row after its own commit and comes back for it. `ResolvingInv` says that such a request is
  the only one, that the match it comes back to is still open, that what it carries is the innings on record, and that
  the row has not aged, which is what keeps the closing round off it. `PlayInv` adds that the row
  is the board, that nothing is credited while the match is open, and that who is eliminated lost
  by the verdict. The hypothesis is what the code needs: against a bot TLC refutes `CountedOnce` (two polls), and with
  stalled handlers a sweep and the handler both decide.
- `MatchKeepsContract`: `Spec => ImplementsContract`. The same invariant gives the refinement of
  `MatchContract` step by step: a submission bats, the resolution or the closing round decides, by the innings
  on record, and everything else is a stutter of the contract.

`VenueSlotsProofs` proves about `VenueSlots`, for any players, capacity and matches:

- `SlotTypes`: `Spec => []TypeOK`.
- `CountIsExact`: `Spec => []SeatsCounted`. It is inductive with the types: a
  booking adds one element to the set of confirmed bookings, a cancellation
  removes one, and seating a match adds exactly those who had none
  (`SeatCounts`, by the cardinality of a disjoint union).
- `FullIsNeverStale`: `Spec => []FullMeansFull`: everybody who writes `full`
  does so from the count of the same step.
- `LockIsAccounted`: `Spec => []LockAccounted`, with `LockInv`: only open matches wait
  for confirmations, and a tournament match on its way to the slot has somebody to
  seat. The second half is why pairing cannot leave a lock behind: if it could
  reach the seating of nobody, the lock just taken would stay. It holds because
  whoever anchors the match here is the player who turns up (`AttendingSomebody`),
  decided once, before the headset can change.

`MatchQueueProofs` proves about `MatchQueue`, for any players, matches, requests,
pairing jobs and closing rounds:

- `QueueTypesHold`: `Spec => []TypeOK`. A request in flight must have a player
  (`Named`) for its write to be typed.
- `MembersAlwaysWait`: `Spec => []MembersWait`, with `WaitInv`: it is inductive
  together with the types, because whatever is about to be added carries a pool.
- `PromptDrainsNeverPairTwice`: under `PromptDrain`, `Spec => []NoDoublePairing`. `PairInv`
  adds that a drain that is not idle holds the lock (`Exclusive`) and that whom it
  found clear is in no match until it commits (`StillClear`). The second holds because
  only the holder makes a match of the pairing kind; the bracket is drawn without it, which is why the
  theorem is about matches the job made.

`PairDrainProofs` proves about `PairDrain`, for any players, tiers, doomed pairs and limits:

- `DrainTyped`: `Spec => []TypeOK`. `Inv` adds that the pair tried is a pair, and that there is
  room for its match, without which the count of matches could pass its limit.
- `LeftoversHadTheirChance`: `Spec => BotsAreForLeftovers`. Whoever is due a bot has
  waited five minutes, the longer wait of two decides (`LongerWait`), and at thirty seconds any tier
  will do, so every pair with that player is allowed (`LongWaitTakesAnyone`): that none is
  left to try means that all were set aside.

`CupEntryProofs` proves about `CupEntry`, for any players, tournaments and requests:

- `EntryTyped`: `Spec => []TypeOK`.
- `EntryOneLivePlace`: `Spec => []OneLivePlace`. It is inductive with the types: checks made earlier
  count for nothing, every step puts at most one row into the unique index and only as the index
  allows (`IndexKeepsOne`), or none (`NoneJoinsIndex`).
- `EntryCapacityKept`: `Spec => CapacityKept`: a registration that counts under the lock adds
  one to a set that is smaller than the capacity (`OneMoreFits`).
- `EntryJobYields`: `Spec => JobYields`.

`WebSessionProofs` proves about `WebSession`, for any tabs and requests:

- `SessionTyped`: `SessionSpec => []SessionTypeOK`.
- `RefreshTokenWorthOnePair`: `SessionSpec => []OnePairPerToken`, with `TokenInv`: a refresh token is in
  one place, a row, or taken by one refresh call, or spent as the origin of one pair. It moves
  along these and never back, since `RefreshServed` takes it out of the rows in the statement that
  reads it. The invariant is what says that two calls cannot hold one token, which
  `OnePairPerToken` alone does not.

and about `LiveNotices`, for any tabs, requests and notices:

- `BellKeepsTheSession`: `Spec => []OnePairPerToken`. `SessionGoesOn` shows that every step of
  `LiveNotices` is a step of the session or leaves it alone, but for the count of failures that mails share
  with calls; so the session keeps its invariant under the bell.
- `NoticesTyped`: `Spec => []TypeOK`. With it goes `TriesLeft`: a job that can still be tried has not
  failed three times, without which the count of attempts could pass its limit.
- `WhatIsReadStaysRead`: `Spec => ReadStaysRead`.
- `SignedOutHearsNothing`: `Spec => []SignedOutIsDeaf`: a tab that is signed out has no socket, no
  listeners and nothing to fetch. It rests on the bell's request never being one that signs out, so that only
  steps which the sockets follow (`FollowsAuth`) change the token.

`BuybacksProofs` proves about `Buybacks`, for any checkouts, webhook deliveries, rows and rounds:

- `BuybackTyped`: `Spec => []TypeOK`. It needs `InHand` (a checkout or a delivery holds a row
  that is there, and no two checkouts the same new row) and `Truthful` (the provider has intents for rows
  only, and tells of a payment only if there was one).
- `GrantsArePaid`, `PaymentsAreTold`: under `NoneReopened`, `Spec => []OneGrantPerPayment` and
  `[]PaymentNotForgotten`. Webhooks are delivered late and twice, so the count of grants is
  bounded by a set that only grows: the rows that are settled and paid (`GrantInv`). A grant takes its row out of
  pending in the same transaction, and so adds one to that set. `NoneReopened` says that nobody sets a
  row back to `pending` by hand; if somebody does, the next delivery grants again.
- `NoSecondForm`: under `NoneReopened` and `OneCheckout`, `Spec => NoSecondCharge`. `OneForm`: a form that can
  still be paid is on the newest row, which is the one that the next checkout looks at, and a row
  is inserted only while no form is live. With two checkouts of a player at once the code can open two
  forms, so the hypothesis cannot be dropped.

`BracketProofs` proves about `Bracket`, for fields of any size and any number of mishaps:

- `RoundsAreEarned`: `Spec => []ScheduledRounds`. `CountInv` says more about each round: `Earned`, how many may be
  active in it, by the field, by the buybacks and by the comebacks so far; and `Counted`, that the sides of
  matches on their way whose player is active, or out, are no more than the players who are. The second is
  what a result that lands late needs: its winner adds one to `active` and one to `revived` in the same step, its loser takes
  one away only if active, and there are always enough active players for that.
- `BracketTyped`, `NobodyInTwoPlaces`, `LosersNeverReturn`: under `PromptWinners`, `Spec => []TypeOK`,
  `[]OnePlaceAtATime`, `[]LosersStayOut`. `BracketInv` adds three things. `OnTheirWay`: a winner who
  has not gone on yet has not lost, is in no open match, and is on the way from one match only. `DrawnAt`:
  there is a round, that of the last draw or one before, from which on every match and every winner on the
  way is, and later draws are for that round or a later one, since nobody comes back into a bracket (`AliveShrinks`,
  `LaterRounds`). `Fed`: from that round on a side of a match is filled only by the winner of the match
  below it, who is then not on the way any more; so whoever goes on finds the side free (`SideIsFree`).
  A redraw deletes no completed match (`Fits`), so who has lost stays known, and the pairs of a draw are distinct
  and disjoint (`DrawPairs`). `PromptWinners` is needed: see `OnePlaceAtATime` above.

The only assumptions are the named ones of the modules (`MatchPlayAssumption`, `VenueAssumption`,
`QueueAssumption`, `DrainAssumption`, `CupEntryAssumption`, `WebSessionAssumption`, `LiveNoticesAssumption`,
`BuybacksAssumption`, `BracketAssumption`): types of the constants, finite sets of players, a largest field (the
counts are INT columns), that the "none" values are none of the others, and that the bell's request does not sign
out. Theorems that need more of the constants say so as a hypothesis: `PromptDrain`, `PeopleOnly`,
`NoneReopened`, `OneCheckout`, `PromptWinners`. Each is true of the run that checks the same property, and TLC refutes the
property, or the code is known to break it, without it.

Every safety and action property that a run checks is proved, and so is the refinement of `MatchContract`. Only
model-checked is liveness (`MatchEnds`, `PendingEnds`, `EveryonePlays`, `WaitersMeet`, `NobodyLeftWaiting`,
`RunsToTheEnd`, `RequestsSettle`, `NoticeShown`, `BracketEndsUnlessTaken`), because the prover has no rules for
fairness and ENABLED.

## 5. Plan

Each module is written to be proved about (parameters as constants, an action per operation, no
RECURSIVE operator). To prove next:

1. `Buybacks` with rows reopened by hand: how many grants a payment can then be worth.
2. `MatchPlay` with the lifecycle sweep beside the round's closing and prompt handlers: TLC finds `CountedOnce` and
   `QueuedMayPlay` kept there, though not `PlayedMatchStands`; the sweep of unplayed slots breaks `CountedOnce` too.
3. `Bracket`: that a bracket of a power of two in which every winner goes on is never redrawn.

To model next: compositions of match play with the queue and with the slot, so that expiry by an
old scan, requeue before the commit and the seats of a lost match are seen from both sides; and the
connection pool shared by handlers that take two connections.

## 6. Not modelled

- Solo targets. `submitSoloTarget` updates the participant row and then the queue hash; pairing reads the
  hash, clears the row and deletes the hash. Whichever way they interleave something is lost: an innings
  acknowledged after pairing read the hash is cleared with the row; a hash written after the `DEL` is
  an orphan; one written after the round's sync carries an innings of the old round; the enroller
  writes back a copy it read earlier. No promise about a solo innings is left to check.
- The connection pool: `decline` holds one connection and its transaction while `releaseSlotLock` asks
  the same pool of ten for another, with no time limit.
- Rate limiting and authorization: guards of a single request over a counter. Suspension, revocation by
  an administrator and the link code of a headset (a get and a delete).
- Edits by hand of results, rounds, slots and users; deletion of tournaments; the recount of a slot; a
  corrected result of a bracket match that was played.
- The order of the ranking within the tiers allowed, ratings as numbers, the bot's innings, the
  alignment of play windows and the search among slots.
- Geo and venue lookups (third-party or read-only); the pages of the web client other than its API client,
  socket, bell and the administrator's tournament page: they render what the API answers.
- The schema beyond the constraints that bite (unique indexes, the check on the players of a match,
  row locks), seeds, quality-assurance and deployment scripts, and everything about text, layout and logging.

About half of the implementation is web pages, schema, seeds and scripts, which is why the mapped share of lines is
small although the handlers that change the state of a tournament are nearly all in a module.
