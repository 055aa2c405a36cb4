---------------------------- MODULE VenueSlots ----------------------------
(***************************************************************************)
(* One time slot of a venue: its seats, the bookings that fill them, the   *)
(* status column that guards it, and the Redis key beside it               *)
(* (bookings.service.ts, slot-lock.ts of the API and the worker).  Three   *)
(* kinds of process want its seats: players who book or cancel, the pairing*)
(* job that anchors a match to the slot (pair-players.job.ts), and the     *)
(* confirmation of an open match (matches.service.ts, expire-matches).     *)
(*                                                                         *)
(* The slot row is locked for update by every transaction that writes it,  *)
(* so such a transaction is one step; the Redis key is written outside of  *)
(* it, and a lock for an open match outlives its transaction by minutes.   *)
(***************************************************************************)
EXTENDS Integers, FiniteSets

CONSTANTS
  Users,      \* players
  Capacity,   \* max_capacity of the slot
  Matches,    \* identities of matches that can be anchored to it
  NoMatch,    \* the Redis key is not set
  InitialVr,  \* the players who own a headset at the start
  Changing    \* the players who may come to own one, or lose it

ASSUME VenueAssumption ==
  /\ IsFiniteSet(Users)
  /\ Capacity \in Nat \ {0}
  /\ NoMatch \notin Matches
  /\ InitialVr \subseteq Users
  /\ Changing \subseteq Users

VARIABLES
  slotStatus, booked,  \* time_slots.status and booked_count
  booking,             \* the row of bookings for each player, if there is one
  key,                 \* Redis slot lock: the match it was set for
  time,                \* where the clock stands relative to the slot
  hasVr,               \* users.has_vr_headset
  window,              \* the play window each player entered their round with
  stage,               \* a pairing attempt, then the status of its match
  players, seats, cup, \* who plays, who takes a seat here, tournament or open match
  confirms, old,       \* Redis confirmations; the match is five minutes old
  task                 \* a decline or a sweep that is under way for the match

slot == <<slotStatus, booked, booking, key>>
people == <<hasVr, window>>
deal == <<players, seats, cup>>
vars == <<slotStatus, booked, booking, key, time, hasVr, window, stage,
          players, seats, cup, confirms, old, task>>

Attempt == {"claiming", "reserving", "seating"}
OpenMatch == {"pending", "confirmed"}
Stage == {"free"} \cup Attempt \cup OpenMatch \cup {"played", "ended"}

Seated == {u \in Users : booking[u] = "confirmed"}

TypeOK ==
  /\ slotStatus \in {"available", "locked", "full"}
  /\ booked \in Nat
  /\ booking \in [Users -> {"none", "confirmed", "cancelled"}]
  /\ key \in Matches \cup {NoMatch}
  /\ time \in {"before", "running", "over"}
  /\ hasVr \in [Users -> BOOLEAN]
  /\ window \in [Users -> {"none", "booked", "home", "elsewhere"}]
  /\ stage \in [Matches -> Stage]
  /\ players \in [Matches -> SUBSET Users]
  /\ seats \in [Matches -> SUBSET Users]
  /\ cup \in [Matches -> BOOLEAN]
  /\ confirms \in [Matches -> SUBSET Users]
  /\ old \in [Matches -> BOOLEAN]
  /\ task \in [Matches -> SUBSET {"decline", "sweep"}]

Init ==
  /\ slotStatus = "available" /\ booked = 0
  /\ booking = [u \in Users |-> "none"]
  /\ key = NoMatch
  /\ time = "before"
  /\ hasVr = [u \in Users |-> u \in InitialVr]
  /\ window = [u \in Users |-> "none"]
  /\ stage = [m \in Matches |-> "free"]
  /\ players = [m \in Matches |-> {}]
  /\ seats = [m \in Matches |-> {}]
  /\ cup = [m \in Matches |-> FALSE]
  /\ confirms = [m \in Matches |-> {}]
  /\ old = [m \in Matches |-> FALSE]
  /\ task = [m \in Matches |-> {}]

----------------------------------------------------------------------------
(* Bookings.                                                               *)

\* Mutant of StatusFor: a status the slot_status type does not have.
StatusBooked(count) == IF count >= Capacity THEN "booked" ELSE "available"

StatusFor(count) == IF count >= Capacity THEN "full" ELSE "available"

\* BookingsService.create.  The index on (user, slot) refuses a second row, also
\* when the first one was cancelled.
Book(u) ==
  /\ booked < Capacity
  /\ slotStatus # "locked"
  /\ time = "before"
  /\ booking[u] = "none"
  /\ booking' = [booking EXCEPT ![u] = "confirmed"]
  /\ booked' = booked + 1
  /\ slotStatus' = StatusFor(booked + 1)
  /\ UNCHANGED <<key, time, people, stage, deal, confirms, old, task>>

\* Mutant of Freed: a cancellation gives the seat back but leaves the status.
StillAsItWas == slotStatus

\* Whatever the status was, also `locked`, a cancellation makes it available.
Freed == "available"

\* BookingsService.cancel.
Cancel(u) ==
  /\ booking[u] = "confirmed"
  /\ booking' = [booking EXCEPT ![u] = "cancelled"]
  /\ booked' = IF booked > 0 THEN booked - 1 ELSE 0
  /\ slotStatus' = Freed
  /\ UNCHANGED <<key, time, people, stage, deal, confirms, old, task>>

\* TournamentsService.enter: a headset owner only takes the window, a venue
\* player must hold the seat that ensureBooking found or made.
EnterHere(u) ==
  /\ IF hasVr[u] THEN time # "over" ELSE time = "before" /\ booking[u] = "confirmed"
  /\ window' = [window EXCEPT ![u] = IF hasVr[u] THEN "home" ELSE "booked"]
  /\ UNCHANGED <<slot, time, hasVr, stage, deal, confirms, old, task>>

EnterElsewhere(u) ==
  /\ window' = [window EXCEPT ![u] = "elsewhere"]
  /\ UNCHANGED <<slot, time, hasVr, stage, deal, confirms, old, task>>

\* The profile page: a player gets a headset, or no longer has one.
ChangeHeadset(u) ==
  /\ u \in Changing
  /\ hasVr' = [hasVr EXCEPT ![u] = ~@]
  /\ UNCHANGED <<slot, time, window, stage, deal, confirms, old, task>>

----------------------------------------------------------------------------
(* Seats taken for a match.                                                *)

AtHome(P) == {u \in P : hasVr[u]}
Here(P) == {u \in P : window[u] \in {"booked", "home"}}

\* The slot two players are anchored to is this one: the window of the player who
\* turns up in person wins; otherwise the earlier of the two, which may be either.
Anchored(P) ==
  /\ Here(P) # {}
  /\ (\E u \in P : hasVr[u]) /\ (\E u \in P : ~hasVr[u]) =>
       \A u \in P : ~hasVr[u] => u \in Here(P) \/ window[u] = "none"

\* Neither has a window and one of them needs a seat: findAvailableSlot.
Found(P) ==
  /\ \A u \in P : window[u] = "none"
  /\ slotStatus = "available" /\ booked < Capacity /\ time = "before"

\* Only who turns up in person takes a seat, and only in the window they chose or
\* were given.
Attending(P) == {u \in P : ~hasVr[u] /\ window[u] # "elsewhere"}

HoldsSeat(u) == window[u] = "booked" /\ booking[u] = "confirmed"

\* Mutant of NewSeats: everybody who attends is counted, with or without a seat.
SeatsForAll(S) == S

\* Those of S that a booking is inserted for.
NewSeats(S) == {u \in S : booking[u] # "confirmed"}

\* The insert is refused: a cancelled booking still occupies the unique index.
Refused(S) == \E u \in S : booking[u] = "cancelled"

\* finalizeMatchSlotBookings: no look at the capacity, nor at whose key it was.
Seat(S) ==
  /\ booking' = [u \in Users |-> IF u \in S THEN "confirmed" ELSE booking[u]]
  /\ booked' = booked + Cardinality(NewSeats(S))
  /\ slotStatus' = StatusFor(booked')
  /\ key' = NoMatch

----------------------------------------------------------------------------
(* pairInQueue, from the moment two queued players have been chosen.       *)

Busy(u) == \E m \in Matches : stage[m] \in OpenMatch /\ u \in players[m]

Attempted(m, P, t) ==
  /\ players' = [players EXCEPT ![m] = P]
  /\ seats' = [seats EXCEPT ![m] = IF t THEN Attending(P) ELSE {}]
  /\ cup' = [cup EXCEPT ![m] = t]

\* The reads of the pairing transaction.  An open match carries no windows; the
\* slot of a tournament match is locked unless a player already holds a seat.
PairBegins(m, P, t) ==
  /\ stage[m] = "free"
  /\ \A u \in P : ~Busy(u)
  /\ \E u \in P : ~hasVr[u]
  /\ IF t THEN Found(P) \/ (Anchored(P) /\ time # "over")
          ELSE slotStatus = "available" /\ booked < Capacity /\ time = "before"
  /\ stage' = [stage EXCEPT ![m] =
                 IF t /\ \E u \in P : HoldsSeat(u) THEN "seating" ELSE "claiming"]
  /\ Attempted(m, P, t)
  /\ UNCHANGED <<slot, time, people, confirms, old, task>>

Abandon(m) ==
  /\ stage' = [stage EXCEPT ![m] = "free"]
  /\ players' = [players EXCEPT ![m] = {}]
  /\ seats' = [seats EXCEPT ![m] = {}]
  /\ cup' = [cup EXCEPT ![m] = FALSE]

\* lockSlot: SET NX on the key ...
ClaimKey(m) ==
  /\ stage[m] = "claiming"
  /\ IF key = NoMatch
     THEN /\ key' = m
          /\ stage' = [stage EXCEPT ![m] = "reserving"]
          /\ UNCHANGED deal
     ELSE Abandon(m) /\ UNCHANGED key
  /\ UNCHANGED <<slotStatus, booked, booking, time, people, confirms, old, task>>

\* ... then the row, which refuses a slot that is locked or full meanwhile.
LockRefused(m) ==
  /\ stage[m] = "reserving"
  /\ slotStatus = "locked" \/ booked >= Capacity
  /\ key' = NoMatch
  /\ Abandon(m)
  /\ UNCHANGED <<slotStatus, booked, booking, time, people, confirms, old, task>>

\* An open match keeps the slot locked until its players have confirmed.
LockForConfirmation(m) ==
  /\ stage[m] = "reserving" /\ ~cup[m]
  /\ slotStatus # "locked" /\ booked < Capacity
  /\ slotStatus' = "locked"
  /\ stage' = [stage EXCEPT ![m] = "pending"]
  /\ UNCHANGED <<booked, booking, key, time, people, deal, confirms, old, task>>

\* A tournament match is confirmed at once: its players are seated in the same
\* transaction, behind the lock just taken or beside the seat one of them holds.
SeatTournamentMatch(m) ==
  /\ cup[m]
  /\ \/ stage[m] = "reserving" /\ slotStatus # "locked" /\ booked < Capacity
     \/ stage[m] = "seating"
  /\ ~Refused(seats[m])
  /\ IF seats[m] = {}
     THEN /\ UNCHANGED <<booked, booking, key>>
          /\ slotStatus' = IF stage[m] = "reserving" THEN "locked" ELSE slotStatus
     ELSE Seat(seats[m])
  /\ stage' = [stage EXCEPT ![m] = "confirmed"]
  /\ UNCHANGED <<time, people, deal, confirms, old, task>>

\* The insert fails, or the worker dies: everything rolls back but the key.
PairFails(m) ==
  /\ stage[m] \in Attempt
  /\ Abandon(m)
  /\ UNCHANGED <<slot, time, people, confirms, old, task>>

\* The key lapses after five minutes, whoever set it.
KeyLapses ==
  /\ key # NoMatch
  /\ key' = NoMatch
  /\ UNCHANGED <<slotStatus, booked, booking, time, people, stage, deal,
                 confirms, old, task>>

----------------------------------------------------------------------------
(* POST /matches/:id/confirm                                               *)

\* Everybody without a headset, as the users table has it by now.
InPerson(m) == players[m] \ AtHome(players[m])

Confirmable(m) == stage[m] = "pending" /\ "decline" \notin task[m]

\* The confirmation is written to Redis, under the lock of the match row ...
ConfirmFirst(m, u) ==
  /\ Confirmable(m)
  /\ u \in players[m] \ confirms[m]
  /\ confirms[m] \cup {u} # players[m]
  /\ confirms' = [confirms EXCEPT ![m] = @ \cup {u}]
  /\ UNCHANGED <<slot, time, people, stage, deal, old, task>>

\* ... and the second one takes the seats and confirms the match.
ConfirmSecond(m, u) ==
  /\ Confirmable(m)
  /\ u \in players[m] \ confirms[m]
  /\ confirms[m] \cup {u} = players[m]
  /\ ~Refused(InPerson(m))
  /\ IF InPerson(m) = {} THEN UNCHANGED slot ELSE Seat(InPerson(m))
  /\ stage' = [stage EXCEPT ![m] = "confirmed"]
  /\ seats' = [seats EXCEPT ![m] = InPerson(m)]
  /\ confirms' = [confirms EXCEPT ![m] = {}]
  /\ old' = [old EXCEPT ![m] = FALSE]
  /\ UNCHANGED <<time, people, players, cup, task>>

\* The API dies after writing the second confirmation and before the COMMIT: a
\* retry finds it there and returns without confirming anything.
ConfirmLost(m, u) ==
  /\ Confirmable(m)
  /\ u \in players[m] \ confirms[m]
  /\ confirms' = [confirms EXCEPT ![m] = @ \cup {u}]
  /\ UNCHANGED <<slot, time, people, stage, deal, old, task>>

----------------------------------------------------------------------------
(* A match that ends without being played.                                 *)

\* Mutant of Released: the slot is only unlocked while the key is still there.
ReleasedWithKey == IF slotStatus = "locked" /\ key # NoMatch THEN "available" ELSE slotStatus

\* Cancelled or expired: nothing reads the rest of its row again.
Ended(m) ==
  /\ stage' = [stage EXCEPT ![m] = "ended"]
  /\ players' = [players EXCEPT ![m] = {}]
  /\ seats' = [seats EXCEPT ![m] = {}]
  /\ cup' = [cup EXCEPT ![m] = FALSE]
  /\ confirms' = [confirms EXCEPT ![m] = {}]
  /\ old' = [old EXCEPT ![m] = FALSE]

\* releaseSlotLock: whoever locked it.
Released == IF slotStatus = "locked" THEN "available" ELSE slotStatus

\* decline, and withdraw for an opponent who has not batted: the match row is
\* locked, and the key goes first ...
DeclineBegins(m) ==
  /\ stage[m] \in OpenMatch /\ "decline" \notin task[m]
  /\ task' = [task EXCEPT ![m] = @ \cup {"decline"}]
  /\ key' = NoMatch
  /\ UNCHANGED <<slotStatus, booked, booking, time, people, stage, deal, confirms, old>>

\* ... then the slot row, on a connection of its own, then the COMMIT.
DeclineCommits(m) ==
  /\ "decline" \in task[m]
  /\ slotStatus' = Released
  /\ Ended(m)
  /\ task' = [task EXCEPT ![m] = @ \ {"decline"}]
  /\ UNCHANGED <<booked, booking, key, time, people>>

\* The process dies in between: the match is as it was, the lock may be gone.
DeclineDies(m) ==
  /\ "decline" \in task[m]
  /\ slotStatus' \in {slotStatus, Released}
  /\ task' = [task EXCEPT ![m] = @ \ {"decline"}]
  /\ UNCHANGED <<booked, booking, key, time, people, stage, deal, confirms, old>>

\* Mutant of Unconfirmed: only if neither player confirms.
NeitherConfirmed(m) == stage[m] = "pending" /\ old[m] /\ confirms[m] = {}

Unconfirmed(m) == stage[m] = "pending" /\ old[m]

\* expire-matches reads the unconfirmed matches of five minutes ago, and
\* expire-unplayed-slots the open ones whose slot is over, without a lock ...
SweepScans(m) ==
  /\ "sweep" \notin task[m]
  /\ Unconfirmed(m) \/ (stage[m] = "confirmed" /\ time = "over")
  /\ task' = [task EXCEPT ![m] = @ \cup {"sweep"}]
  /\ UNCHANGED <<slot, time, people, stage, deal, confirms, old>>

\* ... and ends each by id, whatever has become of it, together with the lock.
SweepExpires(m) ==
  /\ task[m] = {"sweep"}
  /\ Ended(m)
  /\ slotStatus' = Released
  /\ key' = NoMatch
  /\ task' = [task EXCEPT ![m] = {}]
  /\ UNCHANGED <<booked, booking, time, people>>

\* The match is played to its end, which leaves the slot alone.
Played(m) ==
  /\ stage[m] = "confirmed" /\ "decline" \notin task[m] /\ time # "before"
  /\ stage' = [stage EXCEPT ![m] = "played"]
  /\ UNCHANGED <<slot, time, people, deal, confirms, old, task>>

\* An administrator unlocks the slot: releaseSlotLock, then the status again.
AdminUnlock ==
  /\ slotStatus' = "available"
  /\ key' \in {key, NoMatch}
  /\ UNCHANGED <<booked, booking, time, people, stage, deal, confirms, old, task>>

----------------------------------------------------------------------------
(* Time.                                                                   *)

Ages(m) ==
  /\ stage[m] = "pending" /\ ~old[m]
  /\ old' = [old EXCEPT ![m] = TRUE]
  /\ UNCHANGED <<slot, time, people, stage, deal, confirms, task>>

\* The confirmations are kept for five minutes after the last one.
ConfirmsLapse(m) ==
  /\ old[m] /\ confirms[m] # {}
  /\ confirms' = [confirms EXCEPT ![m] = {}]
  /\ UNCHANGED <<slot, time, people, stage, deal, old, task>>

ClockTicks ==
  /\ time # "over"
  /\ time' = IF time = "before" THEN "running" ELSE "over"
  /\ UNCHANGED <<slot, people, stage, deal, confirms, old, task>>

----------------------------------------------------------------------------
Player(u) ==
  Book(u) \/ Cancel(u) \/ EnterHere(u) \/ EnterElsewhere(u) \/ ChangeHeadset(u)

Pairing(m) ==
  \/ \E u, v \in Users, t \in BOOLEAN : u # v /\ PairBegins(m, {u, v}, t)
  \/ ClaimKey(m) \/ LockRefused(m) \/ LockForConfirmation(m)
  \/ SeatTournamentMatch(m) \/ PairFails(m)

Confirmation(m) ==
  \/ \E u \in Users : ConfirmFirst(m, u) \/ ConfirmSecond(m, u) \/ ConfirmLost(m, u)
  \/ DeclineBegins(m) \/ DeclineCommits(m) \/ DeclineDies(m)
  \/ SweepScans(m) \/ SweepExpires(m) \/ Played(m)
  \/ Ages(m) \/ ConfirmsLapse(m)

Next ==
  \/ \E u \in Users : Player(u)
  \/ \E m \in Matches : Pairing(m) \/ Confirmation(m)
  \/ AdminUnlock \/ KeyLapses \/ ClockTicks

Spec == Init /\ [][Next]_vars

\* The sweeps run every minute, a request that does not die goes on, and a sweep
\* that waits for the row of a match gets it in the end.
FairSpec ==
  /\ Spec
  /\ \A m \in Matches :
       /\ WF_vars(Ages(m))
       /\ WF_vars(SweepScans(m))
       /\ WF_vars(DeclineCommits(m))
       /\ SF_vars(SweepExpires(m))

----------------------------------------------------------------------------
(* Properties.                                                             *)

\* The cached booked_count is the number of confirmed bookings, although four
\* handlers of two processes write it from what they read (create, cancel,
\* finalizeMatchSlotBookings for a pairing and for a confirmation).
SeatsCounted == booked = Cardinality(Seated)

\* A slot that says it is full has no seat left: no order of bookings, matches
\* and cancellations leaves `full` behind on a slot that has one.
FullMeansFull == slotStatus = "full" => booked >= Capacity

\* A lock is never left behind by nobody: a locked slot has a match that waits
\* for its players to confirm, or an open match that was confirmed when nobody
\* was left to turn up (pair-players and confirm, which finalize or release).
LockAccounted ==
  slotStatus = "locked" =>
    \E m \in Matches :
      \/ stage[m] = "pending"
      \/ stage[m] \in {"confirmed", "played"} /\ ~cup[m] /\ seats[m] = {}

\* An open match does not wait for ever: confirmed, declined or swept away.
PendingEnds ==
  \A m \in Matches : stage[m] = "pending" ~> stage[m] # "pending"

----------------------------------------------------------------------------
(* The inductive invariant behind LockAccounted.                           *)

\* Only open matches wait for confirmations, and a tournament match on its way to
\* this slot has somebody to seat here.
LockInv ==
  \A m \in Matches :
    /\ stage[m] = "pending" => ~cup[m]
    /\ stage[m] \in Attempt /\ cup[m] => seats[m] # {}

----------------------------------------------------------------------------
(* Statements of the documentation that the code does not keep.            *)

\* HANDOVER.md, "venue slot booking with no overbooking".
NoOverbooking == booked <= Capacity

\* pair-players.job.ts on what takes a slot out of `locked`: a slot is locked
\* only while a match waits for its confirmations.
LockedOnlyWhilePending ==
  slotStatus = "locked" => \E m \in Matches : stage[m] = "pending"
=============================================================================
