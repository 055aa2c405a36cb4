------------------------- MODULE VenueSlotsProofs -------------------------
(***************************************************************************)
(* Proofs about VenueSlots for any number of players, seats and matches:   *)
(* type correctness, that the cached count and the cached status agree     *)
(* with the bookings, and that a locked slot has a match to account for it.*)
(***************************************************************************)
EXTENDS VenueSlots, FiniteSetTheorems, TLAPS

----------------------------------------------------------------------------
(* Lemmas about the operators.                                             *)

LEMMA StatusTypes ==
  ASSUME NEW n \in Nat
  PROVE  /\ StatusFor(n) \in {"available", "full"}
         /\ StatusFor(n) = "full" => n >= Capacity
BY VenueAssumption DEF StatusFor

LEMMA ReleasedTypes ==
  ASSUME TypeOK
  PROVE  /\ Released \in {"available", "full"}
         /\ Released = "full" => slotStatus = "full"
BY DEF TypeOK, Released

\* Booked seats are a finite set, and so is what is added for a match.
LEMMA SeatedFinite ==
  /\ IsFiniteSet(Seated)
  /\ \A S \in SUBSET Users : IsFiniteSet(NewSeats(S)) /\ Cardinality(NewSeats(S)) \in Nat
<1>1. Seated \in SUBSET Users
  BY DEF Seated
<1>2. \A S \in SUBSET Users : NewSeats(S) \in SUBSET Users
  BY DEF NewSeats
<1>3. QED
  BY <1>1, <1>2, VenueAssumption, FS_Subset, FS_CardinalityType

\* A match takes a seat for exactly those who had none.
LEMMA SeatCounts ==
  ASSUME TypeOK, SeatsCounted, NEW S \in SUBSET Users, Seat(S)
  PROVE  SeatsCounted'
<1>1. Seated' = Seated \cup NewSeats(S)
  BY DEF Seat, Seated, NewSeats, TypeOK
<1>2. Seated \cap NewSeats(S) = {}
  BY DEF Seated, NewSeats
<1>3. IsFiniteSet(Seated) /\ IsFiniteSet(NewSeats(S)) /\ Cardinality(NewSeats(S)) \in Nat
  BY SeatedFinite
<1>4. Cardinality(Seated \cup NewSeats(S)) =
        Cardinality(Seated) + Cardinality(NewSeats(S)) - Cardinality(Seated \cap NewSeats(S))
  BY <1>3, FS_Union
<1>5. Cardinality(Seated \cap NewSeats(S)) = 0
  BY <1>2, FS_EmptySet
<1>6. Cardinality(Seated) \in Nat
  BY <1>3, FS_CardinalityType
<1>7. booked' = booked + Cardinality(NewSeats(S))
  BY DEF Seat
<1>8. booked = Cardinality(Seated)
  BY DEF SeatsCounted
<1>9. booked' = Cardinality(Seated')
  BY <1>1, <1>3, <1>4, <1>5, <1>6, <1>7, <1>8
<1>10. QED
  BY <1>9 DEF SeatsCounted

\* Whoever has to come has a window here or none: a tournament match that gets as
\* far as this slot has somebody to seat.
LEMMA AttendingSomebody ==
  ASSUME NEW P, \E u \in P : ~hasVr[u], Found(P) \/ Anchored(P)
  PROVE  Attending(P) # {}
<1>1. CASE Found(P)
  BY <1>1 DEF Found, Attending
<1>2. CASE Anchored(P) /\ \E u \in P : hasVr[u]
  BY <1>2 DEF Anchored, Attending, Here
<1>3. CASE Anchored(P) /\ ~(\E u \in P : hasVr[u])
  BY <1>3 DEF Anchored, Attending, Here
<1>4. QED
  BY <1>1, <1>2, <1>3

LEMMA SeatTypes ==
  ASSUME TypeOK, NEW S \in SUBSET Users, Seat(S)
  PROVE  /\ booked' \in Nat
         /\ booking' \in [Users -> {"none", "confirmed", "cancelled"}]
         /\ key' \in Matches \cup {NoMatch}
         /\ slotStatus' \in {"available", "full"}
         /\ slotStatus' = "full" => booked' >= Capacity
<1>1. booked' \in Nat
  BY SeatedFinite DEF Seat, TypeOK
<1>2. booking' \in [Users -> {"none", "confirmed", "cancelled"}]
  BY DEF Seat, TypeOK
<1>3. slotStatus' = StatusFor(booked') /\ key' = NoMatch
  BY DEF Seat
<1>4. QED
  BY <1>1, <1>2, <1>3, StatusTypes

----------------------------------------------------------------------------
(* Type correctness.                                                       *)

LEMMA PlayerTypes ==
  ASSUME TypeOK, NEW u \in Users, Player(u)
  PROVE  TypeOK'
<1> USE DEF slot, people, deal
<1>1. CASE Book(u)
  <2>1. StatusFor(booked + 1) \in {"available", "full"}
    BY StatusTypes DEF TypeOK
  <2>2. QED
    BY <1>1, <2>1 DEF Book, TypeOK
<1>2. CASE Cancel(u)
  BY <1>2 DEF Cancel, Freed, TypeOK
<1>3. CASE EnterHere(u)
  BY <1>3 DEF EnterHere, TypeOK
<1>4. CASE EnterElsewhere(u)
  BY <1>4 DEF EnterElsewhere, TypeOK
<1>5. CASE ChangeHeadset(u)
  BY <1>5 DEF ChangeHeadset, TypeOK
<1>6. QED
  BY <1>1, <1>2, <1>3, <1>4, <1>5 DEF Player

LEMMA AbandonTypes ==
  ASSUME TypeOK, NEW m \in Matches, Abandon(m)
  PROVE  /\ stage' \in [Matches -> Stage]
         /\ players' \in [Matches -> SUBSET Users]
         /\ seats' \in [Matches -> SUBSET Users]
         /\ cup' \in [Matches -> BOOLEAN]
BY DEF TypeOK, Abandon, Stage

LEMMA EndedTypes ==
  ASSUME TypeOK, NEW m \in Matches, Ended(m)
  PROVE  /\ stage' \in [Matches -> Stage]
         /\ players' \in [Matches -> SUBSET Users]
         /\ seats' \in [Matches -> SUBSET Users]
         /\ cup' \in [Matches -> BOOLEAN]
         /\ confirms' \in [Matches -> SUBSET Users]
         /\ old' \in [Matches -> BOOLEAN]
BY DEF TypeOK, Ended, Stage

LEMMA PairingTypes ==
  ASSUME TypeOK, NEW m \in Matches, Pairing(m)
  PROVE  TypeOK'
<1> USE DEF slot, people, deal
<1>1. ASSUME NEW u \in Users, NEW v \in Users, NEW t \in BOOLEAN, PairBegins(m, {u, v}, t)
      PROVE  TypeOK'
  <2>1. Attending({u, v}) \in SUBSET Users
    BY DEF Attending
  <2>2. cup' \in [Matches -> BOOLEAN]
    BY <1>1, Zenon DEF PairBegins, Attempted, TypeOK
  <2>3. /\ players' \in [Matches -> SUBSET Users]
        /\ seats' \in [Matches -> SUBSET Users]
    BY <1>1, <2>1 DEF PairBegins, Attempted, TypeOK
  <2>4. stage' \in [Matches -> Stage]
    BY <1>1 DEF PairBegins, TypeOK, Stage, Attempt
  <2>5. UNCHANGED <<slotStatus, booked, booking, key, time, hasVr, window, confirms, old, task>>
    BY <1>1 DEF PairBegins
  <2>6. QED
    BY <2>2, <2>3, <2>4, <2>5 DEF TypeOK
<1>2. CASE ClaimKey(m)
  BY <1>2, AbandonTypes DEF ClaimKey, TypeOK, Stage, Attempt
<1>3. CASE LockRefused(m)
  BY <1>3, AbandonTypes DEF LockRefused, TypeOK
<1>4. CASE LockForConfirmation(m)
  BY <1>4 DEF LockForConfirmation, TypeOK, Stage, OpenMatch
<1>5. CASE SeatTournamentMatch(m)
  <2>1. seats[m] \in SUBSET Users
    BY DEF TypeOK
  <2>2. CASE seats[m] = {}
    BY <1>5, <2>2 DEF SeatTournamentMatch, TypeOK, Stage, OpenMatch
  <2>3. CASE seats[m] # {}
    BY <1>5, <2>1, <2>3, SeatTypes DEF SeatTournamentMatch, TypeOK, Stage, OpenMatch
  <2>4. QED
    BY <2>2, <2>3
<1>6. CASE PairFails(m)
  BY <1>6, AbandonTypes DEF PairFails, TypeOK
<1>7. QED
  BY <1>1, <1>2, <1>3, <1>4, <1>5, <1>6 DEF Pairing

LEMMA ConfirmationTypes ==
  ASSUME TypeOK, NEW m \in Matches, Confirmation(m)
  PROVE  TypeOK'
<1> USE DEF slot, people, deal
<1>1. ASSUME NEW u \in Users, ConfirmFirst(m, u)
      PROVE  TypeOK'
  BY <1>1 DEF ConfirmFirst, TypeOK
<1>2. ASSUME NEW u \in Users, ConfirmSecond(m, u)
      PROVE  TypeOK'
  <2>1. InPerson(m) \in SUBSET Users
    BY DEF TypeOK, InPerson
  <2>2. /\ seats' \in [Matches -> SUBSET Users]
        /\ confirms' \in [Matches -> SUBSET Users]
        /\ stage' \in [Matches -> Stage]
    BY <1>2, <2>1 DEF ConfirmSecond, TypeOK, Stage, OpenMatch
  <2>3. old' \in [Matches -> BOOLEAN]
    BY <1>2, Zenon DEF ConfirmSecond, TypeOK
  <2>4. /\ slotStatus' \in {"available", "locked", "full"}
        /\ booked' \in Nat
        /\ booking' \in [Users -> {"none", "confirmed", "cancelled"}]
        /\ key' \in Matches \cup {NoMatch}
    BY <1>2, <2>1, SeatTypes DEF ConfirmSecond, TypeOK
  <2>5. UNCHANGED <<time, hasVr, window, players, cup, task>>
    BY <1>2 DEF ConfirmSecond
  <2>6. QED
    BY <2>2, <2>3, <2>4, <2>5 DEF TypeOK
<1>3. ASSUME NEW u \in Users, ConfirmLost(m, u)
      PROVE  TypeOK'
  BY <1>3 DEF ConfirmLost, TypeOK
<1>4. CASE DeclineBegins(m)
  BY <1>4 DEF DeclineBegins, TypeOK
<1>5. CASE DeclineCommits(m)
  BY <1>5, EndedTypes, ReleasedTypes DEF DeclineCommits, TypeOK
<1>6. CASE DeclineDies(m)
  BY <1>6, ReleasedTypes DEF DeclineDies, TypeOK
<1>7. CASE SweepScans(m)
  BY <1>7 DEF SweepScans, TypeOK
<1>8. CASE SweepExpires(m)
  BY <1>8, EndedTypes, ReleasedTypes DEF SweepExpires, TypeOK
<1>9. CASE Played(m)
  BY <1>9 DEF Played, TypeOK, Stage
<1>10. CASE Ages(m)
  BY <1>10 DEF Ages, TypeOK
<1>11. CASE ConfirmsLapse(m)
  BY <1>11 DEF ConfirmsLapse, TypeOK
<1>12. QED
  BY <1>1, <1>2, <1>3, <1>4, <1>5, <1>6, <1>7, <1>8, <1>9, <1>10, <1>11 DEF Confirmation

LEMMA TypesKept == TypeOK /\ [Next]_vars => TypeOK'
<1> SUFFICES ASSUME TypeOK, [Next]_vars PROVE TypeOK'
  OBVIOUS
<1>1. ASSUME NEW u \in Users, Player(u) PROVE TypeOK'
  BY <1>1, PlayerTypes
<1>2. ASSUME NEW m \in Matches, Pairing(m) \/ Confirmation(m) PROVE TypeOK'
  BY <1>2, PairingTypes, ConfirmationTypes
<1>3. CASE AdminUnlock
  BY <1>3 DEF AdminUnlock, TypeOK, people, deal
<1>4. CASE KeyLapses
  BY <1>4 DEF KeyLapses, TypeOK, people, deal
<1>5. CASE ClockTicks
  BY <1>5 DEF ClockTicks, TypeOK, slot, people, deal
<1>6. CASE UNCHANGED vars
  BY <1>6 DEF vars, TypeOK
<1>7. QED
  BY <1>1, <1>2, <1>3, <1>4, <1>5, <1>6 DEF Next

LEMMA InitTypes == Init => TypeOK
<1> SUFFICES ASSUME Init PROVE TypeOK
  OBVIOUS
<1>1. hasVr \in [Users -> BOOLEAN] /\ cup \in [Matches -> BOOLEAN] /\ old \in [Matches -> BOOLEAN]
  BY DEF Init
<1>2. QED
  BY <1>1 DEF Init, TypeOK, Stage

\* Every reachable state of a slot is well typed, for any players, seats and matches.
THEOREM SlotTypes == Spec => []TypeOK
<1>1. QED
  BY InitTypes, TypesKept, PTL DEF Spec

----------------------------------------------------------------------------
(* The cached count.                                                       *)

\* A booking adds one, a cancellation takes one away.
LEMMA PlayerCounts ==
  ASSUME TypeOK, SeatsCounted, NEW u \in Users, Player(u)
  PROVE  SeatsCounted'
<1> USE DEF slot, people, deal
<1>1. IsFiniteSet(Seated) /\ Cardinality(Seated) \in Nat /\ booked = Cardinality(Seated)
  BY SeatedFinite, FS_CardinalityType DEF SeatsCounted
<1>2. CASE Book(u)
  <2>1. Seated' = Seated \cup {u} /\ u \notin Seated
    BY <1>2 DEF Book, Seated, TypeOK
  <2>2. Cardinality(Seated \cup {u}) = Cardinality(Seated) + 1
    BY <1>1, <2>1, FS_AddElement
  <2>3. booked' = booked + 1
    BY <1>2 DEF Book
  <2>4. QED
    BY <1>1, <2>1, <2>2, <2>3 DEF SeatsCounted
<1>3. CASE Cancel(u)
  <2>1. Seated' = Seated \ {u} /\ u \in Seated
    BY <1>3 DEF Cancel, Seated, TypeOK
  <2>2. Cardinality(Seated \ {u}) = Cardinality(Seated) - 1
    BY <1>1, <2>1, FS_RemoveElement
  <2>3. Cardinality(Seated) # 0
    BY <1>1, <2>1, FS_EmptySet
  <2>4. booked' = booked - 1
    BY <1>1, <1>3, <2>3 DEF Cancel
  <2>5. QED
    BY <1>1, <2>1, <2>2, <2>4 DEF SeatsCounted
<1>4. CASE EnterHere(u) \/ EnterElsewhere(u) \/ ChangeHeadset(u)
  <2>1. booked' = booked /\ booking' = booking
    BY <1>4 DEF EnterHere, EnterElsewhere, ChangeHeadset
  <2>2. Seated' = Seated
    BY <2>1 DEF Seated
  <2>3. QED
    BY <2>1, <2>2 DEF SeatsCounted
<1>5. QED
  BY <1>2, <1>3, <1>4 DEF Player

\* Of all other steps only those that seat a match's players touch the bookings.
LEMMA MatchCounts ==
  ASSUME TypeOK, SeatsCounted, NEW m \in Matches, Pairing(m) \/ Confirmation(m)
  PROVE  SeatsCounted'
<1> USE DEF slot, people, deal
<1>1. ASSUME UNCHANGED <<booked, booking>> PROVE SeatsCounted'
  <2>1. Seated' = Seated /\ booked' = booked
    BY <1>1 DEF Seated
  <2>2. QED
    BY <2>1 DEF SeatsCounted
<1>2. CASE SeatTournamentMatch(m)
  <2>1. seats[m] \in SUBSET Users
    BY DEF TypeOK
  <2>2. CASE seats[m] = {}
    BY <1>1, <1>2, <2>2 DEF SeatTournamentMatch
  <2>3. CASE seats[m] # {}
    BY <1>2, <2>1, <2>3, SeatCounts DEF SeatTournamentMatch
  <2>4. QED
    BY <2>2, <2>3
<1>3. ASSUME NEW u \in Users, ConfirmSecond(m, u) PROVE SeatsCounted'
  <2>1. InPerson(m) \in SUBSET Users
    BY DEF TypeOK, InPerson
  <2>2. CASE InPerson(m) = {}
    BY <1>1, <1>3, <2>2 DEF ConfirmSecond
  <2>3. CASE InPerson(m) # {}
    BY <1>3, <2>1, <2>3, SeatCounts DEF ConfirmSecond
  <2>4. QED
    BY <2>2, <2>3
<1>4. ASSUME NEW u \in Users, ConfirmFirst(m, u) \/ ConfirmLost(m, u) PROVE SeatsCounted'
  BY <1>1, <1>4 DEF ConfirmFirst, ConfirmLost
<1>5. ASSUME NEW u \in Users, NEW v \in Users, NEW t \in BOOLEAN, PairBegins(m, {u, v}, t)
      PROVE  SeatsCounted'
  BY <1>1, <1>5 DEF PairBegins
<1>6. CASE ClaimKey(m) \/ LockRefused(m) \/ LockForConfirmation(m) \/ PairFails(m)
  BY <1>1, <1>6 DEF ClaimKey, LockRefused, LockForConfirmation, PairFails
<1>7. CASE DeclineBegins(m) \/ DeclineCommits(m) \/ DeclineDies(m)
  BY <1>1, <1>7 DEF DeclineBegins, DeclineCommits, DeclineDies
<1>8. CASE SweepScans(m) \/ SweepExpires(m) \/ Played(m) \/ Ages(m) \/ ConfirmsLapse(m)
  BY <1>1, <1>8 DEF SweepScans, SweepExpires, Played, Ages, ConfirmsLapse
<1>9. QED
  BY <1>2, <1>3, <1>4, <1>5, <1>6, <1>7, <1>8 DEF Pairing, Confirmation

LEMMA CountKept == TypeOK /\ SeatsCounted /\ [Next]_vars => SeatsCounted'
<1> SUFFICES ASSUME TypeOK, SeatsCounted, [Next]_vars PROVE SeatsCounted'
  OBVIOUS
<1>1. ASSUME NEW u \in Users, Player(u) PROVE SeatsCounted'
  BY <1>1, PlayerCounts
<1>2. ASSUME NEW m \in Matches, Pairing(m) \/ Confirmation(m) PROVE SeatsCounted'
  BY <1>2, MatchCounts
<1>3. CASE AdminUnlock \/ KeyLapses \/ ClockTicks \/ UNCHANGED vars
  <2>1. booked' = booked /\ booking' = booking
    BY <1>3 DEF AdminUnlock, KeyLapses, ClockTicks, vars, slot
  <2>2. Seated' = Seated
    BY <2>1 DEF Seated
  <2>3. QED
    BY <2>1, <2>2 DEF SeatsCounted
<1>4. QED
  BY <1>1, <1>2, <1>3 DEF Next

\* The cached booked_count is the number of confirmed bookings, for any players,
\* capacity and matches, although create, cancel and the seating of a match each
\* write it from what they read.
THEOREM CountIsExact == Spec => []SeatsCounted
<1>1. Init => SeatsCounted
  <2> SUFFICES ASSUME Init PROVE SeatsCounted
    OBVIOUS
  <2>1. Seated = {}
    BY DEF Init, Seated
  <2>2. QED
    BY <2>1, FS_EmptySet DEF Init, SeatsCounted
<1>2. QED
  BY <1>1, InitTypes, TypesKept, CountKept, PTL DEF Spec

----------------------------------------------------------------------------
(* The status `full`.                                                      *)

\* Whoever writes the status writes it from the count of that same step, or makes
\* the slot available, or locks it.
LEMMA FullKept == TypeOK /\ FullMeansFull /\ [Next]_vars => FullMeansFull'
<1> SUFFICES ASSUME TypeOK, FullMeansFull, [Next]_vars PROVE FullMeansFull'
  OBVIOUS
<1> USE DEF slot, people, deal
<1>1. ASSUME booked' = booked, slotStatus' \in {slotStatus, Released, "available", "locked"}
      PROVE  FullMeansFull'
  BY <1>1 DEF FullMeansFull, Released
<1>2. ASSUME NEW u \in Users, Player(u) PROVE FullMeansFull'
  <2>1. CASE Book(u)
    <3>1. booked + 1 \in Nat
      BY DEF TypeOK
    <3>2. QED
      BY <2>1, <3>1, StatusTypes DEF Book, FullMeansFull
  <2>2. CASE Cancel(u)
    BY <2>2 DEF Cancel, Freed, FullMeansFull
  <2>3. CASE EnterHere(u) \/ EnterElsewhere(u) \/ ChangeHeadset(u)
    BY <1>1, <2>3 DEF EnterHere, EnterElsewhere, ChangeHeadset
  <2>4. QED
    BY <1>2, <2>1, <2>2, <2>3 DEF Player
<1>3. ASSUME NEW m \in Matches, Pairing(m) PROVE FullMeansFull'
  <2>1. ASSUME NEW u \in Users, NEW v \in Users, NEW t \in BOOLEAN, PairBegins(m, {u, v}, t)
        PROVE  FullMeansFull'
    BY <1>1, <2>1 DEF PairBegins
  <2>2. CASE ClaimKey(m) \/ LockRefused(m) \/ LockForConfirmation(m) \/ PairFails(m)
    BY <1>1, <2>2 DEF ClaimKey, LockRefused, LockForConfirmation, PairFails
  <2>3. CASE SeatTournamentMatch(m)
    <3>1. seats[m] \in SUBSET Users
      BY DEF TypeOK
    <3>2. CASE seats[m] = {}
      BY <1>1, <2>3, <3>2 DEF SeatTournamentMatch
    <3>3. CASE seats[m] # {}
      BY <2>3, <3>1, <3>3, SeatTypes DEF SeatTournamentMatch, FullMeansFull
    <3>4. QED
      BY <3>2, <3>3
  <2>4. QED
    BY <1>3, <2>1, <2>2, <2>3 DEF Pairing
<1>4. ASSUME NEW m \in Matches, Confirmation(m) PROVE FullMeansFull'
  <2>1. ASSUME NEW u \in Users, ConfirmSecond(m, u) PROVE FullMeansFull'
    <3>1. InPerson(m) \in SUBSET Users
      BY DEF TypeOK, InPerson
    <3>2. CASE InPerson(m) = {}
      BY <1>1, <2>1, <3>2 DEF ConfirmSecond
    <3>3. CASE InPerson(m) # {}
      BY <2>1, <3>1, <3>3, SeatTypes DEF ConfirmSecond, FullMeansFull
    <3>4. QED
      BY <3>2, <3>3
  <2>2. ASSUME NEW u \in Users, ConfirmFirst(m, u) \/ ConfirmLost(m, u) PROVE FullMeansFull'
    BY <1>1, <2>2 DEF ConfirmFirst, ConfirmLost
  <2>3. CASE DeclineBegins(m) \/ DeclineCommits(m) \/ DeclineDies(m)
    BY <1>1, <2>3 DEF DeclineBegins, DeclineCommits, DeclineDies
  <2>4. CASE SweepScans(m) \/ SweepExpires(m) \/ Played(m) \/ Ages(m) \/ ConfirmsLapse(m)
    BY <1>1, <2>4 DEF SweepScans, SweepExpires, Played, Ages, ConfirmsLapse
  <2>5. QED
    BY <1>4, <2>1, <2>2, <2>3, <2>4 DEF Confirmation
<1>5. CASE AdminUnlock \/ KeyLapses \/ ClockTicks \/ UNCHANGED vars
  BY <1>1, <1>5 DEF AdminUnlock, KeyLapses, ClockTicks, vars
<1>6. QED
  BY <1>2, <1>3, <1>4, <1>5 DEF Next

\* A slot that says it is full has no seat left, whatever order bookings, matches,
\* cancellations and administrators come in.
THEOREM FullIsNeverStale == Spec => []FullMeansFull
<1>1. Init => FullMeansFull
  BY DEF Init, FullMeansFull
<1>2. QED
  BY <1>1, InitTypes, TypesKept, FullKept, PTL DEF Spec

----------------------------------------------------------------------------
(* Who accounts for a lock.                                                *)

LEMMA AccountKept ==
  TypeOK /\ LockInv /\ LockAccounted /\ [Next]_vars => LockInv' /\ LockAccounted'
<1> SUFFICES ASSUME TypeOK, LockInv, LockAccounted, [Next]_vars
             PROVE  LockInv' /\ LockAccounted'
  OBVIOUS
<1> USE DEF slot, people, deal
\* A step that neither locks the slot nor moves a match.
<1>1. ASSUME slotStatus' \in {slotStatus, Released, "available", "full"},
             UNCHANGED <<stage, seats, cup>>
      PROVE  LockInv' /\ LockAccounted'
  BY <1>1, ReleasedTypes DEF LockInv, LockAccounted
\* A step that forgets a match, or one that ends it together with the lock.
<1>2. ASSUME NEW m \in Matches, Abandon(m), stage[m] \in Attempt, slotStatus' = slotStatus
      PROVE  LockInv' /\ LockAccounted'
  BY <1>2 DEF Abandon, LockInv, LockAccounted, TypeOK, Attempt
<1>3. ASSUME NEW m \in Matches, Ended(m), slotStatus' = Released
      PROVE  LockInv' /\ LockAccounted'
  BY <1>3, ReleasedTypes DEF Ended, LockInv, LockAccounted, TypeOK, Attempt
<1>4. ASSUME NEW u \in Users, Player(u) PROVE LockInv' /\ LockAccounted'
  <2>1. CASE Book(u)
    <3>1. booked + 1 \in Nat
      BY DEF TypeOK
    <3>2. slotStatus' \in {"available", "full"}
      BY <2>1, <3>1, StatusTypes DEF Book
    <3>3. QED
      BY <1>1, <2>1, <3>2 DEF Book
  <2>2. CASE Cancel(u)
    BY <1>1, <2>2 DEF Cancel, Freed
  <2>3. CASE EnterHere(u) \/ EnterElsewhere(u) \/ ChangeHeadset(u)
    BY <1>1, <2>3 DEF EnterHere, EnterElsewhere, ChangeHeadset
  <2>4. QED
    BY <1>4, <2>1, <2>2, <2>3 DEF Player
<1>5. ASSUME NEW m \in Matches, Pairing(m) PROVE LockInv' /\ LockAccounted'
  <2>1. ASSUME NEW u \in Users, NEW v \in Users, NEW t \in BOOLEAN, PairBegins(m, {u, v}, t)
        PROVE  LockInv' /\ LockAccounted'
    <3>1. t => Attending({u, v}) # {}
      BY <2>1, AttendingSomebody DEF PairBegins
    <3>2. /\ stage[m] = "free"
          /\ stage' \in {[stage EXCEPT ![m] = "seating"], [stage EXCEPT ![m] = "claiming"]}
          /\ seats' = [seats EXCEPT ![m] = IF t THEN Attending({u, v}) ELSE {}]
          /\ cup' = [cup EXCEPT ![m] = t]
          /\ slotStatus' = slotStatus
      BY <2>1 DEF PairBegins, Attempted
    <3>3. LockAccounted'
      BY <3>2 DEF LockAccounted, TypeOK
    <3>4. LockInv'
      BY <3>1, <3>2 DEF LockInv, TypeOK, Attempt
    <3>5. QED
      BY <3>3, <3>4
  <2>2. CASE ClaimKey(m)
    <3>1. CASE key = NoMatch
      BY <2>2, <3>1 DEF ClaimKey, LockInv, LockAccounted, TypeOK, Attempt
    <3>2. CASE key # NoMatch
      BY <1>2, <2>2, <3>2 DEF ClaimKey, Attempt
    <3>3. QED
      BY <3>1, <3>2
  <2>3. CASE LockRefused(m) \/ PairFails(m)
    BY <1>2, <2>3 DEF LockRefused, PairFails, Attempt
  <2>4. CASE LockForConfirmation(m)
    BY <2>4 DEF LockForConfirmation, LockInv, LockAccounted, TypeOK, Attempt
  <2>5. CASE SeatTournamentMatch(m)
    <3>1. seats[m] # {} /\ seats[m] \in SUBSET Users
      BY <2>5 DEF SeatTournamentMatch, LockInv, TypeOK, Attempt
    <3>2. slotStatus' \in {"available", "full"}
      BY <2>5, <3>1, SeatTypes DEF SeatTournamentMatch
    <3>3. QED
      BY <2>5, <3>2 DEF SeatTournamentMatch, LockInv, LockAccounted, TypeOK, Attempt
  <2>6. QED
    BY <1>5, <2>1, <2>2, <2>3, <2>4, <2>5 DEF Pairing
<1>6. ASSUME NEW m \in Matches, Confirmation(m) PROVE LockInv' /\ LockAccounted'
  <2>1. ASSUME NEW u \in Users, ConfirmSecond(m, u) PROVE LockInv' /\ LockAccounted'
    <3>1. InPerson(m) \in SUBSET Users
      BY DEF TypeOK, InPerson
    <3>2. /\ stage[m] = "pending" /\ ~cup[m] /\ cup' = cup
          /\ stage' = [stage EXCEPT ![m] = "confirmed"]
          /\ seats' = [seats EXCEPT ![m] = InPerson(m)]
      BY <2>1 DEF ConfirmSecond, Confirmable, LockInv
    <3>3. LockInv'
      BY <3>2 DEF LockInv, TypeOK, Attempt
    <3>4. CASE InPerson(m) = {}
      <4>1. slotStatus' = slotStatus
        BY <2>1, <3>4 DEF ConfirmSecond
      <4>2. LockAccounted'
        BY <3>2, <3>4, <4>1 DEF LockAccounted, TypeOK
      <4>3. QED
        BY <3>3, <4>2
    <3>5. CASE InPerson(m) # {}
      <4>1. slotStatus' \in {"available", "full"}
        BY <2>1, <3>1, <3>5, SeatTypes DEF ConfirmSecond
      <4>2. QED
        BY <3>3, <4>1 DEF LockAccounted
    <3>6. QED
      BY <3>4, <3>5
  <2>2. ASSUME NEW u \in Users, ConfirmFirst(m, u) \/ ConfirmLost(m, u)
        PROVE  LockInv' /\ LockAccounted'
    BY <1>1, <2>2 DEF ConfirmFirst, ConfirmLost
  <2>3. CASE DeclineBegins(m) \/ DeclineDies(m)
    BY <1>1, <2>3 DEF DeclineBegins, DeclineDies
  <2>4. CASE DeclineCommits(m) \/ SweepExpires(m)
    BY <1>3, <2>4 DEF DeclineCommits, SweepExpires
  <2>5. CASE SweepScans(m) \/ Ages(m) \/ ConfirmsLapse(m)
    BY <1>1, <2>5 DEF SweepScans, Ages, ConfirmsLapse
  <2>6. CASE Played(m)
    BY <2>6 DEF Played, LockInv, LockAccounted, TypeOK, Attempt
  <2>7. QED
    BY <1>6, <2>1, <2>2, <2>3, <2>4, <2>5, <2>6 DEF Confirmation
<1>7. CASE AdminUnlock \/ KeyLapses \/ ClockTicks \/ UNCHANGED vars
  BY <1>1, <1>7 DEF AdminUnlock, KeyLapses, ClockTicks, vars
<1>8. QED
  BY <1>4, <1>5, <1>6, <1>7 DEF Next

\* A lock is never left behind by nobody: a locked slot has a match that waits for
\* its players to confirm, or an open match nobody was left to turn up for.
THEOREM LockIsAccounted == Spec => []LockAccounted
<1>1. Init => LockInv /\ LockAccounted
  BY DEF Init, LockInv, LockAccounted, Attempt
<1>2. QED
  BY <1>1, InitTypes, TypesKept, AccountKept, PTL DEF Spec
=============================================================================
