----------------------------- MODULE CupEntry -----------------------------
(***************************************************************************)
(* Who is in which tournament, and how a tournament goes from draft to     *)
(* completed.  Players register, enter a round and withdraw                *)
(* (tournaments.service.ts); administrators move a tournament from a page  *)
(* they loaded a while ago and register or edit players themselves         *)
(* (admin/services/tournaments.service.ts); the lifecycle job of the       *)
(* worker moves it along its own dates (tournament-lifecycle.job.ts).      *)
(*                                                                         *)
(* A request reads on one connection and commits on another, so its checks *)
(* and its transaction are steps of their own.  Of play there is what it   *)
(* does to a place, to the status and to the matches that the end of a     *)
(* tournament expires: MatchPlay, Bracket and Buybacks have it in full.    *)
(***************************************************************************)
EXTENDS Naturals, FiniteSets

CONSTANTS
  Players, Cups,
  Choice,      \* bound: the tournaments each player has to do with
  Dated,       \* bound: the tournaments whose time passes and whose pages are used
  Capacity,    \* maxPlayers of every tournament
  MaxRequests, \* bound: registrations in flight
  MaxMoves     \* bound: what administrators do, what fails, is late or waits

ASSUME CupEntryAssumption ==
  /\ IsFiniteSet(Players)
  /\ Dated \subseteq Cups /\ Choice \in [Players -> SUBSET Cups]
  /\ Capacity \in Nat /\ MaxRequests \in Nat /\ MaxMoves \in Nat

VARIABLES
  status,      \* of each tournament
  stage,       \* where now is among its dates: see Registering, StartPassed, EndPassed
  closes,      \* whether registration_closes_at is set
  half,        \* the tournaments with a bracket match that has one player only
  registered,  \* tournament_registrations: a set of players for each tournament
  place,       \* tournament_participants
  requests,    \* registrations in flight
  due,         \* what the sweep found, each with the status it had
  page,        \* the administrator's
  closing,     \* tournaments a page moved while the sweep was closing their round
  moves        \* what the bound counts

entries == <<registered, place>>
desk == <<page, closing, moves>>
setting == <<stage, closes, half>>
vars == <<status, setting, entries, requests, due, desk>>

Statuses == {"draft", "open", "closed", "in_progress", "completed"}
Places == {"none", "in", "eliminated", "out"}  \* in: active, advanced or knockout
Requests == [at : {"entering", "checked", "ordered"}, who : Players, cup : Cups]
NoPage == [at |-> "away"]
Scanned == {"open", "closed", "in_progress"}  \* the statuses TRANSITIONS start from
Pages == [at : {"loaded", "retiring"}, cup : Cups, to : Statuses]

TypeOK ==
  /\ status \in [Cups -> Statuses] /\ stage \in [Cups -> 1..4] /\ closes \in [Cups -> BOOLEAN]
  /\ half \subseteq Cups
  /\ registered \in [Cups -> SUBSET Players]
  /\ place \in [Cups -> [Players -> Places]]
  /\ requests \subseteq Requests
  /\ due \subseteq Cups \X Scanned
  /\ page \in Pages \cup {NoPage} /\ closing \subseteq Cups
  /\ moves \in Nat

Init ==
  /\ status \in [Cups -> {"draft", "open"}] /\ stage = [c \in Cups |-> 1]
  /\ closes = [c \in Cups |-> TRUE] /\ half = {}
  /\ registered = [c \in Cups |-> {}]
  /\ place = [c \in Cups |-> [p \in Players |-> "none"]]
  /\ requests = {} /\ due = {}
  /\ page = NoPage /\ closing = {} /\ moves = 0

----------------------------------------------------------------------------
(* Dates.  Once the closing date was cleared by hand, only the status      *)
(* closes registration.                                                    *)

Registering(c) == stage[c] = 1 \/ ~closes[c]
StartPassed(c) == stage[c] >= 3
EndPassed(c) == stage[c] = 4

TimePasses(c) ==
  /\ c \in Dated /\ stage[c] < 4
  /\ stage' = [stage EXCEPT ![c] = @ + 1]
  /\ UNCHANGED <<status, closes, half, entries, requests, due, desk>>

----------------------------------------------------------------------------
(* The rules of a place.                                                   *)

\* LIVE_PARTICIPATION_SQL.
Live(p, c) == place[c][p] \notin {"none", "out"} /\ status[c] # "completed"
NoOtherLive(p, c) == \A d \in Cups \ {c} : ~Live(p, d)

\* idx_one_live_tournament_per_user: a row that joins the index needs p to have no other.
IndexFree(p, c) == \A d \in Cups \ {c} : place[d][p] # "in"

Opening(c) == status[c] = "open" /\ Registering(c)

\* Mutant of Full: every request counts before its transaction only.
CountedBefore(p, c) == FALSE

\* The count under the tournament's row lock, without the player's own registration.
Full(p, c) == Cardinality(registered[c] \ {p}) >= Capacity

----------------------------------------------------------------------------
(* Registrations.                                                          *)

Arrives(at, p, c) ==
  /\ Cardinality(requests) < MaxRequests
  /\ requests' = requests \cup {[at |-> at, who |-> p, cup |-> c]}
Ends(q) == requests' = requests \ {q}

\* The checks of register, all of them before its transaction.
MayRegister(p, c) ==
  /\ Opening(c)
  /\ Cardinality(registered[c]) < Capacity
  /\ NoOtherLive(p, c)

Register(p, c) ==
  /\ MayRegister(p, c)
  /\ Arrives("checked", p, c)
  /\ UNCHANGED <<status, setting, entries, due, desk>>

\* createRegistration of an administrator asks for no more than this.
AdminRegisters(p, c) ==
  /\ moves < MaxMoves /\ NoOtherLive(p, c)
  /\ Arrives("ordered", p, c)
  /\ moves' = moves + 1
  /\ UNCHANGED <<status, setting, entries, due, page, closing>>

\* Mutant of Admitted: the unique index is forgotten.
AdmittedAnyway(p, c) == TRUE

\* The participant row is kept when there is one; a new one is active.
Admitted(p, c) == place[c][p] # "none" \/ IndexFree(p, c)

\* The transaction of register and of createRegistration, with what it rolls back on.
RegisterCommits(q) ==
  LET p == q.who  c == q.cup IN
  /\ q.at = "ordered" \/ (q.at = "checked" /\ ~Full(p, c))
  /\ Admitted(p, c)
  /\ registered' = [registered EXCEPT ![c] = @ \cup {p}]
  /\ place' = [place EXCEPT ![c][p] = IF @ = "none" THEN "in" ELSE @]
  /\ Ends(q)
  /\ UNCHANGED <<status, setting, due, desk>>

RegisterRollsBack(q) ==
  LET p == q.who  c == q.cup IN
  /\ \/ q.at \in {"checked", "ordered"} /\ ~Admitted(p, c)
     \/ q.at = "checked" /\ Full(p, c)
  /\ Ends(q)
  /\ UNCHANGED <<status, setting, entries, due, desk>>

\* The checks of enter, of a player it finds unregistered.  Others get their play window
\* and a place in the queue (MatchQueue), and nothing of this module changes.
Enter(p, c) ==
  /\ p \notin registered[c] /\ Opening(c) /\ NoOtherLive(p, c)
  /\ place[c][p] \in {"none", "in"}
  /\ Arrives("entering", p, c)
  /\ UNCHANGED <<status, setting, entries, due, desk>>

\* By now the play window is found and, without a headset, a seat in it taken (VenueSlots
\* has the booking).  Whoever was not registered when enter looked goes through register;
\* the seat stays taken when that is refused.
EnterRegisters(q) ==
  /\ q.at = "entering"
  /\ requests' = (requests \ {q}) \cup
       (IF MayRegister(q.who, q.cup) THEN {[q EXCEPT !.at = "checked"]} ELSE {})
  /\ UNCHANGED <<status, setting, entries, due, desk>>

\* No such slot, no seat left in it, or the process dies.
RequestDies(q) ==
  /\ Ends(q)
  /\ UNCHANGED <<status, setting, entries, due, desk>>

\* One transaction; an administrator's deleteRegistration is the same.
Withdraw(p, c) ==
  /\ p \in registered[c]
  /\ registered' = [registered EXCEPT ![c] = @ \ {p}]
  /\ place' = [place EXCEPT ![c][p] = IF @ = "none" THEN @ ELSE "out"]
  /\ UNCHANGED <<status, setting, requests, due, desk>>

AllOut(c) == [place EXCEPT ![c] = [p \in Players |-> IF @[p] = "none" THEN "none" ELSE "out"]]

----------------------------------------------------------------------------
(* What play does.                                                         *)

Played(c) == status[c] \in {"in_progress", "completed"}

\* Rounds and buybacks.
Plays(p, c) ==
  /\ status[c] = "in_progress"
  /\ \/ place[c][p] = "in" /\ \E s \in {"eliminated", "out"} : place' = [place EXCEPT ![c][p] = s]
     \/ place[c][p] = "eliminated" /\ IndexFree(p, c) /\ place' = [place EXCEPT ![c][p] = "in"]
  /\ UNCHANGED <<status, setting, registered, requests, due, desk>>

\* The result of a match that the cut or the end of the tournament overtook, written to
\* the winner and to the loser whatever they are by then.
ResultIsLate(p, c) ==
  /\ Played(c) /\ place[c][p] = "out" /\ moves < MaxMoves
  /\ \E s \in {"in", "eliminated"} :
       /\ s = "in" => IndexFree(p, c)
       /\ place' = [place EXCEPT ![c][p] = s]
  /\ moves' = moves + 1
  /\ UNCHANGED <<status, setting, registered, requests, due, page, closing>>

\* The first of two winners reaches their next bracket match.
BracketWaits(c) ==
  /\ Played(c) /\ c \notin half /\ moves < MaxMoves
  /\ half' = half \cup {c}
  /\ moves' = moves + 1
  /\ UNCHANGED <<status, stage, closes, entries, requests, due, page, closing>>

\* The second does, or the sweep deletes the match and draws again.
BracketMoves(c) ==
  /\ c \in half
  /\ half' = half \ {c}
  /\ UNCHANGED <<status, stage, closes, entries, requests, due, desk>>

\* A round, or the bracket, is left with fewer than two players (Bracket says when).  The
\* round is closed whatever a page has made of the status meanwhile.
PlayEnds(c) ==
  /\ status[c] = "in_progress" \/ c \in closing
  /\ status' = [status EXCEPT ![c] = "completed"]
  /\ place' = AllOut(c)
  /\ half' = half \ {c}
  /\ closing' = closing \ {c}
  /\ UNCHANGED <<stage, closes, registered, requests, due, page, moves>>

----------------------------------------------------------------------------
(* The lifecycle job.                                                      *)

Following(s) ==
  CASE s = "draft" -> "open"
    [] s = "open" -> "closed"
    [] s = "closed" -> "in_progress"
    [] s = "in_progress" -> "completed"
    [] s = "completed" -> "completed"

\* Mutant of IsDue: registration closes by its own date only.
DueByClosingDate(c, s) ==
  CASE s = "open" -> closes[c] /\ stage[c] >= 2
    [] s = "closed" -> StartPassed(c)
    [] s = "in_progress" -> EndPassed(c)

\* The predicates of TRANSITIONS.
IsDue(c, s) ==
  CASE s = "open" -> (closes[c] /\ stage[c] >= 2) \/ StartPassed(c)
    [] s = "closed" -> StartPassed(c)
    [] s = "in_progress" -> EndPassed(c)

JobScans(s) ==
  /\ due = {}
  /\ due' = {c \in Cups : status[c] = s /\ IsDue(c, s)} \X {s}
  /\ UNCHANGED <<status, setting, entries, requests, desk>>

\* Mutant of StillThere: the status is not read again.
TakenForGranted(c, s) == TRUE

\* The status is read again under the tournament's lock.
StillThere(c, s) == status[c] = s

\* Completing expires the open matches of the tournament in one statement, which
\* matches_players_present refuses when one of them is half empty.
Expires(c) == c \notin half

\* What cannot be done is rolled back, and found again by the next sweep.
JobMoves(c, s) ==
  /\ <<c, s>> \in due
  /\ due' = due \ {<<c, s>>}
  /\ IF StillThere(c, s) /\ (s = "in_progress" => Expires(c))
     THEN /\ status' = [status EXCEPT ![c] = Following(s)]
          /\ place' = IF s = "in_progress" THEN AllOut(c) ELSE place
     ELSE UNCHANGED <<status, place>>
  /\ UNCHANGED <<setting, registered, requests, desk>>

\* The transaction of a tournament fails, or the worker stops: nothing of it is done.
JobFails ==
  /\ moves < MaxMoves
  /\ \E d \in SUBSET due : d # due /\ due' = d
  /\ moves' = moves + 1
  /\ UNCHANGED <<status, setting, entries, requests, page, closing>>

----------------------------------------------------------------------------
(* The administrator.  The page offers the next status of the tournament   *)
(* it shows; update writes it whatever the status has become.              *)

PageLoads(c) ==
  /\ c \in Dated /\ page = NoPage /\ moves < MaxMoves /\ status[c] # "completed"
  /\ page' = [at |-> "loaded", cup |-> c, to |-> Following(status[c])]
  /\ moves' = moves + 1
  /\ UNCHANGED <<status, setting, entries, requests, due, closing>>

\* publish, closeRegistration, start and complete.  Completing retires the
\* participants in a statement of its own.  The sweep may have found a round of the
\* tournament to close before.
PageMoves ==
  /\ page.at = "loaded"
  /\ status' = [status EXCEPT ![page.cup] = page.to]
  /\ page' = IF page.to = "completed" /\ status[page.cup] # "completed"
             THEN [page EXCEPT !.at = "retiring"] ELSE NoPage
  /\ closing' = closing \/ (status[page.cup] = "in_progress" /\ closing' = closing \cup {page.cup})
  /\ UNCHANGED <<setting, entries, requests, due, moves>>

PageRetires ==
  /\ page.at = "retiring"
  /\ place' = AllOut(page.cup)
  /\ page' = NoPage
  /\ UNCHANGED <<status, setting, registered, requests, due, closing, moves>>

PageLeft ==
  /\ page # NoPage
  /\ page' = NoPage
  /\ UNCHANGED <<status, setting, entries, requests, due, closing, moves>>

\* The edit form: other dates, and the closing date set or cleared.
EditDates(c) ==
  /\ c \in Dated /\ moves < MaxMoves
  /\ \E s \in 1..stage[c] : stage' = [stage EXCEPT ![c] = s]
  /\ \E b \in BOOLEAN : closes' = [closes EXCEPT ![c] = b]
  /\ moves' = moves + 1
  /\ UNCHANGED <<status, half, entries, requests, due, page, closing>>

EditPlace(p, c) ==
  /\ moves < MaxMoves /\ place[c][p] # "none"
  /\ \E s \in Places :
       /\ s = "in" => IndexFree(p, c)
       /\ place' = [place EXCEPT ![c][p] = s]
  /\ moves' = moves + 1
  /\ UNCHANGED <<status, setting, registered, requests, due, page, closing>>

Next ==
  \/ \E p \in Players : \E c \in Choice[p] :
       Register(p, c) \/ AdminRegisters(p, c) \/ Enter(p, c)
  \/ \E q \in requests :
       RegisterCommits(q) \/ RegisterRollsBack(q) \/ EnterRegisters(q) \/ RequestDies(q)
  \/ \E p \in Players, c \in Cups : Withdraw(p, c) \/ EditPlace(p, c)
  \/ \E p \in Players, c \in Cups : Plays(p, c) \/ ResultIsLate(p, c)
  \/ \E c \in Cups : TimePasses(c) \/ PageLoads(c) \/ EditDates(c)
  \/ \E c \in Cups : BracketWaits(c) \/ BracketMoves(c) \/ PlayEnds(c)
  \/ \E s \in Scanned : JobScans(s) \/ \E c \in Cups : JobMoves(c, s)
  \/ JobFails \/ PageMoves \/ PageRetires \/ PageLeft

Spec == Init /\ [][Next]_vars

\* Time passes, and the sweep is repeated every minute and goes on to its end.
LiveSpec ==
  /\ Spec
  /\ WF_vars(\E c \in Dated : TimePasses(c))
  /\ WF_vars(\E s \in Scanned : JobScans(s))
  /\ WF_vars(\E c \in Dated, s \in Scanned : JobMoves(c, s))

----------------------------------------------------------------------------
(* Properties.                                                             *)

\* However many register for a tournament at once, none of them is let in beyond its
\* places: only an administrator puts more players in (register counts again under
\* the tournament's lock).
CapacityKept ==
  [][\A c \in Cups :
       Cardinality(registered[c]') > Cardinality(registered[c]) =>
         \/ Cardinality(registered[c]') <= Capacity
         \/ \E q \in requests \ requests' : q.at = "ordered"]_vars

\* Whatever a player starts in two tabs, and whatever administrators do meanwhile,
\* nobody competes in two tournaments at once.
OneLivePlace ==
  \A p \in Players : \A c, d \in Cups : place[c][p] = "in" /\ place[d][p] = "in" => c = d

\* The lifecycle job never undoes what an administrator did between its scan and its
\* transaction: a status takes the one step that follows it unless a page writes it, or a
\* round that was being closed when a page did.
JobYields ==
  [][\A c \in Cups :
       status'[c] # status[c] =>
         status'[c] = Following(status[c]) \/ page' # page \/ (c \in closing /\ c \notin closing')]_vars

\* A published tournament comes to its end by its dates, whatever is cleared, fails or is
\* moved by hand on the way, unless a bracket match keeps waiting for its second player.
RunsToTheEnd ==
  \A c \in Dated :
    \/ status[c] = "open" ~> status[c] = "completed"
    \/ <>[](status[c] = "in_progress" /\ c \in half)

\* The end date is a hard stop, so the tournament cannot hang open (the comment of
\* tournament-lifecycle.job.ts).  TLC refutes it: every sweep of a tournament with a half
\* empty bracket match rolls back, for as long as the match is there.
EndDateIsAHardStop ==
  \A c \in Dated : status[c] = "in_progress" /\ EndPassed(c) ~> status[c] = "completed" \/ ~EndPassed(c)

\* Nobody holds a place in a finished tournament (retireParticipants).  TLC refutes it: a
\* registration that passed its checks before commits after the end, and an administrator's
\* needs no race.
NobodyInFinished ==
  \A c \in Cups, p \in Players : status[c] = "completed" /\ page = NoPage => place[c][p] \in {"none", "out"}
=============================================================================
