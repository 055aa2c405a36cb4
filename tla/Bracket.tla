------------------------------ MODULE Bracket ------------------------------
(***************************************************************************)
(* A tournament from its first round to its champion: the close of a round *)
(* (closeRound in the worker and in the API), the draw of the knockout     *)
(* (knockoutDraw), winners going on (advanceKnockoutWinner, a step of its  *)
(* own after the result), and the sweep that restarts or finishes a        *)
(* bracket that has stopped moving (restartBracket).                       *)
(*                                                                         *)
(* In the normal rounds it matters how many are left, not who: players get *)
(* their names, 1 for the best record, when the bracket is drawn.  A match *)
(* of a normal round is there while its result is on its way: the close of *)
(* the round leaves a complete scoreline to the handler that is about to   *)
(* resolve it, which may come after the cut or after the draw.  The unique *)
(* index on bracket slots makes the bracket a function from places to      *)
(* matches; a row that has given up its slot is history nobody reads.      *)
(***************************************************************************)
EXTENDS Naturals, FiniteSets, Sequences

CONSTANTS
  Fields,      \* how many players a tournament may start with
  Late,        \* handlers that bring the result of a normal match
  MaxBuybacks, \* bound: players who buy their way back
  MaxMishaps,  \* bound: bracket matches that end other than by being played
  Prompt       \* a winner has gone on, or never will, before the sweep runs again

\* Counts of players are columns of type INT: there is a largest field.
ASSUME BracketAssumption ==
  /\ Fields \subseteq Nat \ {0}
  /\ \E n \in Fields : \A k \in Fields : k <= n
  /\ IsFiniteSet(Late)
  /\ MaxBuybacks \in Nat /\ MaxMishaps \in Nat
  /\ Prompt \in BOOLEAN

VARIABLES
  phase,      \* of the tournament
  round,      \* the normal round that runs
  field,      \* initial_player_count, 0 while it is not set
  entrants,   \* how many hold a registration, in the normal rounds
  quit,       \* how many have given theirs up
  active,     \* how many entrants are active; the others have lost or were cut
  forms,      \* checkouts opened for this round
  back,       \* how many entrants have bought their way back
  revived,    \* how many a result made active that came after their cut
  result,     \* of both sides of the matches whose result is on its way: where they are
  standing,   \* of the players of the bracket
  bracket,    \* the match at each place
  advancing,  \* winners whose result is stored and who have not gone on yet
  mishaps

people == <<entrants, quit, active>>
returns == <<forms, back, revived>>
cup == <<phase, round, field, people, returns>>
vars == <<cup, result, standing, bracket, advancing, mishaps>>

----------------------------------------------------------------------------
(* Rules: round-advancement.ts.                                            *)

knockoutThreshold(n) == IF n <= 1 THEN 1 ELSE n \div 2
resolveFieldSize(initial, n) == IF initial > 0 THEN initial ELSE IF n > 1 THEN n ELSE 1
shouldStartKnockout(n, size) == n <= knockoutThreshold(size)
\* Mutant of playersToAdvance: the odd player goes on as well.
RoundedUp(n, size) == IF shouldStartKnockout(n, size) THEN n ELSE n - n \div 2

playersToAdvance(n, size) == IF shouldStartKnockout(n, size) THEN n ELSE n \div 2

SCHEDULED_NORMAL_ROUNDS == 2

Ro16 == 100
Qf == 101
Sf == 102
Final == 103
Rounds == Ro16..Final

\* The round a draw of n players is for.
DrawRound(n) ==
  IF n > 8 THEN Ro16 ELSE IF n > 4 THEN Qf ELSE IF n > 2 THEN Sf ELSE Final

\* An odd player out has a bye: the first, who has the best record.
Drawn(s) == IF Len(s) % 2 = 1 THEN Tail(s) ELSE s

\* The pairs, by slot.
Pairs(s) ==
  [i \in 0..(Len(Drawn(s)) \div 2 - 1) |-> <<Drawn(s)[2 * i + 1], Drawn(s)[2 * i + 2]>>]

----------------------------------------------------------------------------
Most == CHOOSE n \in Fields : \A k \in Fields : k <= n
Players == 1..knockoutThreshold(Most)
Nobody == 0
Seats == Late \X {"winner", "loser"}
Slots == 0..(knockoutThreshold(Most) \div 2)
Places == Rounds \X Slots

NoMatch == [one |-> Nobody, two |-> Nobody, status |-> "none", winner |-> Nobody]
Fixture(p, q) == [one |-> p, two |-> q, status |-> "confirmed", winner |-> Nobody]

Full(s) == bracket[s].one # Nobody /\ bracket[s].two # Nobody

\* With the constraint matches_players_present.
TypeOK ==
  /\ phase \in {"normal", "knockout", "completed"}
  /\ round \in Nat \ {0} /\ field \in Nat
  /\ entrants \in Nat /\ quit \in Nat /\ active \in 0..entrants
  /\ forms \in Nat /\ back \in Nat /\ revived \in Nat
  /\ result \in [Seats -> {"none", "in", "out", "left"}]
  /\ standing \in [Players -> {"none", "knockout", "overwritten", "out"}]
  /\ bracket \in [Places -> [one : Players \cup {Nobody}, two : Players \cup {Nobody},
                             status : {"none", "pending", "confirmed", "completed", "void"},
                             winner : Players \cup {Nobody}]]
  /\ \A s \in Places : bracket[s].status \in {"none", "pending"} \/ Full(s)
  /\ advancing \subseteq (Places \X Players)
  /\ mishaps \in 0..MaxMishaps

Init ==
  /\ phase = "normal" /\ round = 1
  /\ active \in Fields /\ field \in {0, active}
  /\ entrants = active /\ quit = 0
  /\ forms = 0 /\ back = 0 /\ revived = 0
  /\ result = [x \in Seats |-> "none"]
  /\ standing = [p \in Players |-> "none"]
  /\ bracket = [s \in Places |-> NoMatch]
  /\ advancing = {} /\ mishaps = 0

----------------------------------------------------------------------------
(* Normal rounds.                                                          *)

Size == resolveFieldSize(field, active)

\* Sides of matches on their way whose player is active, has been put out, or has left.
InFlight(where) == {x \in Seats : result[x] = where}

Idle(r) == result[<<r, "winner">>] = "none" /\ result[<<r, "loser">>] = "none"

\* Both innings of a match are on record; a player has one match at a time.
Bats(r) ==
  /\ phase = "normal" /\ Idle(r) /\ active >= Cardinality(InFlight("in")) + 2
  /\ result' = [result EXCEPT ![<<r, "winner">>] = "in", ![<<r, "loser">>] = "in"]
  /\ UNCHANGED <<cup, standing, bracket, advancing, mishaps>>

Landed(r) == [result EXCEPT ![<<r, "winner">>] = "none", ![<<r, "loser">>] = "none"]

One(condition) == IF condition THEN 1 ELSE 0

\* The winner is active and the loser is not, whatever they were before.
Resolves(r) ==
  /\ phase = "normal" /\ ~Idle(r)
  /\ result' = Landed(r)
  /\ active' = active + One(result[<<r, "winner">>] = "out") - One(result[<<r, "loser">>] = "in")
  /\ revived' = revived + One(result[<<r, "winner">>] = "out")
  /\ UNCHANGED <<phase, round, field, entrants, quit, forms, back, standing, bracket, advancing, mishaps>>

\* Who was active at the draw is one of the bracket; nobody else comes into it.
Named(where) ==
  IF where = "in" THEN {p \in Players : standing[p] \in {"knockout", "out"}} ELSE {Nobody}

\* So after the draw: `active' and `eliminated' are written over `knockout', and neither
\* is a status the bracket asks for.
ResolvesLate(r) ==
  /\ phase # "normal" /\ ~Idle(r)
  /\ result' = Landed(r)
  /\ \E w \in Named(result[<<r, "winner">>]), l \in Named(result[<<r, "loser">>]) :
       /\ w # l \/ w = Nobody
       /\ standing' = [p \in Players |-> IF p \in {w, l} /\ standing[p] = "knockout"
                                         THEN "overwritten" ELSE standing[p]]
  /\ UNCHANGED <<cup, bracket, advancing, mishaps>>

\* The handler dies, the match is tied, or a sweep decides it and only counts the win.
EndsWithoutEffect(r) ==
  /\ ~Idle(r)
  /\ result' = Landed(r)
  /\ UNCHANGED <<cup, standing, bracket, advancing, mishaps>>

\* One of n players goes from was to is: one without a result on its way, or one with.
OnePlayer(was, is, n) ==
  \/ Cardinality(InFlight(was)) < n /\ UNCHANGED result
  \/ \E x \in InFlight(was) : result' = [result EXCEPT ![x] = is]

\* The checkout counts whoever is active, also somebody who has left and whom a late
\* result, or a payment, has made active.
OpensForm ==
  /\ phase = "normal" /\ active < entrants /\ back + forms < MaxBuybacks
  /\ \E n \in active..(active + quit) : ~shouldStartKnockout(n, resolveFieldSize(field, n))
  /\ forms' = forms + 1
  /\ UNCHANGED <<phase, round, field, people, back, revived, result, standing, bracket, advancing, mishaps>>

\* The payment is granted while the round of the form runs, however many are active.
BuysBack ==
  /\ phase = "normal" /\ forms > 0 /\ active < entrants
  /\ active' = active + 1 /\ back' = back + 1 /\ forms' = forms - 1
  /\ OnePlayer("out", "in", entrants - active)
  /\ UNCHANGED <<phase, round, field, entrants, quit, revived, standing, bracket, advancing, mishaps>>

\* An entrant gives up the registration, active or not.
Leaves ==
  /\ phase = "normal"
  /\ entrants' = entrants - 1 /\ quit' = quit + 1
  /\ \/ active > 0 /\ active' = active - 1 /\ OnePlayer("in", "left", active)
     \/ active < entrants /\ active' = active /\ OnePlayer("out", "left", entrants - active)
  /\ UNCHANGED <<phase, round, field, returns, standing, bracket, advancing, mishaps>>

\* The standings decide who goes on, also of the players whose result is on its way.
Cut ==
  /\ result' \in {[x \in Seats |-> IF x \in dropped THEN "out" ELSE result[x]] :
                    dropped \in SUBSET InFlight("in")}
  /\ Cardinality(InFlight("in")') <= active'
  /\ Cardinality(InFlight("out")') <= Cardinality(InFlight("out")) + (active - active')

\* The field is halved, and the next round opens; forms of this one are worth nothing.
ClosesRound ==
  /\ phase = "normal" /\ active >= 2 /\ ~shouldStartKnockout(active, Size)
  /\ active' = playersToAdvance(active, Size)
  /\ Cut
  /\ round' = round + 1
  /\ field' = Size
  /\ forms' = 0
  /\ UNCHANGED <<phase, entrants, quit, back, revived, standing, bracket, advancing, mishaps>>

\* Places of a draw, and what is there.
DrawPlaces(s) == {<<DrawRound(Len(s)), i>> : i \in DOMAIN Pairs(s)}
FixtureAt(s, place) == Fixture(Pairs(s)[place[2]][1], Pairs(s)[place[2]][2])

\* The bracket is drawn in the order of the standings.  Of fewer than two players the
\* API's copy still draws one, without a match.  Nobody buys
\* back, and what nothing reads from here on is let go: the counts of the normal rounds,
\* and sides of late results whose player is not in the bracket.
DrawsBracket ==
  LET seeds == [i \in 1..active |-> i] IN
  /\ phase = "normal" /\ shouldStartKnockout(active, Size)
  /\ phase' = "knockout"
  /\ round' = DrawRound(active)
  /\ field' = 0 /\ entrants' = 0 /\ quit' = 0 /\ active' = 0
  /\ forms' = 0 /\ back' = 0 /\ revived' = 0
  /\ standing' = [p \in Players |-> IF p <= active THEN "knockout" ELSE "none"]
  /\ bracket' = [s \in Places |-> IF s \in DrawPlaces(seeds) THEN FixtureAt(seeds, s) ELSE NoMatch]
  /\ result' = [x \in Seats |-> IF result[x] = "in" THEN "in" ELSE "none"]
  /\ UNCHANGED <<advancing, mishaps>>

\* The worker ends a tournament in which nobody has an opponent left.
ClosesLastRound ==
  /\ phase = "normal" /\ active < 2
  /\ phase' = "completed"
  /\ standing' = [p \in Players |-> IF p <= active THEN "out" ELSE "none"]
  /\ forms' = 0
  /\ UNCHANGED <<round, field, people, back, revived, result, bracket, advancing, mishaps>>

----------------------------------------------------------------------------
(* Bracket matches.                                                        *)

Open(s) == bracket[s].status \in {"pending", "confirmed"}
Playable(s) == Open(s) /\ Full(s)
Sides(s) == {bracket[s].one, bracket[s].two}

Match(s, m) ==
  /\ bracket' = [bracket EXCEPT ![s] = m]
  /\ UNCHANGED <<cup, result, standing>>

Completed(s, w) == [bracket[s] EXCEPT !.status = "completed", !.winner = w]

\* applyMatchWinner: the result is stored; the winner goes on in a step of its own.
Wins(s, w) ==
  /\ Playable(s) /\ w \in Sides(s)
  /\ Match(s, Completed(s, w))
  /\ advancing' = advancing \cup {<<s, w>>}
  /\ UNCHANGED mishaps

Mishap == mishaps < MaxMishaps /\ mishaps' = mishaps + 1

\* A tie is cancelled to be played again; a match nobody came to expires after two hours.
EndsUndecided(s) ==
  /\ Playable(s) /\ Mishap
  /\ Match(s, [bracket[s] EXCEPT !.status = "void"])
  /\ UNCHANGED advancing

\* expire-unplayed-slots decides a match whose handler died or where one side did not
\* come; nobody goes on.  A level scoreline completes the match without a winner.
SweepDecides(s, w) ==
  /\ Playable(s) /\ Mishap /\ w \in Sides(s) \cup {Nobody}
  /\ Match(s, Completed(s, w))
  /\ UNCHANGED advancing

NextPlace(s) == <<s[1] + 1, s[2] \div 2>>

\* Mutant of Joined: whoever comes opens the match.
JoinedAndOpen(s, w, m) ==
  LET side == IF s[2] % 2 = 0 THEN [m EXCEPT !.one = w] ELSE [m EXCEPT !.two = w]
  IN  [side EXCEPT !.status = "confirmed"]

\* The side of the next match that a slot feeds is its parity; with both sides known
\* the match is on.
Joined(s, w, m) ==
  LET side == IF s[2] % 2 = 0 THEN [m EXCEPT !.one = w] ELSE [m EXCEPT !.two = w]
  IN  IF side.one # Nobody /\ side.two # Nobody THEN [side EXCEPT !.status = "confirmed"] ELSE side

\* advanceKnockoutWinner: the row is inserted, or its side is filled in.
GoesOn(s, w) ==
  LET next == NextPlace(s) IN
  /\ <<s, w>> \in advancing
  /\ advancing' = advancing \ {<<s, w>>}
  /\ IF s[1] = Final THEN UNCHANGED bracket
     ELSE bracket' = [bracket EXCEPT ![next] =
            Joined(s, w, IF @.status = "none" THEN [@ EXCEPT !.status = "pending"] ELSE @)]
  /\ UNCHANGED <<cup, result, standing, mishaps>>

\* The process dies, or the database does not answer.
GoesNowhere(s, w) ==
  /\ <<s, w>> \in advancing
  /\ advancing' = advancing \ {<<s, w>>}
  /\ UNCHANGED <<cup, result, standing, bracket, mishaps>>

\* Withdrawal gives the match to an opponent who has batted, without anybody going on,
\* or cancels it.  It fails for a player who waits in a half-empty match, which the
\* schema lets nobody cancel.
Withdraws(p) ==
  LET mine == {s \in Places : Open(s) /\ p \in Sides(s)} IN
  /\ phase = "knockout" /\ standing[p] \notin {"none", "out"} /\ Mishap
  /\ \A s \in mine : Full(s)
  /\ standing' = [standing EXCEPT ![p] = "out"]
  /\ \E batted \in SUBSET mine :
       bracket' = [s \in Places |->
         IF s \in batted THEN Completed(s, CHOOSE q \in Sides(s) : q # p)
         ELSE IF s \in mine THEN [bracket[s] EXCEPT !.status = "void"] ELSE bracket[s]]
  /\ UNCHANGED <<cup, result, advancing>>

----------------------------------------------------------------------------
(* The sweep.                                                              *)

Lost(p) ==
  \E s \in Places :
    bracket[s].status = "completed" /\ p \in Sides(s) /\ bracket[s].winner \notin {p, Nobody}

\* Mutant of Alive: whoever the bracket was drawn with.
StillInBracket == {p \in Players : standing[p] = "knockout"}

\* Nothing marks a loser on the participant row: the matches are the only record.
Alive == {p \in Players : standing[p] = "knockout" /\ ~Lost(p)}

\* Mutant of Stalled: a match that waits for a side counts as live.
NothingOpen == phase = "knockout" /\ ~ \E s \in Places : Open(s)

Stalled == phase = "knockout" /\ ~ \E s \in Places : Playable(s)

Orders(S) ==
  {o \in [1..Cardinality(S) -> S] : \A i, j \in 1..Cardinality(S) : i # j => o[i] # o[j]}

\* Mutant of Given: half-empty matches are left where they are.
GivenUpOnly(s, at) == bracket[s].status = "void" /\ s[1] = at

\* Half-empty matches are deleted, and dead ones of the round give up their slots; a
\* slot of a match that was completed stays taken, and the insert fails.
Given(s, at) ==
  \/ bracket[s].status = "pending" /\ ~Full(s)
  \/ bracket[s].status = "void" /\ s[1] = at

Fits(o) == \A s \in DrawPlaces(o) : bracket[s] = NoMatch \/ Given(s, DrawRound(Len(o)))

MayRun == Stalled /\ (Prompt => advancing = {})

\* Walkovers and decisions of the sweeps change records, so the order may be any.
RestartsBracket ==
  /\ MayRun /\ Cardinality(Alive) >= 2
  /\ \E o \in Orders(Alive) :
       /\ Fits(o)
       /\ bracket' = [s \in Places |->
            IF s \in DrawPlaces(o) THEN FixtureAt(o, s)
            ELSE IF Given(s, DrawRound(Len(o))) THEN NoMatch ELSE bracket[s]]
  /\ UNCHANGED <<cup, result, standing, advancing, mishaps>>

\* One player left is the champion.
FinishesBracket ==
  /\ MayRun /\ Cardinality(Alive) < 2
  /\ phase' = "completed"
  /\ standing' = [p \in Players |-> IF standing[p] = "none" THEN "none" ELSE "out"]
  /\ bracket' = [s \in Places |-> IF bracket[s].status = "pending" /\ ~Full(s) THEN NoMatch ELSE bracket[s]]
  /\ UNCHANGED <<round, field, people, returns, result, advancing, mishaps>>

Sweep == RestartsBracket \/ FinishesBracket

----------------------------------------------------------------------------
Results == \E r \in Late : Bats(r) \/ Resolves(r) \/ ResolvesLate(r) \/ EndsWithoutEffect(r)
Normal == OpensForm \/ BuysBack \/ Leaves
Closing == ClosesRound \/ DrawsBracket \/ ClosesLastRound
Playing == \E s \in Places : \E w \in Players : Wins(s, w)
GoingOn == \E a \in advancing : GoesOn(a[1], a[2])

Next ==
  \/ Results \/ Normal \/ Closing \/ Playing \/ GoingOn \/ Sweep
  \/ \E a \in advancing : GoesNowhere(a[1], a[2])
  \/ \E s \in Places :
       EndsUndecided(s) \/ \E w \in Players \cup {Nobody} : SweepDecides(s, w)
  \/ \E p \in Players : Withdraws(p)

Spec == Init /\ [][Next]_vars

\* The jobs run again and again, a request that is not killed ends, and a match is
\* played, or the two-hour sweep ends it.
Fairness == WF_vars(Closing) /\ WF_vars(Playing) /\ WF_vars(GoingOn) /\ WF_vars(Sweep)
LiveSpec == Spec /\ Fairness

----------------------------------------------------------------------------
(* Properties.                                                             *)

\* Nobody stands in two bracket matches at once, whatever is redrawn.
OnePlaceAtATime ==
  \A s, t \in Places : s # t /\ Open(s) /\ Open(t) =>
    \A p \in Players : ~(p \in Sides(s) /\ p \in Sides(t))

\* Nobody plays themselves, and whoever lost a bracket match never plays another.
LosersStayOut ==
  \A s \in Places : Open(s) =>
    /\ Full(s) => bracket[s].one # bracket[s].two
    /\ \A p \in Sides(s) \ {Nobody} : ~Lost(p)

\* Two rounds are scheduled, and each further one takes somebody who was out of the
\* tournament and came back, by a buyback or by a result that came after the cut.
ScheduledRounds ==
  phase = "normal" => round <= SCHEDULED_NORMAL_ROUNDS + back + revived

\* "Two rounds, whatever N is", and only buybacks buy a third: a result that comes after
\* the cut refutes it, when the cut has put out both of the match's players.
TwoRoundsWithoutBuyback ==
  phase = "normal" /\ back = 0 => round <= SCHEDULED_NORMAL_ROUNDS

\* The bracket goes on to its champion.
BracketEnds == phase = "knockout" ~> phase = "completed"

\* A draw that is due and wants a place whose match was completed.
Collides == Stalled /\ Cardinality(Alive) >= 2 /\ \A o \in Orders(Alive) : ~Fits(o)

\* The bracket goes on to its champion, but for the one thing that stops it.
BracketEndsUnlessTaken == phase = "knockout" ~> (phase = "completed" \/ Collides)

=============================================================================
