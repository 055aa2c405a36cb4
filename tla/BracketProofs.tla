--------------------------- MODULE BracketProofs ---------------------------
(***************************************************************************)
(* What the draw, the winners who go on and the restarts of a bracket keep *)
(* in order, for fields of any size and any number of mishaps.             *)
(***************************************************************************)
EXTENDS Bracket, SequenceTheorems, FiniteSetTheorems, TLAPS

LEMMA LargestField ==
  /\ Most \in Fields /\ Most \in Nat \ {0} /\ \A k \in Fields : k <= Most
  /\ knockoutThreshold(Most) \in Nat
  /\ Players \subseteq Nat \ {0} /\ Nobody \notin Players
<1>1. Most \in Fields /\ \A k \in Fields : k <= Most
  BY BracketAssumption DEF Most
<1>2. Most \in Nat \ {0}
  BY <1>1, BracketAssumption
<1>3. knockoutThreshold(Most) \in Nat
  BY <1>2 DEF knockoutThreshold
<1> QED
  BY <1>1, <1>2, <1>3 DEF Players, Nobody

----------------------------------------------------------------------------
(* Entrants, and the rounds they earn.                                     *)

Where == {"none", "in", "out", "left"}

\* The numbers of the tournament, and where the players of late results are.
CupTyped ==
  /\ phase \in {"normal", "knockout", "completed"}
  /\ round \in Nat \ {0} /\ field \in Nat
  /\ entrants \in Nat /\ quit \in Nat /\ active \in 0..entrants
  /\ forms \in Nat /\ back \in Nat /\ revived \in Nat
  /\ result \in [Seats -> Where]

\* Who is on the way in a result is one of those it is counted with.
Counted ==
  phase = "normal" =>
    /\ Cardinality(InFlight("in")) <= active
    /\ Cardinality(InFlight("out")) <= entrants - active
    /\ entrants <= Most /\ field <= Most

\* The first round halves the field it started with.  A later one that is not the last
\* finds more than half of it active: each time that many were cut, and came back.
Returns == back + revived

Earned ==
  phase = "normal" =>
    \/ round = 1 /\ (field = 0 \/ active <= field + Returns)
    \/ /\ round > 1 /\ field > 0 /\ round <= 2 + Returns
       /\ active + round <= knockoutThreshold(field) + 2 + Returns

CountInv == CupTyped /\ Counted /\ Earned

\* Half of a smaller number is no more.
LEMMA HalfIsMonotonic ==
  ASSUME NEW m \in Nat, NEW n \in Nat, m <= n
  PROVE  m \div 2 <= n \div 2 /\ m \div 2 \in Nat /\ n \div 2 \in Nat
OBVIOUS

LEMMA DrawRoundType == \A n \in Nat : DrawRound(n) \in Rounds /\ DrawRound(n) \in Nat /\ DrawRound(n) # 0
BY DEF DrawRound, Rounds, Ro16, Qf, Sf, Final

LEMMA SeatsAreFinite ==
  /\ IsFiniteSet(Seats)
  /\ \A S \in SUBSET Seats : IsFiniteSet(S) /\ Cardinality(S) \in Nat
<1>1. IsFiniteSet({"winner"} \cup {"loser"})
  <2>1. IsFiniteSet({} \cup {"winner"})
    BY FS_EmptySet, FS_AddElement
  <2>2. {} \cup {"winner"} = {"winner"}
    OBVIOUS
  <2>3. IsFiniteSet({"winner"})
    BY <2>1, <2>2
  <2> QED
    BY <2>3, FS_AddElement
<1>2. IsFiniteSet({"winner", "loser"})
  <2>1. {"winner", "loser"} = {"winner"} \cup {"loser"}
    OBVIOUS
  <2> QED
    BY <1>1, <2>1
<1>3. IsFiniteSet(Seats)
  BY <1>2, BracketAssumption, FS_Product DEF Seats
<1> QED
  BY <1>3, FS_Subset, FS_CardinalityType

\* One side of a result goes from was to is.
LEMMA SeatMoves ==
  ASSUME result \in [Seats -> Where], NEW x \in Seats, NEW is \in Where, result[x] # is,
         result' = [result EXCEPT ![x] = is]
  PROVE  \A w \in Where :
           Cardinality(InFlight(w)') = IF w = result[x] THEN Cardinality(InFlight(w)) - 1
                                       ELSE IF w = is THEN Cardinality(InFlight(w)) + 1
                                       ELSE Cardinality(InFlight(w))
<1> SUFFICES ASSUME NEW w \in Where
             PROVE  Cardinality(InFlight(w)') = IF w = result[x] THEN Cardinality(InFlight(w)) - 1
                                       ELSE IF w = is THEN Cardinality(InFlight(w)) + 1
                                       ELSE Cardinality(InFlight(w))
  OBVIOUS
<1>1. InFlight(w) \subseteq Seats /\ IsFiniteSet(InFlight(w))
  BY SeatsAreFinite DEF InFlight
<1>2. CASE w = result[x]
  <2>1. InFlight(w)' = InFlight(w) \ {x} /\ x \in InFlight(w)
    BY <1>2 DEF InFlight
  <2> QED
    BY <1>1, <1>2, <2>1, FS_RemoveElement
<1>3. CASE w = is
  <2>1. InFlight(w)' = InFlight(w) \cup {x} /\ x \notin InFlight(w)
    BY <1>3 DEF InFlight
  <2> QED
    BY <1>1, <1>3, <2>1, FS_AddElement
<1>4. CASE w # result[x] /\ w # is
  <2>1. InFlight(w)' = InFlight(w)
    BY <1>4 DEF InFlight
  <2> QED
    BY <1>4, <2>1
<1> QED
  BY <1>2, <1>3, <1>4

\* Both players of a match that bats were active.
LEMMA SeatsTaken ==
  ASSUME CupTyped, NEW r \in Late, Idle(r),
         result' = [result EXCEPT ![<<r, "winner">>] = "in", ![<<r, "loser">>] = "in"]
  PROVE  /\ result' \in [Seats -> Where]
         /\ Cardinality(InFlight("in")') = Cardinality(InFlight("in")) + 2
         /\ Cardinality(InFlight("out")') = Cardinality(InFlight("out"))
<1> DEFINE x == <<r, "winner">>
           y == <<r, "loser">>
<1>1. /\ result \in [Seats -> Where] /\ x \in Seats /\ y \in Seats /\ x # y
      /\ result[x] = "none" /\ result[y] = "none"
  BY DEF CupTyped, Seats, Idle
<1> HIDE DEF x, y
<1>2. result' = [result EXCEPT ![x] = "in", ![y] = "in"]
  BY DEF x, y
<1>3. result' \in [Seats -> Where]
  BY <1>1, <1>2 DEF Where
<1>4. InFlight("in")' = (InFlight("in") \cup {x}) \cup {y} /\ x \notin InFlight("in")
      /\ y \notin InFlight("in") \cup {x} /\ InFlight("out")' = InFlight("out")
  BY <1>1, <1>2 DEF InFlight
<1>5. IsFiniteSet(InFlight("in")) /\ IsFiniteSet(InFlight("in") \cup {x}) /\ Cardinality(InFlight("in")) \in Nat
  BY SeatsAreFinite, FS_AddElement DEF InFlight
<1>6. /\ Cardinality(InFlight("in") \cup {x}) = Cardinality(InFlight("in")) + 1
      /\ Cardinality((InFlight("in") \cup {x}) \cup {y}) = Cardinality(InFlight("in") \cup {x}) + 1
  BY <1>4, <1>5, FS_AddElement
<1>7. Cardinality((InFlight("in") \cup {x}) \cup {y}) = Cardinality(InFlight("in")) + 2
  BY <1>5, <1>6
<1>8. /\ Cardinality(InFlight("in")') = Cardinality(InFlight("in")) + 2
      /\ Cardinality(InFlight("out")') = Cardinality(InFlight("out"))
  BY <1>4, <1>7
<1> QED
  BY <1>3, <1>8

\* A result that has come counts no player any more.
LEMMA SeatsFreed ==
  ASSUME CupTyped, NEW r \in Late, result' = Landed(r)
  PROVE  /\ result' \in [Seats -> Where]
         /\ \A w \in {"in", "out"} :
              /\ Cardinality(InFlight(w)) \in Nat /\ Cardinality(InFlight(w)') \in Nat
              /\ Cardinality(InFlight(w)') + One(result[<<r, "winner">>] = w)
                   + One(result[<<r, "loser">>] = w) = Cardinality(InFlight(w))
<1> DEFINE x == <<r, "winner">>
           y == <<r, "loser">>
<1>1. result \in [Seats -> Where] /\ x \in Seats /\ y \in Seats /\ x # y
  BY DEF CupTyped, Seats
<1> HIDE DEF x, y
<1>2. result' = [result EXCEPT ![x] = "none", ![y] = "none"]
  BY DEF x, y, Landed
<1>3. result' \in [Seats -> Where]
  BY <1>1, <1>2 DEF Where
<1>4. ASSUME NEW w \in {"in", "out"}
      PROVE  /\ Cardinality(InFlight(w)) \in Nat /\ Cardinality(InFlight(w)') \in Nat
             /\ Cardinality(InFlight(w)') + One(result[x] = w) + One(result[y] = w)
                  = Cardinality(InFlight(w))
  <2> DEFINE S == InFlight(w)
  <2>1. IsFiniteSet(S) /\ IsFiniteSet(S \ {x}) /\ Cardinality(S) \in Nat /\ Cardinality(S \ {x}) \in Nat
    <3>1. S \in SUBSET Seats /\ S \ {x} \in SUBSET Seats
      BY DEF InFlight
    <3> QED
      BY <3>1, SeatsAreFinite
  <2>2. InFlight(w)' = (S \ {x}) \ {y}
    BY <1>1, <1>2, <1>4 DEF InFlight
  <2>3. (x \in S <=> result[x] = w) /\ (y \in S \ {x} <=> result[y] = w)
    BY <1>1 DEF InFlight
  <2> HIDE DEF S
  <2>4. /\ Cardinality(S \ {x}) = IF x \in S THEN Cardinality(S) - 1 ELSE Cardinality(S)
        /\ Cardinality((S \ {x}) \ {y}) =
             IF y \in S \ {x} THEN Cardinality(S \ {x}) - 1 ELSE Cardinality(S \ {x})
    BY <2>1, FS_RemoveElement
  <2>5. Cardinality((S \ {x}) \ {y}) \in Nat
    <3>1. (S \ {x}) \ {y} \in SUBSET Seats
      BY DEF S, InFlight
    <3> QED
      BY <3>1, SeatsAreFinite
  <2>6. Cardinality((S \ {x}) \ {y}) + One(result[x] = w) + One(result[y] = w) = Cardinality(S)
    BY <2>1, <2>3, <2>4, <2>5 DEF One
  <2> QED
    BY <2>1, <2>2, <2>5, <2>6 DEF S
<1> QED
  BY <1>3, <1>4 DEF x, y

\* Of n players one moves: those on their way are still no more than there are.
LEMMA PlayerMoves ==
  ASSUME CupTyped, NEW was \in {"in", "out"}, NEW is \in Where, NEW n \in Nat, is # was,
         Cardinality(InFlight(was)) <= n, OnePlayer(was, is, n)
  PROVE  /\ result' \in [Seats -> Where]
         /\ Cardinality(InFlight(was)') <= n - 1
         /\ Cardinality(InFlight(is)') <= Cardinality(InFlight(is)) + 1
         /\ \A w \in Where \ {was, is} : Cardinality(InFlight(w)') = Cardinality(InFlight(w))
<1>1. result \in [Seats -> Where] /\ was \in Where
  BY DEF CupTyped, Where
<1>2. \A w \in Where : Cardinality(InFlight(w)) \in Nat
  BY SeatsAreFinite DEF InFlight
<1>3. CASE Cardinality(InFlight(was)) < n /\ UNCHANGED result
  <2>1. \A w \in Where : InFlight(w)' = InFlight(w)
    BY <1>3 DEF InFlight
  <2> QED
    BY <1>1, <1>2, <1>3, <2>1
<1>4. CASE \E x \in InFlight(was) : result' = [result EXCEPT ![x] = is]
  <2>1. PICK x \in Seats : result[x] = was /\ result' = [result EXCEPT ![x] = is]
    BY <1>4 DEF InFlight
  <2>2. result' \in [Seats -> Where]
    BY <1>1, <2>1
  <2>3. \A w \in Where :
           Cardinality(InFlight(w)') = IF w = was THEN Cardinality(InFlight(w)) - 1
                                       ELSE IF w = is THEN Cardinality(InFlight(w)) + 1
                                       ELSE Cardinality(InFlight(w))
    BY <1>1, <2>1, SeatMoves
  <2> QED
    BY <1>1, <1>2, <2>2, <2>3
<1> QED
  BY <1>3, <1>4 DEF OnePlayer

\* In a round, more are active only by as many as came back.
LEMMA EarnedInRound ==
  ASSUME CountInv, CupTyped', UNCHANGED <<phase, round, field>>,
         NEW more \in Nat, Returns' = Returns + more, active' <= active + more
  PROVE  Earned'
<1>1. PICK t \in Nat : t = knockoutThreshold(field) /\ t = knockoutThreshold(field')
  BY DEF CountInv, CupTyped, knockoutThreshold
<1>2. /\ active \in Nat /\ round \in Nat /\ field \in Nat /\ Returns \in Nat /\ active' \in Nat
      /\ phase' = phase /\ round' = round /\ field' = field
  BY DEF CountInv, CupTyped, Returns
<1> QED
  BY <1>1, <1>2 DEF CountInv, Earned

LEMMA ResultsKeepCount ==
  ASSUME CountInv, Results
  PROVE  CountInv'
<1>1. CupTyped /\ Counted /\ Earned
  BY DEF CountInv
<1>2. PICK r \in Late : Bats(r) \/ Resolves(r) \/ ResolvesLate(r) \/ EndsWithoutEffect(r)
  BY DEF Results
<1>3. CASE Bats(r)
  <2>1. /\ phase = "normal" /\ UNCHANGED cup /\ active >= Cardinality(InFlight("in")) + 2
        /\ result' \in [Seats -> Where]
        /\ Cardinality(InFlight("in")') = Cardinality(InFlight("in")) + 2
        /\ Cardinality(InFlight("out")') = Cardinality(InFlight("out"))
    BY <1>1, <1>3, SeatsTaken DEF Bats
  <2>2. UNCHANGED <<phase, round, field, entrants, quit, active, forms, back, revived>>
    BY <2>1 DEF cup, people, returns
  <2>3. CupTyped' /\ Counted'
    BY <1>1, <2>1, <2>2 DEF CupTyped, Counted
  <2> QED
    BY <1>1, <2>2, <2>3 DEF CountInv, Earned, Returns
<1>4. CASE Resolves(r) \/ ResolvesLate(r) \/ EndsWithoutEffect(r)
  <2> DEFINE won == One(result[<<r, "winner">>] = "out")
             lost == One(result[<<r, "loser">>] = "in")
  <2>1. /\ result' \in [Seats -> Where]
        /\ \A w \in {"in", "out"} :
             /\ Cardinality(InFlight(w)) \in Nat /\ Cardinality(InFlight(w)') \in Nat
             /\ Cardinality(InFlight(w)') + One(result[<<r, "winner">>] = w)
                  + One(result[<<r, "loser">>] = w) = Cardinality(InFlight(w))
    BY <1>1, <1>4, SeatsFreed DEF Resolves, ResolvesLate, EndsWithoutEffect
  <2>2. \A c \in BOOLEAN : One(c) \in {0, 1}
    BY DEF One
  <2>3. CASE Resolves(r)
    <3>1. /\ phase = "normal" /\ active' = active + won - lost /\ revived' = revived + won
          /\ UNCHANGED <<phase, round, field, entrants, quit, forms, back>>
      BY <2>3 DEF Resolves
    <3>2. /\ won \in {0, 1} /\ lost \in {0, 1}
          /\ One(result[<<r, "winner">>] = "in") \in {0, 1} /\ One(result[<<r, "loser">>] = "out") \in {0, 1}
      BY <2>2
    <3>3. /\ Cardinality(InFlight("in")') + One(result[<<r, "winner">>] = "in") + lost
               = Cardinality(InFlight("in"))
          /\ Cardinality(InFlight("out")') + won + One(result[<<r, "loser">>] = "out")
               = Cardinality(InFlight("out"))
          /\ Cardinality(InFlight("in")) \in Nat /\ Cardinality(InFlight("in")') \in Nat
          /\ Cardinality(InFlight("out")) \in Nat /\ Cardinality(InFlight("out")') \in Nat
      BY <2>1
    <3> HIDE DEF won, lost
    <3>4. /\ Cardinality(InFlight("in")) <= active /\ Cardinality(InFlight("out")) <= entrants - active
          /\ entrants \in Nat /\ active \in 0..entrants /\ revived \in Nat /\ back \in Nat
          /\ entrants <= Most /\ field <= Most
      BY <1>1, <3>1 DEF Counted, CupTyped
    <3>5. active' \in 0..entrants /\ revived' \in Nat
      BY <3>1, <3>2, <3>3, <3>4
    <3>6. Cardinality(InFlight("in")') <= active' /\ Cardinality(InFlight("out")') <= entrants - active'
      BY <3>1, <3>2, <3>3, <3>4
    <3>7. CupTyped'
      BY <1>1, <2>1, <3>1, <3>5 DEF CupTyped
    <3>8. Counted'
      BY <3>1, <3>4, <3>6 DEF Counted
    <3>9. Earned'
      <4>1. won \in Nat /\ Returns' = Returns + won /\ active' <= active + won
        BY <3>1, <3>2, <3>4 DEF Returns
      <4> QED
        BY <3>1, <3>7, <4>1, EarnedInRound
    <3> QED
      BY <3>7, <3>8, <3>9 DEF CountInv
  <2>4. CASE ResolvesLate(r) \/ EndsWithoutEffect(r)
    <3>1. UNCHANGED <<phase, round, field, entrants, quit, active, forms, back, revived>>
      BY <2>4 DEF ResolvesLate, EndsWithoutEffect, cup, people, returns
    <3>2. CupTyped'
      BY <1>1, <2>1, <3>1 DEF CupTyped
    <3>3. \A w \in {"in", "out"} : Cardinality(InFlight(w)') <= Cardinality(InFlight(w))
      <4> SUFFICES ASSUME NEW w \in {"in", "out"}
                   PROVE  Cardinality(InFlight(w)') <= Cardinality(InFlight(w))
        OBVIOUS
      <4>1. One(result[<<r, "winner">>] = w) \in {0, 1} /\ One(result[<<r, "loser">>] = w) \in {0, 1}
        BY <2>2
      <4> QED
        BY <2>1, <4>1
    <3>4. Counted'
      BY <1>1, <2>1, <3>1, <3>3 DEF Counted, CupTyped
    <3> QED
      BY <1>1, <3>1, <3>2, <3>4 DEF CountInv, Earned, Returns
  <2> QED
    BY <1>4, <2>3, <2>4
<1> QED
  BY <1>2, <1>3, <1>4

LEMMA EntrantsKeepCount ==
  ASSUME CountInv, OpensForm \/ BuysBack \/ Leaves
  PROVE  CountInv'
<1>1. /\ CupTyped /\ phase = "normal"
      /\ Cardinality(InFlight("in")) <= active /\ Cardinality(InFlight("out")) <= entrants - active
      /\ entrants <= Most /\ field <= Most /\ Most \in Nat
      /\ Cardinality(InFlight("in")) \in Nat /\ Cardinality(InFlight("out")) \in Nat
      /\ entrants \in Nat /\ active \in Nat /\ active <= entrants /\ forms \in Nat /\ back \in Nat
      /\ revived \in Nat /\ quit \in Nat /\ entrants - active \in Nat
  BY SeatsAreFinite, LargestField
     DEF CountInv, Counted, CupTyped, OpensForm, BuysBack, Leaves, InFlight
<1>2. CASE OpensForm
  <2>1. /\ forms' = forms + 1
        /\ UNCHANGED <<phase, round, field, entrants, quit, active, back, revived, result>>
    BY <1>2 DEF OpensForm, people
  <2> QED
    BY <1>1, <2>1 DEF CountInv, CupTyped, Counted, Earned, Returns, InFlight
<1>3. CASE BuysBack
  <2>1. /\ forms > 0 /\ active < entrants
        /\ active' = active + 1 /\ back' = back + 1 /\ forms' = forms - 1
        /\ OnePlayer("out", "in", entrants - active)
        /\ UNCHANGED <<phase, round, field, entrants, quit, revived>>
    BY <1>3 DEF BuysBack
  <2>2. /\ result' \in [Seats -> Where]
        /\ Cardinality(InFlight("out")') <= entrants - active - 1
        /\ Cardinality(InFlight("in")') <= Cardinality(InFlight("in")) + 1
    BY <1>1, <2>1, PlayerMoves DEF Where
  <2>3. Cardinality(InFlight("out")') \in Nat /\ Cardinality(InFlight("in")') \in Nat
    BY SeatsAreFinite DEF InFlight
  <2>4. CupTyped' /\ Counted'
    BY <1>1, <2>1, <2>2, <2>3 DEF CupTyped, Counted
  <2>5. Earned'
    <3>1. Returns' = Returns + 1 /\ active' <= active + 1 /\ 1 \in Nat
      BY <1>1, <2>1 DEF Returns
    <3> QED
      BY <2>1, <2>4, <3>1, EarnedInRound
  <2> QED
    BY <2>4, <2>5 DEF CountInv
<1>4. CASE Leaves
  <2>1. /\ entrants' = entrants - 1 /\ quit' = quit + 1
        /\ UNCHANGED <<phase, round, field, forms, back, revived>>
    BY <1>4 DEF Leaves, returns
  <2>2. /\ result' \in [Seats -> Where] /\ active' \in 0..(entrants - 1) /\ active' <= active
        /\ Cardinality(InFlight("in")') <= active'
        /\ Cardinality(InFlight("out")') <= entrants - 1 - active'
    <3>1. CASE active > 0 /\ active' = active - 1 /\ OnePlayer("in", "left", active)
      <4>1. /\ result' \in [Seats -> Where] /\ Cardinality(InFlight("in")') <= active - 1
            /\ Cardinality(InFlight("out")') = Cardinality(InFlight("out"))
        BY <1>1, <3>1, PlayerMoves DEF Where
      <4> QED
        BY <1>1, <3>1, <4>1
    <3>2. CASE active < entrants /\ active' = active /\ OnePlayer("out", "left", entrants - active)
      <4>1. /\ result' \in [Seats -> Where] /\ Cardinality(InFlight("out")') <= entrants - active - 1
            /\ Cardinality(InFlight("in")') = Cardinality(InFlight("in"))
        BY <1>1, <3>2, PlayerMoves DEF Where
      <4>2. Cardinality(InFlight("out")') \in Nat
        BY SeatsAreFinite DEF InFlight
      <4> QED
        BY <1>1, <3>2, <4>1, <4>2
    <3> QED
      BY <1>4, <3>1, <3>2 DEF Leaves
  <2>3. CupTyped' /\ Counted'
    BY <1>1, <2>1, <2>2 DEF CupTyped, Counted
  <2>4. Earned'
    <3>1. /\ back' = back /\ revived' = revived /\ active' <= active /\ active' \in Nat
          /\ UNCHANGED <<phase, round, field>>
      BY <1>1, <2>1, <2>2
    <3>2. Returns' = Returns + 0 /\ active' <= active + 0 /\ 0 \in Nat
      BY <1>1, <3>1 DEF Returns
    <3> QED
      BY <2>3, <3>1, <3>2, EarnedInRound
  <2> QED
    BY <2>3, <2>4 DEF CountInv
<1> QED
  BY <1>2, <1>3, <1>4

\* A round after the second opens only when more are active than the field has halves.
LEMMA CloseKeepsCount ==
  ASSUME CountInv, ClosesRound
  PROVE  CountInv'
<1> DEFINE s == Size
<1>1. /\ CupTyped /\ Counted /\ Earned /\ phase = "normal"
      /\ field \in Nat /\ entrants \in Nat /\ active \in Nat /\ active <= entrants
      /\ entrants <= Most /\ field <= Most /\ Most \in Nat /\ Returns \in Nat
      /\ round \in Nat \ {0}
  BY LargestField DEF CountInv, CupTyped, Counted, ClosesRound, Returns
<1>2. /\ active >= 2 /\ ~ shouldStartKnockout(active, s)
      /\ active' = active \div 2 /\ round' = round + 1 /\ field' = s /\ forms' = 0
      /\ UNCHANGED <<phase, entrants, quit, back, revived>>
      /\ Cut /\ Returns' = Returns
  BY DEF ClosesRound, playersToAdvance, Returns
<1>3. s = (IF field > 0 THEN field ELSE active) /\ s \in Nat \ {0} /\ s <= Most
  BY <1>1, <1>2 DEF Size, resolveFieldSize
<1> HIDE DEF s
<1>4. /\ active' \in 0..entrants /\ active' < active /\ active' \in Nat
  BY <1>1, <1>2
<1>5. result' \in [Seats -> Where]
  <2>1. PICK dropped \in SUBSET InFlight("in") :
          result' = [x \in Seats |-> IF x \in dropped THEN "out" ELSE result[x]]
    BY <1>2 DEF Cut
  <2> QED
    BY <1>1, <2>1 DEF CupTyped, Where
<1>6. CupTyped'
  BY <1>1, <1>2, <1>3, <1>4, <1>5 DEF CupTyped
<1>7. Counted'
  <2>1. /\ Cardinality(InFlight("in")') <= active'
        /\ Cardinality(InFlight("out")') <= Cardinality(InFlight("out")) + (active - active')
        /\ Cardinality(InFlight("out")) <= entrants - active
    BY <1>1, <1>2 DEF Cut, Counted
  <2>2. Cardinality(InFlight("out")) \in Nat /\ Cardinality(InFlight("out")') \in Nat
    BY SeatsAreFinite DEF InFlight
  <2>3. Cardinality(InFlight("out")') <= entrants - active'
    BY <1>1, <1>4, <2>1, <2>2
  <2> QED
    BY <1>1, <1>2, <1>3, <2>1, <2>3 DEF Counted
<1>8. Earned'
  <2> DEFINE t == knockoutThreshold(s)
  <2>1. t \in Nat /\ active > t /\ t = (IF s <= 1 THEN 1 ELSE s \div 2)
    BY <1>1, <1>2, <1>3 DEF knockoutThreshold, shouldStartKnockout
  <2>2. CASE round = 1 /\ (field = 0 \/ active <= field + Returns)
    <3>1. active \div 2 <= t + Returns
      <4>1. active <= s + Returns
        BY <1>1, <1>3, <2>2
      <4> QED
        BY <1>1, <1>2, <1>3, <2>1, <4>1
    <3> QED
      BY <1>1, <1>2, <1>3, <2>1, <2>2, <3>1 DEF Earned
  <2>3. CASE /\ round > 1 /\ field > 0 /\ round <= 2 + Returns
             /\ active + round <= knockoutThreshold(field) + 2 + Returns
    <3>1. s = field
      BY <1>3, <2>3
    <3>2. active + round <= t + 2 + Returns
      BY <2>3, <3>1
    <3>3. active' + round' <= t + 2 + Returns /\ round' <= 2 + Returns /\ round' > 1
      BY <1>1, <1>2, <1>4, <2>1, <2>3, <3>2
    <3> QED
      BY <1>1, <1>2, <1>3, <2>1, <3>3 DEF Earned
  <2> QED
    BY <1>1, <2>2, <2>3 DEF Earned
<1> QED
  BY <1>6, <1>7, <1>8 DEF CountInv

LEMMA NextKeepsCount ==
  ASSUME CountInv, [Next]_vars
  PROVE  CountInv'
<1>1. CupTyped
  BY DEF CountInv
<1>2. CASE UNCHANGED <<cup, result>>
  <2>1. UNCHANGED <<phase, round, field, entrants, quit, active, forms, back, revived, result>>
    BY <1>2 DEF cup, people, returns
  <2> QED
    BY <2>1 DEF CountInv, CupTyped, Counted, Earned, Returns, InFlight
<1>3. CASE DrawsBracket
  <2>1. active \in Nat
    BY <1>1 DEF CupTyped
  <2>2. /\ phase' = "knockout" /\ round' = DrawRound(active)
        /\ field' = 0 /\ entrants' = 0 /\ quit' = 0 /\ active' = 0 /\ forms' = 0 /\ back' = 0 /\ revived' = 0
        /\ result' = [x \in Seats |-> IF result[x] = "in" THEN "in" ELSE "none"]
    BY <1>3 DEF DrawsBracket
  <2>3. round' \in Nat \ {0} /\ result' \in [Seats -> Where]
    BY <2>1, <2>2, DrawRoundType DEF Where
  <2> QED
    BY <2>2, <2>3 DEF CountInv, CupTyped, Counted, Earned, Returns
<1>4. CASE ClosesLastRound
  <2>1. phase' = "completed" /\ forms' = 0 /\ UNCHANGED <<round, field, entrants, quit, active, back, revived, result>>
    BY <1>4 DEF ClosesLastRound, people
  <2> QED
    BY <1>1, <2>1 DEF CountInv, CupTyped, Counted, Earned, Returns
<1>5. CASE FinishesBracket
  <2>1. phase' = "completed" /\ UNCHANGED <<round, field, entrants, quit, active, forms, back, revived, result>>
    BY <1>5 DEF FinishesBracket, people, returns
  <2> QED
    BY <1>1, <2>1 DEF CountInv, CupTyped, Counted, Earned, Returns
<1>6. CASE \/ Playing \/ GoingOn \/ RestartsBracket
           \/ \E a \in advancing : GoesNowhere(a[1], a[2])
           \/ \E s \in Places :
                EndsUndecided(s) \/ \E w \in Players \cup {Nobody} : SweepDecides(s, w)
           \/ \E p \in Players : Withdraws(p)
           \/ UNCHANGED vars
  BY <1>2, <1>6 DEF Playing, Wins, GoingOn, GoesOn, RestartsBracket, GoesNowhere, EndsUndecided,
     SweepDecides, Withdraws, Match, vars
<1> QED
  BY <1>3, <1>4, <1>5, <1>6, ResultsKeepCount, EntrantsKeepCount, CloseKeepsCount
     DEF Next, Normal, Closing, Sweep

LEMMA InitCount == Init => CountInv
<1> SUFFICES ASSUME Init PROVE CountInv
  OBVIOUS
<1>1. active \in Nat \ {0} /\ active <= Most /\ field \in {0, active} /\ Most \in Nat
  BY LargestField, BracketAssumption DEF Init
<1>2. InFlight("in") = {} /\ InFlight("out") = {} /\ result \in [Seats -> Where]
  BY DEF Init, InFlight, Where
<1>3. CupTyped
  BY <1>1, <1>2 DEF Init, CupTyped
<1>4. Counted
  BY <1>1, <1>2, FS_EmptySet DEF Init, Counted
<1>5. Earned
  BY <1>1 DEF Init, Earned, Returns
<1> QED
  BY <1>3, <1>4, <1>5 DEF CountInv

\* Whatever the size of the field, whoever leaves and however many results come after
\* the cut, a normal round beyond the second has been earned by somebody who was out and
\* came back.
THEOREM RoundsAreEarned == Spec => []ScheduledRounds
<1>1. CountInv /\ [Next]_vars => CountInv'
  BY NextKeepsCount
<1>2. CountInv => ScheduledRounds
  BY DEF CountInv, CupTyped, Earned, Returns, ScheduledRounds, SCHEDULED_NORMAL_ROUNDS
<1> QED
  BY <1>1, <1>2, InitCount, PTL DEF Spec
----------------------------------------------------------------------------
(* A draw.                                                                 *)

\* Everybody in the order is there once.
Injective(o, n) == \A i, j \in 1..n : i # j => o[i] # o[j]

\* Of an odd number the first is left out, and an even number is drawn.
LEMMA DrawnOrder ==
  ASSUME NEW S, NEW n \in Nat, NEW o \in [1..n -> S], Injective(o, n)
  PROVE  /\ Len(o) = n /\ Len(Drawn(o)) \in Nat
         /\ \A i \in 1..Len(Drawn(o)) : Drawn(o)[i] \in S
         /\ Injective(Drawn(o), Len(Drawn(o)))
<1>1. o \in Seq(S)
  BY SeqDef
<1>2. Len(o) = n
  <2>1. 1..Len(o) = 1..n /\ Len(o) \in Nat
    BY <1>1, LenProperties
  <2> QED
    BY <2>1
<1>3. CASE n % 2 = 1
  <2>1. o # << >>
    BY <1>2, <1>3
  <2>2. /\ Len(Tail(o)) = n - 1 /\ n - 1 \in Nat
        /\ \A i \in 1..Len(Tail(o)) : Tail(o)[i] = o[i + 1]
    BY <1>1, <1>2, <2>1, <1>3, HeadTailProperties
  <2>3. Drawn(o) = Tail(o)
    BY <1>2, <1>3 DEF Drawn
  <2>4. \A i \in 1..(n - 1) : i + 1 \in 1..n
    OBVIOUS
  <2> QED
    BY <1>2, <2>2, <2>3, <2>4 DEF Injective
<1>4. CASE n % 2 # 1
  BY <1>2, <1>4 DEF Drawn
<1> QED
  BY <1>2, <1>3, <1>4

\* Each place of the draw gets two of them, and no two places the same.
LEMMA DrawPairs ==
  ASSUME NEW S, NEW n \in Nat, NEW o \in [1..n -> S], Injective(o, n)
  PROVE  /\ \A s \in DrawPlaces(o) : s[1] = DrawRound(n)
         /\ \A s \in DrawPlaces(o) :
              /\ FixtureAt(o, s).one \in S /\ FixtureAt(o, s).two \in S
              /\ FixtureAt(o, s).one # FixtureAt(o, s).two
              /\ FixtureAt(o, s).status = "confirmed" /\ FixtureAt(o, s).winner = Nobody
         /\ \A s, t \in DrawPlaces(o) : s # t =>
              {FixtureAt(o, s).one, FixtureAt(o, s).two} \cap {FixtureAt(o, t).one, FixtureAt(o, t).two} = {}
<1> DEFINE d == Drawn(o)
           l == Len(Drawn(o))
<1>1. /\ Len(o) = n /\ l \in Nat /\ \A i \in 1..l : d[i] \in S
      /\ \A i, j \in 1..l : i # j => d[i] # d[j]
  BY DrawnOrder DEF Injective
<1>2. ASSUME NEW s \in DrawPlaces(o)
      PROVE  /\ s = <<DrawRound(n), s[2]>> /\ s[2] \in Nat
             /\ 2 * s[2] + 1 \in 1..l /\ 2 * s[2] + 2 \in 1..l
             /\ FixtureAt(o, s) = Fixture(d[2 * s[2] + 1], d[2 * s[2] + 2])
  <2>1. PICK i \in DOMAIN Pairs(o) : s = <<DrawRound(Len(o)), i>>
    BY <1>2 DEF DrawPlaces
  <2>2. i \in 0..(l \div 2 - 1) /\ Pairs(o)[i] = <<d[2 * i + 1], d[2 * i + 2]>>
    BY <2>1 DEF Pairs
  <2>3. i \in Nat /\ 2 * i + 1 \in 1..l /\ 2 * i + 2 \in 1..l
    BY <1>1, <2>2
  <2> HIDE DEF d, l
  <2> QED
    BY <1>1, <2>1, <2>2, <2>3 DEF FixtureAt
<1> HIDE DEF d, l
<1>3. \A s \in DrawPlaces(o) : s[1] = DrawRound(n)
  BY <1>2
<1>4. ASSUME NEW s \in DrawPlaces(o)
      PROVE  /\ FixtureAt(o, s).one \in S /\ FixtureAt(o, s).two \in S
             /\ FixtureAt(o, s).one # FixtureAt(o, s).two
             /\ FixtureAt(o, s).status = "confirmed" /\ FixtureAt(o, s).winner = Nobody
  BY <1>1, <1>2 DEF Fixture
<1>5. ASSUME NEW s \in DrawPlaces(o), NEW t \in DrawPlaces(o), s # t
      PROVE  {FixtureAt(o, s).one, FixtureAt(o, s).two} \cap {FixtureAt(o, t).one, FixtureAt(o, t).two} = {}
  <2> DEFINE i == s[2]
             j == t[2]
  <2>1. i # j /\ i \in Nat /\ j \in Nat
    BY <1>2, <1>5
  <2>2. /\ 2 * i + 1 # 2 * j + 1 /\ 2 * i + 1 # 2 * j + 2
        /\ 2 * i + 2 # 2 * j + 1 /\ 2 * i + 2 # 2 * j + 2
    BY <2>1
  <2>3. /\ 2 * i + 1 \in 1..l /\ 2 * i + 2 \in 1..l /\ 2 * j + 1 \in 1..l /\ 2 * j + 2 \in 1..l
        /\ FixtureAt(o, s) = Fixture(d[2 * i + 1], d[2 * i + 2])
        /\ FixtureAt(o, t) = Fixture(d[2 * j + 1], d[2 * j + 2])
    BY <1>2
  <2> HIDE DEF i, j
  <2>4. /\ FixtureAt(o, s).one = d[2 * i + 1] /\ FixtureAt(o, s).two = d[2 * i + 2]
        /\ FixtureAt(o, t).one = d[2 * j + 1] /\ FixtureAt(o, t).two = d[2 * j + 2]
    BY <2>3 DEF Fixture
  <2> QED
    BY <1>1, <2>2, <2>3, <2>4
<1> QED
  BY <1>3, <1>4, <1>5

\* Fewer players are drawn for a later round.
LEMMA LaterRounds ==
  ASSUME NEW m \in Nat, NEW n \in Nat, m <= n
  PROVE  DrawRound(n) <= DrawRound(m)
BY DEF DrawRound, Ro16, Qf, Sf, Final
----------------------------------------------------------------------------
(* The invariant of the bracket.                                           *)

Matches == [one : Players \cup {Nobody}, two : Players \cup {Nobody},
            status : {"none", "pending", "confirmed", "completed", "void"},
            winner : Players \cup {Nobody}]

RowsTyped ==
  /\ bracket \in [Places -> Matches]
  /\ \A s \in Places : bracket[s].status \in {"none", "pending"} \/ Full(s)

PlayersTyped ==
  /\ standing \in [Players -> {"none", "knockout", "overwritten", "out"}]
  /\ advancing \subseteq Places \X Players
  /\ mishaps \in 0..MaxMishaps

LEMMA TypesSplit == TypeOK <=> CupTyped /\ RowsTyped /\ PlayersTyped
BY DEF TypeOK, CupTyped, RowsTyped, PlayersTyped, Matches, Where

\* Until the draw there is no match.
Waiting ==
  phase = "normal" =>
    /\ \A s \in Places : bracket[s] = NoMatch
    /\ advancing = {}

Blank == \A s \in Places : bracket[s].status = "none" => bracket[s] = NoMatch

\* Winners who have not gone on yet have won, have not lost, and are nowhere else.
OnTheirWay ==
  /\ \A a \in advancing :
       /\ bracket[a[1]].status = "completed" /\ bracket[a[1]].winner = a[2]
       /\ ~ Lost(a[2])
       /\ \A s \in Places : Open(s) => a[2] \notin Sides(s)
  /\ \A a, b \in advancing : a[2] = b[2] => a = b

\* The side that the winner of a match fills.
FedSide(s) == IF s[2] % 2 = 0 THEN bracket[NextPlace(s)].one ELSE bracket[NextPlace(s)].two

\* From the round of the last draw on, only a winner who has gone on fills a side.
Fed(d) ==
  \A s \in Places :
    s[1] >= d /\ s[1] # Final /\ FedSide(s) # Nobody =>
      bracket[s].status = "completed" /\ \A p \in Players : <<s, p>> \notin advancing

\* Round d is the round of the last draw, or one before it.  Nobody comes back into a
\* bracket, so the next draw is not for an earlier round.
DrawnAt(d) ==
  /\ d <= DrawRound(Cardinality(Alive))
  /\ \A s \in Places : Open(s) => s[1] >= d
  /\ \A a \in advancing : a[1][1] >= d
  /\ Fed(d)

BracketInv ==
  /\ RowsTyped /\ PlayersTyped /\ Waiting /\ Blank /\ OnTheirWay /\ OnePlaceAtATime /\ LosersStayOut
  /\ \E d \in Rounds : DrawnAt(d)

LEMMA PlaceFacts ==
  /\ \A s \in Places : s = <<s[1], s[2]>> /\ s[1] \in Rounds /\ s[2] \in Slots /\ s[1] \in Nat /\ s[2] \in Nat
  /\ \A s \in Places : s[1] # Final => NextPlace(s) \in Places /\ NextPlace(s) # s
<1>1. \A s \in Places : s = <<s[1], s[2]>> /\ s[1] \in Rounds /\ s[2] \in Slots
  BY DEF Places
<1>2. knockoutThreshold(Most) \div 2 \in Nat
  BY LargestField
<1>3. Slots \subseteq Nat /\ \A i \in Slots : i \div 2 \in Slots
  BY <1>2 DEF Slots
<1>4. Rounds \subseteq Nat /\ \A n \in Rounds : n # Final => n + 1 \in Rounds
  BY DEF Rounds, Ro16, Final
<1>5. \A s \in Places : s[1] \in Nat /\ s[2] \in Nat
  BY <1>1, <1>3, <1>4
<1>6. ASSUME NEW s \in Places, s[1] # Final PROVE NextPlace(s) \in Places /\ NextPlace(s) # s
  <2>1. s[1] + 1 \in Rounds /\ s[2] \div 2 \in Slots /\ s[1] + 1 # s[1]
    BY <1>1, <1>3, <1>4, <1>5, <1>6
  <2>2. NextPlace(s) \in Places
    BY <2>1 DEF NextPlace, Places
  <2>3. NextPlace(s)[1] = s[1] + 1
    BY DEF NextPlace
  <2> QED
    BY <2>1, <2>2, <2>3
<1> QED
  BY <1>1, <1>5, <1>6

LEMMA AliveShrinks ==
  ASSUME Alive' \subseteq Alive, NEW d \in Rounds, d <= DrawRound(Cardinality(Alive))
  PROVE  d <= DrawRound(Cardinality(Alive'))
<1>1. IsFiniteSet(Players)
  BY LargestField, FS_Interval DEF Players
<1>2. Alive \subseteq Players
  BY DEF Alive
<1>3. IsFiniteSet(Alive) /\ IsFiniteSet(Alive')
  BY <1>1, <1>2, FS_Subset
<1>4. /\ Cardinality(Alive') <= Cardinality(Alive)
      /\ Cardinality(Alive) \in Nat /\ Cardinality(Alive') \in Nat
  BY <1>3, FS_Subset, FS_CardinalityType
<1>5. DrawRound(Cardinality(Alive)) <= DrawRound(Cardinality(Alive'))
  BY <1>4, LaterRounds
<1> QED
  BY <1>4, <1>5, DrawRoundType DEF Rounds, Ro16, Final

\* Playable matches end, whoever they are given to; winners start on their way.
MatchesEnd ==
  /\ \A s \in Places :
       \/ bracket'[s] = bracket[s]
       \/ /\ Playable(s)
          /\ bracket'[s].one = bracket[s].one /\ bracket'[s].two = bracket[s].two
          /\ bracket'[s].status \in {"completed", "void"}
  /\ \A a \in advancing' :
       \/ a \in advancing
       \/ /\ a \in Places \X Players /\ Playable(a[1]) /\ a[2] \in Sides(a[1])
          /\ bracket'[a[1]].status = "completed" /\ bracket'[a[1]].winner = a[2]
  /\ \A p \in Players : standing'[p] = "knockout" => standing[p] = "knockout"

LEMMA MatchesEndKept ==
  ASSUME BracketInv, RowsTyped', PlayersTyped', MatchesEnd, phase' = phase, phase # "normal"
  PROVE  BracketInv'
<1> USE DEF Open, Sides
<1>1. /\ bracket \in [Places -> Matches] /\ bracket' \in [Places -> Matches]
      /\ advancing \subseteq Places \X Players /\ advancing' \subseteq Places \X Players
      /\ standing \in [Players -> {"none", "knockout", "overwritten", "out"}]
  BY DEF BracketInv, RowsTyped, PlayersTyped
<1>2. Blank /\ OnTheirWay /\ OnePlaceAtATime /\ LosersStayOut
  BY DEF BracketInv
<1>3. /\ \A s \in Places : bracket'[s].one = bracket[s].one /\ bracket'[s].two = bracket[s].two
      /\ \A s \in Places : Open(s)' => Open(s) /\ bracket'[s] = bracket[s]
      /\ \A s \in Places : bracket[s].status = "completed" => bracket'[s] = bracket[s]
  BY DEF MatchesEnd, Playable
<1>4. \A p \in Players : Lost(p) => Lost(p)'
  BY <1>3 DEF Lost
\* Who has lost now and had not before was in a match that ended.
<1>5. ASSUME NEW p \in Players, ~ Lost(p), Lost(p)'
      PROVE  \E s \in Places : /\ Open(s) /\ bracket'[s] # bracket[s] /\ p \in Sides(s)
                               /\ bracket'[s].winner # p
  BY <1>3, <1>5 DEF Lost, MatchesEnd, Playable
<1>6. Blank'
  BY <1>2 DEF Blank, MatchesEnd
<1>7. OnePlaceAtATime'
  BY <1>2, <1>3 DEF OnePlaceAtATime
<1>8. LosersStayOut'
  <2> SUFFICES ASSUME NEW s \in Places, Open(s)'
               PROVE  /\ Full(s)' => bracket'[s].one # bracket'[s].two
                      /\ \A p \in Sides(s)' \ {Nobody} : ~ Lost(p)'
    BY DEF LosersStayOut
  <2>1. Open(s) /\ bracket'[s] = bracket[s] /\ Sides(s)' = Sides(s)
    BY <1>3
  <2>2. ASSUME NEW p \in Sides(s) \ {Nobody} PROVE ~ Lost(p)'
    <3>1. p \in Players /\ ~ Lost(p)
      BY <1>1, <1>2, <2>1 DEF LosersStayOut, Matches
    <3>2. \A t \in Places : Open(t) /\ p \in Sides(t) => t = s
      BY <1>2, <2>1, <3>1 DEF OnePlaceAtATime
    <3> QED
      BY <1>5, <2>1, <3>1, <3>2
  <2>3. Full(s)' => bracket'[s].one # bracket'[s].two
    BY <1>2, <2>1 DEF LosersStayOut, Full
  <2> QED
    BY <2>1, <2>2, <2>3
<1>9. OnTheirWay'
  <2>1. ASSUME NEW a \in advancing', a \in advancing
        PROVE  /\ bracket'[a[1]].status = "completed" /\ bracket'[a[1]].winner = a[2]
               /\ ~ Lost(a[2])'
               /\ \A s \in Places : Open(s)' => a[2] \notin Sides(s)'
    <3>1. a[1] \in Places /\ a[2] \in Players
      BY <1>1
    <3>2. /\ bracket[a[1]].status = "completed" /\ bracket[a[1]].winner = a[2] /\ ~ Lost(a[2])
          /\ \A s \in Places : Open(s) => a[2] \notin Sides(s)
      BY <1>2, <2>1 DEF OnTheirWay
    <3> QED
      BY <1>3, <1>5, <3>1, <3>2
  <2>2. ASSUME NEW a \in advancing', a \notin advancing
        PROVE  /\ bracket'[a[1]].status = "completed" /\ bracket'[a[1]].winner = a[2]
               /\ ~ Lost(a[2])'
               /\ \A s \in Places : Open(s)' => a[2] \notin Sides(s)'
               /\ Open(a[1]) /\ a[2] \in Sides(a[1])
    <3>1. /\ a[1] \in Places /\ a[2] \in Players /\ Open(a[1]) /\ a[2] \in Sides(a[1])
          /\ bracket'[a[1]].status = "completed" /\ bracket'[a[1]].winner = a[2]
      BY <1>1, <2>2 DEF MatchesEnd, Playable
    <3>2. \A t \in Places : Open(t) /\ a[2] \in Sides(t) => t = a[1]
      BY <1>2, <3>1 DEF OnePlaceAtATime
    <3>3. ~ Lost(a[2])
      BY <1>2, <3>1, LargestField DEF LosersStayOut
    <3>4. ~ Lost(a[2])'
      BY <1>5, <3>1, <3>2, <3>3
    <3>5. ~ Open(a[1])'
      BY <3>1
    <3> QED
      BY <1>3, <3>1, <3>2, <3>4, <3>5
  <2>3. ASSUME NEW a \in advancing', NEW b \in advancing', a[2] = b[2] PROVE a = b
    <3>1. a \in Places \X Players /\ b \in Places \X Players
      BY <1>1
    <3>2. CASE a \in advancing /\ b \in advancing
      BY <1>2, <2>3, <3>2 DEF OnTheirWay
    <3>3. CASE a \notin advancing /\ b \notin advancing
      <4>1. a[1] = b[1]
        BY <1>2, <2>2, <2>3, <3>1, <3>3 DEF OnePlaceAtATime
      <4> QED
        BY <2>3, <3>1, <4>1
    <3>4. CASE a \in advancing /\ b \notin advancing
      BY <1>2, <2>2, <2>3, <3>1, <3>4 DEF OnTheirWay
    <3>5. CASE a \notin advancing /\ b \in advancing
      BY <1>2, <2>2, <2>3, <3>1, <3>5 DEF OnTheirWay
    <3> QED
      BY <3>2, <3>3, <3>4, <3>5
  <2> QED
    BY <2>1, <2>2, <2>3 DEF OnTheirWay
<1>10. \E d \in Rounds : DrawnAt(d)'
  <2>1. PICK d \in Rounds : DrawnAt(d)
    BY DEF BracketInv
  <2>2. Alive' \subseteq Alive
    BY <1>4 DEF Alive, MatchesEnd
  <2>3. d <= DrawRound(Cardinality(Alive'))
    BY <2>1, <2>2, AliveShrinks DEF DrawnAt
  <2>4. \A a \in advancing' : a[1][1] >= d
    <3>1. \A a \in advancing' : a \in advancing \/ Open(a[1])
      BY DEF MatchesEnd, Playable
    <3>2. \A a \in advancing' : a[1] \in Places
      BY <1>1
    <3> QED
      BY <2>1, <3>1, <3>2 DEF DrawnAt
  <2>5. Fed(d)'
    <3> SUFFICES ASSUME NEW s \in Places, s[1] >= d, s[1] # Final, FedSide(s)' # Nobody
                 PROVE  bracket'[s].status = "completed" /\ \A p \in Players : <<s, p>> \notin advancing'
      BY DEF Fed
    <3>1. FedSide(s)' = FedSide(s)
      BY <1>3, PlaceFacts DEF FedSide
    <3>2. bracket[s].status = "completed" /\ \A p \in Players : <<s, p>> \notin advancing
      BY <2>1, <3>1 DEF DrawnAt, Fed
    <3>3. \A a \in advancing' : a \in advancing \/ Open(a[1])
      BY DEF MatchesEnd, Playable
    <3> QED
      BY <1>3, <3>2, <3>3
  <2> QED
    BY <1>3, <2>1, <2>3, <2>4, <2>5 DEF DrawnAt
<1>11. Waiting'
  BY DEF Waiting
<1> QED
  BY <1>6, <1>7, <1>8, <1>9, <1>10, <1>11 DEF BracketInv
----------------------------------------------------------------------------
(* Types, and each step in turn.                                           *)

LEMMA MatchTypes ==
  /\ NoMatch \in Matches
  /\ \A p, q \in Players : Fixture(p, q) \in Matches
BY DEF NoMatch, Fixture, Matches, Nobody

LEMMA InitBracketInv == Init => BracketInv
<1> SUFFICES ASSUME Init PROVE BracketInv
  OBVIOUS
<1>1. \A s \in Places : bracket[s] = NoMatch
  BY DEF Init
<1>2. RowsTyped
  BY <1>1, MatchTypes DEF Init, RowsTyped, NoMatch
<1>3. PlayersTyped
  BY BracketAssumption DEF Init, PlayersTyped
<1>4. Waiting
  BY <1>1 DEF Init, Waiting
<1>5. \A s \in Places : ~ Open(s)
  BY <1>1 DEF Open, NoMatch
<1>6. Blank /\ OnTheirWay /\ OnePlaceAtATime /\ LosersStayOut
  BY <1>1, <1>5 DEF Init, Blank, OnTheirWay, OnePlaceAtATime, LosersStayOut
<1>7. DrawnAt(Ro16)
  <2>1. Ro16 <= DrawRound(Cardinality(Alive))
    <3>1. Alive = {}
      BY DEF Init, Alive
    <3>2. Cardinality(Alive) = 0
      BY <3>1, FS_EmptySet
    <3> QED
      BY <3>2 DEF DrawRound, Ro16, Final
  <2>2. Fed(Ro16)
    BY <1>1, PlaceFacts DEF Fed, FedSide, NoMatch
  <2> QED
    BY <1>5, <2>1, <2>2 DEF Init, DrawnAt
<1> QED
  BY <1>2, <1>3, <1>4, <1>6, <1>7 DEF BracketInv, Rounds, Ro16, Final

\* One match ends.
LEMMA OneMatchEnds ==
  ASSUME BracketInv, NEW s \in Places, NEW m \in Matches, Playable(s), Match(s, m),
         m.one = bracket[s].one, m.two = bracket[s].two, m.status \in {"completed", "void"},
         advancing' = advancing
           \/ \E w \in Players : /\ w \in Sides(s) /\ m.status = "completed" /\ m.winner = w
                                 /\ advancing' = advancing \cup {<<s, w>>},
         mishaps' \in 0..MaxMishaps
  PROVE  BracketInv'
<1>1. RowsTyped /\ PlayersTyped /\ Waiting
  BY DEF BracketInv
<1>2. bracket' = [bracket EXCEPT ![s] = m] /\ UNCHANGED <<cup, standing>>
  BY DEF Match
<1>3. bracket'[s] = m /\ \A t \in Places \ {s} : bracket'[t] = bracket[t]
  BY <1>1, <1>2 DEF RowsTyped
<1>4. RowsTyped'
  <2>1. bracket' \in [Places -> Matches]
    BY <1>1, <1>2 DEF RowsTyped
  <2>2. Full(s)'
    BY <1>3 DEF Playable, Full
  <2> QED
    BY <1>1, <1>3, <2>1, <2>2 DEF RowsTyped, Full
<1>5. PlayersTyped'
  BY <1>1, <1>2 DEF PlayersTyped
<1>6. MatchesEnd
  BY <1>1, <1>2, <1>3 DEF MatchesEnd, PlayersTyped
<1>7. phase' = phase /\ phase # "normal"
  <2>1. bracket[s] # NoMatch
    BY DEF Playable, Open, NoMatch
  <2> QED
    BY <1>1, <1>2, <2>1 DEF Waiting, cup
<1> QED
  BY <1>4, <1>5, <1>6, <1>7, MatchesEndKept

LEMMA PlayingKept ==
  ASSUME BracketInv, NEW s \in Places,
         \/ \E w \in Players : Wins(s, w)
         \/ EndsUndecided(s)
         \/ \E w \in Players \cup {Nobody} : SweepDecides(s, w)
  PROVE  BracketInv'
<1>1. bracket[s] \in Matches /\ mishaps \in 0..MaxMishaps /\ MaxMishaps \in Nat
  BY BracketAssumption DEF BracketInv, RowsTyped, PlayersTyped
<1>2. ASSUME NEW w \in Players \cup {Nobody}
      PROVE  /\ Completed(s, w) \in Matches
             /\ Completed(s, w).one = bracket[s].one /\ Completed(s, w).two = bracket[s].two
             /\ Completed(s, w).status = "completed" /\ Completed(s, w).winner = w
  BY <1>1, <1>2 DEF Completed, Matches
<1>3. CASE \E w \in Players : Wins(s, w)
  <2>1. PICK w \in Players : Wins(s, w)
    BY <1>3
  <2>2. /\ Playable(s) /\ w \in Sides(s) /\ Match(s, Completed(s, w))
        /\ advancing' = advancing \cup {<<s, w>>} /\ mishaps' = mishaps
    BY <2>1 DEF Wins
  <2> QED
    BY <1>1, <1>2, <2>2, OneMatchEnds
<1>4. CASE EndsUndecided(s)
  <2> DEFINE m == [bracket[s] EXCEPT !.status = "void"]
  <2>1. m \in Matches /\ m.one = bracket[s].one /\ m.two = bracket[s].two /\ m.status = "void"
    BY <1>1 DEF Matches
  <2>2. Playable(s) /\ Match(s, m) /\ advancing' = advancing /\ mishaps' \in 0..MaxMishaps
    BY <1>1, <1>4 DEF EndsUndecided, Mishap
  <2> HIDE DEF m
  <2> QED
    BY <2>1, <2>2, OneMatchEnds
<1>5. CASE \E w \in Players \cup {Nobody} : SweepDecides(s, w)
  <2>1. PICK w \in Players \cup {Nobody} : SweepDecides(s, w)
    BY <1>5
  <2>2. Playable(s) /\ Match(s, Completed(s, w)) /\ advancing' = advancing /\ mishaps' \in 0..MaxMishaps
    BY <1>1, <2>1 DEF SweepDecides, Mishap
  <2> QED
    BY <1>2, <2>2, OneMatchEnds
<1> QED
  BY <1>3, <1>4, <1>5

LEMMA WithdrawsKept ==
  ASSUME BracketInv, NEW p \in Players, Withdraws(p)
  PROVE  BracketInv'
<1> DEFINE mine == {s \in Places : Open(s) /\ p \in Sides(s)}
<1>1. /\ RowsTyped /\ PlayersTyped /\ LosersStayOut /\ MaxMishaps \in Nat
  BY BracketAssumption DEF BracketInv
<1>2. PICK batted \in SUBSET mine :
        bracket' = [s \in Places |->
          IF s \in batted THEN Completed(s, CHOOSE q \in Sides(s) : q # p)
          ELSE IF s \in mine THEN [bracket[s] EXCEPT !.status = "void"] ELSE bracket[s]]
  BY DEF Withdraws
<1>3. /\ phase = "knockout" /\ UNCHANGED <<cup, advancing>>
      /\ standing' = [standing EXCEPT ![p] = "out"] /\ mishaps' \in 0..MaxMishaps
      /\ \A s \in mine : Full(s)
  BY <1>1 DEF Withdraws, Mishap, PlayersTyped
<1>4. ASSUME NEW s \in mine
      PROVE  /\ Playable(s) /\ bracket'[s] \in Matches
             /\ bracket'[s].one = bracket[s].one /\ bracket'[s].two = bracket[s].two
             /\ bracket'[s].status \in {"completed", "void"}
  <2>1. s \in Places /\ Playable(s) /\ bracket[s] \in Matches
    BY <1>1, <1>3 DEF Playable, RowsTyped
  <2>2. CASE s \in batted
    <3>1. \E q \in Sides(s) : q # p
      BY <1>1, <2>1 DEF LosersStayOut, Playable, Sides
    <3> DEFINE q == CHOOSE q \in Sides(s) : q # p
    <3>2. q \in Players \cup {Nobody}
      <4>1. q \in Sides(s)
        BY <3>1
      <4> QED
        BY <2>1, <4>1 DEF Sides, Matches
    <3>3. bracket'[s] = Completed(s, q)
      BY <1>2, <2>1, <2>2
    <3> HIDE DEF q
    <3> QED
      BY <2>1, <3>2, <3>3 DEF Completed, Matches
  <2>3. CASE s \notin batted
    <3>1. bracket'[s] = [bracket[s] EXCEPT !.status = "void"]
      BY <1>2, <2>1, <2>3
    <3> QED
      BY <2>1, <3>1 DEF Matches
  <2> QED
    BY <2>2, <2>3
<1>5. \A s \in Places \ mine : bracket'[s] = bracket[s]
  BY <1>2
<1> HIDE DEF mine
<1>6. RowsTyped'
  <2>1. bracket' \in [Places -> Matches]
    <3>1. \A s \in Places : bracket'[s] \in Matches
      BY <1>1, <1>4, <1>5 DEF RowsTyped
    <3>2. bracket' = [s \in Places |-> bracket'[s]]
      BY <1>2
    <3> QED
      BY <3>1, <3>2
  <2>2. \A s \in Places : bracket'[s].status \in {"none", "pending"} \/ Full(s)'
    BY <1>1, <1>4, <1>5 DEF RowsTyped, Playable, Full
  <2> QED
    BY <2>1, <2>2 DEF RowsTyped
<1>7. PlayersTyped'
  BY <1>1, <1>3 DEF PlayersTyped
<1>8. MatchesEnd
  <2>1. \A q \in Players : standing'[q] = "knockout" => standing[q] = "knockout"
    BY <1>1, <1>3 DEF PlayersTyped
  <2>2. \A s \in Places : \/ bracket'[s] = bracket[s]
                          \/ /\ Playable(s)
                             /\ bracket'[s].one = bracket[s].one /\ bracket'[s].two = bracket[s].two
                             /\ bracket'[s].status \in {"completed", "void"}
    BY <1>4, <1>5
  <2> QED
    BY <1>3, <2>1, <2>2 DEF MatchesEnd
<1>9. phase' = phase /\ phase # "normal"
  BY <1>3 DEF cup
<1> QED
  BY <1>6, <1>7, <1>8, <1>9, MatchesEndKept
----------------------------------------------------------------------------
(* A winner goes on.                                                       *)

\* Each side of a match is fed by one place.
LEMMA OneFeeder ==
  ASSUME NEW s \in Places, NEW t \in Places, NextPlace(s) = NextPlace(t), s[2] % 2 = t[2] % 2
  PROVE  s = t
<1>1. s[1] + 1 = t[1] + 1 /\ s[2] \div 2 = t[2] \div 2
  BY DEF NextPlace
<1>2. s[1] \in Nat /\ t[1] \in Nat /\ s[2] \in Nat /\ t[2] \in Nat
  BY PlaceFacts
<1>3. s[1] = t[1] /\ s[2] = t[2]
  BY <1>1, <1>2
<1> QED
  BY <1>3, PlaceFacts

\* A winner on the way finds the side empty, in a match not on yet.
LEMMA SideIsFree ==
  ASSUME BracketInv, NEW s \in Places, NEW w \in Players, <<s, w>> \in advancing, s[1] # Final
  PROVE  /\ FedSide(s) = Nobody
         /\ bracket[NextPlace(s)].status \in {"none", "pending"}
<1>1. PICK d \in Rounds : DrawnAt(d)
  BY DEF BracketInv
<1>2. s[1] >= d
  BY <1>1 DEF DrawnAt
<1>3. FedSide(s) = Nobody
  BY <1>1, <1>2 DEF DrawnAt, Fed
<1>4. NextPlace(s) \in Places /\ ~ Full(NextPlace(s))
  BY <1>3, PlaceFacts DEF FedSide, Full
<1> QED
  BY <1>3, <1>4 DEF BracketInv, RowsTyped

\* What becomes of the next match: the winner and who was there before.
LEMMA JoinedMatch ==
  ASSUME BracketInv, NEW s \in Places, NEW w \in Players, s[1] # Final, GoesOn(s, w)
  PROVE  LET n == NextPlace(s)
             other == IF s[2] % 2 = 0 THEN bracket[n].two ELSE bracket[n].one
         IN  /\ n \in Places /\ bracket'[n] \in Matches
             /\ \A t \in Places \ {n} : bracket'[t] = bracket[t]
             /\ IF s[2] % 2 = 0 THEN bracket'[n].one = w /\ bracket'[n].two = other
                                ELSE bracket'[n].one = other /\ bracket'[n].two = w
             /\ bracket'[n].status = IF other # Nobody THEN "confirmed" ELSE "pending"
             /\ other # Nobody => Open(n) /\ other \in Players
             /\ bracket' \in [Places -> Matches]
<1> DEFINE n == NextPlace(s)
           other == IF s[2] % 2 = 0 THEN bracket[n].two ELSE bracket[n].one
           m == IF bracket[n].status = "none" THEN [bracket[n] EXCEPT !.status = "pending"] ELSE bracket[n]
<1>1. n \in Places /\ bracket \in [Places -> Matches] /\ w # Nobody
  BY PlaceFacts, LargestField DEF BracketInv, RowsTyped
<1>2. bracket[n].status \in {"none", "pending"}
  BY SideIsFree DEF GoesOn
<1>3. /\ m \in Matches /\ m.status = "pending"
      /\ m.one = bracket[n].one /\ m.two = bracket[n].two
  BY <1>1, <1>2 DEF Matches
<1>4. bracket' = [bracket EXCEPT ![n] = Joined(s, w, m)]
  BY <1>1 DEF GoesOn
<1>5. other # Nobody => Open(n) /\ other \in Players
  <2>1. other \in Players \cup {Nobody}
    BY <1>1 DEF Matches
  <2>2. bracket[n].status = "none" => other = Nobody
    BY <1>1 DEF BracketInv, Blank, NoMatch
  <2> QED
    BY <1>2, <2>1, <2>2 DEF Open
<1> HIDE DEF m, n
<1>6. /\ Joined(s, w, m) \in Matches
      /\ IF s[2] % 2 = 0 THEN Joined(s, w, m).one = w /\ Joined(s, w, m).two = m.two
                         ELSE Joined(s, w, m).one = m.one /\ Joined(s, w, m).two = w
      /\ Joined(s, w, m).status = IF (IF s[2] % 2 = 0 THEN m.two ELSE m.one) # Nobody
                                  THEN "confirmed" ELSE "pending"
  BY <1>1, <1>3 DEF Joined, Matches
<1>7. bracket' \in [Places -> Matches] /\ bracket'[n] = Joined(s, w, m)
  BY <1>1, <1>4, <1>6
<1>8. \A t \in Places \ {n} : bracket'[t] = bracket[t]
  BY <1>1, <1>4
<1> USE DEF n
<1> QED
  BY <1>1, <1>3, <1>5, <1>6, <1>7, <1>8

LEMMA GoesOnKept ==
  ASSUME BracketInv, NEW s \in Places, NEW w \in Players, GoesOn(s, w)
  PROVE  BracketInv'
<1>1. /\ RowsTyped /\ PlayersTyped /\ Waiting
      /\ Blank /\ OnTheirWay /\ OnePlaceAtATime /\ LosersStayOut
  BY DEF BracketInv
<1>2. /\ <<s, w>> \in advancing /\ advancing' = advancing \ {<<s, w>>}
      /\ UNCHANGED <<cup, standing, mishaps>>
  BY DEF GoesOn
<1>3. PlayersTyped'
  BY <1>1, <1>2 DEF PlayersTyped
<1>4. phase' = phase /\ phase # "normal"
  BY <1>1, <1>2 DEF Waiting, cup
<1>5. CASE s[1] = Final
  <2>1. UNCHANGED bracket
    BY <1>5 DEF GoesOn
  <2>2. RowsTyped' /\ MatchesEnd
    BY <1>1, <1>2, <2>1 DEF RowsTyped, Full, MatchesEnd
  <2> QED
    BY <1>3, <1>4, <2>2, MatchesEndKept
<1>6. CASE s[1] # Final
  <2> DEFINE n == NextPlace(s)
             other == IF s[2] % 2 = 0 THEN bracket[n].two ELSE bracket[n].one
  <2>1. /\ n \in Places /\ bracket'[n] \in Matches
        /\ \A t \in Places \ {n} : bracket'[t] = bracket[t]
        /\ IF s[2] % 2 = 0 THEN bracket'[n].one = w /\ bracket'[n].two = other
                           ELSE bracket'[n].one = other /\ bracket'[n].two = w
        /\ bracket'[n].status = IF other # Nobody THEN "confirmed" ELSE "pending"
        /\ other # Nobody => Open(n) /\ other \in Players
        /\ bracket' \in [Places -> Matches]
    BY <1>6, JoinedMatch
  <2>2. FedSide(s) = Nobody /\ bracket[n].status \in {"none", "pending"} /\ w # Nobody
    BY <1>2, <1>6, SideIsFree, LargestField
  <2>3. other \in {bracket[n].one, bracket[n].two}
    OBVIOUS
  <2>4. n[1] = s[1] + 1
    BY DEF NextPlace
  <2> HIDE DEF other
  <2>5. /\ {bracket'[n].one, bracket'[n].two} = {w, other}
        /\ bracket'[n].status \in {"pending", "confirmed"}
        /\ Full(n)' <=> other # Nobody
    BY <2>1, <2>2 DEF Full
  <2>6. RowsTyped'
    BY <1>1, <2>1, <2>5 DEF RowsTyped, Full
  <2>7. /\ \A p \in Players : Lost(p)' <=> Lost(p)
        /\ Alive' = Alive
    <3>1. \A p \in Players : Lost(p)' <=> Lost(p)
      BY <2>1, <2>2, <2>5 DEF Lost, Sides
    <3> QED
      BY <1>2, <3>1 DEF Alive
  <2>8. \A t \in Places : w \notin Sides(t) \/ ~ Open(t)
    BY <1>1, <1>2 DEF OnTheirWay
  <2>9. other # Nobody => other # w /\ Open(n) /\ other \in Sides(n) /\ other \in Players /\ ~ Lost(other)
    BY <1>1, <2>1, <2>3, <2>8 DEF Sides, LosersStayOut
  <2>10. \A t \in Places \ {n} : /\ Open(t)' <=> Open(t)
                                 /\ Sides(t)' = Sides(t) /\ (Full(t)' <=> Full(t))
    BY <2>1 DEF Open, Sides, Full
  <2>11. Sides(n)' = {w, other}
    BY <2>5 DEF Sides
  <2>12. Blank'
    BY <1>1, <2>1, <2>5 DEF Blank
  <2>13. OnePlaceAtATime'
    <3>1. \A t \in Places \ {n} : Open(t) => \A p \in Players : ~ (p \in {w, other} /\ p \in Sides(t))
      BY <1>1, <2>1, <2>8, <2>9, LargestField DEF OnePlaceAtATime
    <3> QED
      BY <1>1, <2>1, <2>10, <2>11, <3>1 DEF OnePlaceAtATime
  <2>14. LosersStayOut'
    <3>1. ~ Lost(w)
      BY <1>1, <1>2 DEF OnTheirWay
    <3>2. /\ Full(n)' => bracket'[n].one # bracket'[n].two
          /\ \A p \in Sides(n)' \ {Nobody} : ~ Lost(p)'
      BY <2>1, <2>5, <2>7, <2>9, <2>11, <3>1
    <3>3. ASSUME NEW t \in Places \ {n}, Open(t)'
          PROVE  /\ Full(t)' => bracket'[t].one # bracket'[t].two
                 /\ \A p \in Sides(t)' \ {Nobody} : ~ Lost(p)'
      <4>1. Sides(t) \subseteq Players \cup {Nobody}
        BY <1>1 DEF RowsTyped, Matches, Sides
      <4> QED
        BY <1>1, <2>1, <2>7, <2>10, <3>3, <4>1 DEF LosersStayOut
    <3> QED
      BY <3>2, <3>3 DEF LosersStayOut
  <2>15. OnTheirWay'
    <3>1. \A a, b \in advancing' : a[2] = b[2] => a = b
      BY <1>1, <1>2 DEF OnTheirWay
    <3>2. ASSUME NEW a \in advancing'
          PROVE  /\ bracket'[a[1]].status = "completed" /\ bracket'[a[1]].winner = a[2]
                 /\ ~ Lost(a[2])'
                 /\ \A t \in Places : Open(t)' => a[2] \notin Sides(t)'
      <4>1. a \in advancing /\ a # <<s, w>> /\ a[1] \in Places /\ a[2] \in Players /\ a[2] # Nobody
        BY <1>1, <1>2, LargestField DEF PlayersTyped
      <4>2. /\ bracket[a[1]].status = "completed" /\ bracket[a[1]].winner = a[2] /\ ~ Lost(a[2])
            /\ \A t \in Places : Open(t) => a[2] \notin Sides(t)
        BY <1>1, <4>1 DEF OnTheirWay
      <4>3. a[1] # n
        BY <2>2, <4>2
      <4>4. a[2] # w
        BY <1>1, <1>2, <4>1 DEF OnTheirWay
      <4>5. a[2] # other
        BY <2>1, <2>9, <4>1, <4>2
      <4> QED
        BY <2>1, <2>7, <2>10, <2>11, <4>1, <4>2, <4>3, <4>4, <4>5
    <3> QED
      BY <3>1, <3>2 DEF OnTheirWay
  <2>16. \E d \in Rounds : DrawnAt(d)'
    <3>1. PICK d \in Rounds : DrawnAt(d)
      BY DEF BracketInv
    <3>2. s[1] >= d /\ n[1] >= d
      <4>1. s[1] >= d /\ s[1] \in Nat /\ d \in Nat
        BY <1>2, <3>1, PlaceFacts DEF DrawnAt, Rounds, Ro16, Final
      <4> QED
        BY <2>4, <4>1
    <3>3. \A t \in Places : Open(t)' => t[1] >= d
      BY <2>10, <3>1, <3>2 DEF DrawnAt
    <3>4. Fed(d)'
      <4> SUFFICES ASSUME NEW t \in Places, t[1] >= d, t[1] # Final, FedSide(t)' # Nobody
                   PROVE  bracket'[t].status = "completed" /\ \A p \in Players : <<t, p>> \notin advancing'
        BY DEF Fed
      <4>1. CASE t = s
        <5>1. bracket[s].status = "completed" /\ bracket[s].winner = w
          BY <1>1, <1>2 DEF OnTheirWay
        <5>2. \A p \in Players : <<s, p>> \in advancing => p = w
          BY <1>1, <5>1 DEF OnTheirWay
        <5> QED
          BY <1>2, <2>1, <2>2, <4>1, <5>1, <5>2
      <4>2. CASE t # s
        <5>1. FedSide(t)' = FedSide(t)
          <6>1. CASE NextPlace(t) = n
            <7>1. t[2] % 2 # s[2] % 2
              BY <4>2, <6>1, OneFeeder
            <7>2. t[2] % 2 \in {0, 1} /\ s[2] % 2 \in {0, 1}
              BY PlaceFacts
            <7> QED
              BY <2>1, <6>1, <7>1, <7>2 DEF FedSide, other
          <6>2. CASE NextPlace(t) # n
            <7>1. bracket'[NextPlace(t)] = bracket[NextPlace(t)]
              BY <2>1, <6>2, PlaceFacts
            <7> QED
              BY <7>1 DEF FedSide
          <6> QED
            BY <6>1, <6>2
        <5>2. bracket[t].status = "completed" /\ \A p \in Players : <<t, p>> \notin advancing
          BY <3>1, <5>1 DEF DrawnAt, Fed
        <5> QED
          BY <1>2, <2>1, <2>2, <5>2
      <4> QED
        BY <4>1, <4>2
    <3> QED
      BY <1>2, <2>7, <3>1, <3>3, <3>4 DEF DrawnAt
  <2>17. Waiting'
    BY <1>4 DEF Waiting
  <2> QED
    BY <1>3, <2>6, <2>12, <2>13, <2>14, <2>15, <2>16, <2>17 DEF BracketInv
<1> QED
  BY <1>5, <1>6
----------------------------------------------------------------------------
(* A draw, first or again.                                                 *)

\* Whoever is drawn has one match, of the round of the draw.
LEMMA DrawKept ==
  ASSUME NEW n \in Nat, NEW S \in SUBSET Players, NEW o \in [1..n -> S], Injective(o, n),
         advancing' = {},
         \A s \in Places : IF s \in DrawPlaces(o) THEN bracket'[s] = FixtureAt(o, s) ELSE ~ Open(s)',
         \A p \in S : ~ Lost(p)'
  PROVE  /\ OnePlaceAtATime' /\ LosersStayOut' /\ OnTheirWay'
         /\ \A s \in Places : Open(s)' => s[1] = DrawRound(n)
         /\ \A s \in DrawPlaces(o) \cap Places : bracket'[s] \in Matches /\ Full(s)'
<1>1. /\ \A s \in DrawPlaces(o) : s[1] = DrawRound(n)
      /\ \A s \in DrawPlaces(o) :
           /\ FixtureAt(o, s).one \in S /\ FixtureAt(o, s).two \in S
           /\ FixtureAt(o, s).one # FixtureAt(o, s).two
           /\ FixtureAt(o, s).status = "confirmed" /\ FixtureAt(o, s).winner = Nobody
      /\ \A s, t \in DrawPlaces(o) : s # t =>
           {FixtureAt(o, s).one, FixtureAt(o, s).two} \cap {FixtureAt(o, t).one, FixtureAt(o, t).two} = {}
  BY DrawPairs
<1>2. \A s \in Places : Open(s)' => s \in DrawPlaces(o) /\ bracket'[s] = FixtureAt(o, s)
  OBVIOUS
<1>3. OnePlaceAtATime'
  BY <1>1, <1>2 DEF OnePlaceAtATime, Sides
<1>4. LosersStayOut'
  BY <1>1, <1>2 DEF LosersStayOut, Sides
<1>5. OnTheirWay'
  BY DEF OnTheirWay
<1>6. ASSUME NEW s \in DrawPlaces(o) \cap Places PROVE bracket'[s] \in Matches /\ Full(s)'
  <2>1. FixtureAt(o, s) = Fixture(FixtureAt(o, s).one, FixtureAt(o, s).two)
    BY DEF FixtureAt, Fixture
  <2>2. FixtureAt(o, s).one \in Players /\ FixtureAt(o, s).two \in Players
    BY <1>1
  <2>3. FixtureAt(o, s) \in Matches
    BY <2>1, <2>2, MatchTypes
  <2> QED
    BY <2>2, <2>3, LargestField DEF Full
<1> QED
  BY <1>1, <1>2, <1>3, <1>4, <1>5, <1>6

LEMMA ThresholdIsMonotonic ==
  ASSUME NEW m \in Nat, NEW n \in Nat, m <= n
  PROVE  knockoutThreshold(m) <= knockoutThreshold(n) /\ knockoutThreshold(m) \in Nat
BY DEF knockoutThreshold

LEMMA SizeBound ==
  ASSUME CountInv, phase = "normal"
  PROVE  Size \in Nat /\ Size <= Most /\ active <= Most /\ field <= Most
BY LargestField DEF CountInv, CupTyped, Counted, Size, resolveFieldSize

LEMMA DrawsBracketKept ==
  ASSUME BracketInv, CountInv, DrawsBracket
  PROVE  BracketInv'
<1> DEFINE o == [i \in 1..active |-> i]
           S == 1..active
<1>1. /\ PlayersTyped /\ Waiting /\ phase = "normal"
      /\ \A s \in Places : bracket[s] = NoMatch
      /\ advancing = {} /\ active \in Nat
  BY DEF BracketInv, DrawsBracket, Waiting, CountInv, CupTyped
<1>2. S \subseteq Players
  <2>1. active <= knockoutThreshold(Size)
    BY DEF DrawsBracket, shouldStartKnockout
  <2>2. active <= knockoutThreshold(Most)
    BY <1>1, <2>1, SizeBound, ThresholdIsMonotonic, LargestField
  <2> QED
    BY <1>1, <2>2, LargestField DEF Players
<1>3. o \in [S -> S] /\ Injective(o, active)
  BY DEF Injective
<1>4. /\ phase' = "knockout"
      /\ standing' = [p \in Players |-> IF p <= active THEN "knockout" ELSE "none"]
      /\ bracket' = [s \in Places |-> IF s \in DrawPlaces(o) THEN FixtureAt(o, s) ELSE NoMatch]
      /\ advancing' = {} /\ mishaps' = mishaps
  BY <1>1 DEF DrawsBracket
<1> HIDE DEF o
<1>5. \A s \in Places : bracket'[s] = IF s \in DrawPlaces(o) THEN FixtureAt(o, s) ELSE NoMatch
  BY <1>4
<1>6. \A s \in Places : s \notin DrawPlaces(o) => bracket'[s].status = "none" /\ ~ Open(s)'
  BY <1>5 DEF NoMatch, Open
<1>7. \A s \in DrawPlaces(o) : s[1] = DrawRound(active) /\ FixtureAt(o, s).status = "confirmed"
  <2>1. o \in [1..active -> S] /\ Injective(o, active) /\ active \in Nat
    BY <1>1, <1>3
  <2>2. Len(o) = active
    BY <2>1, DrawnOrder
  <2> QED
    BY <2>2 DEF DrawPlaces, FixtureAt, Fixture
<1>8. \A p : ~ Lost(p)'
  BY <1>5, <1>6, <1>7 DEF Lost
<1>9. /\ OnePlaceAtATime' /\ LosersStayOut' /\ OnTheirWay'
      /\ \A s \in Places : Open(s)' => s[1] = DrawRound(active)
      /\ \A s \in DrawPlaces(o) \cap Places : bracket'[s] \in Matches /\ Full(s)'
  BY <1>1, <1>2, <1>3, <1>4, <1>5, <1>6, <1>8, DrawKept
<1>10. RowsTyped'
  <2>1. \A s \in Places : bracket'[s] \in Matches
    BY <1>5, <1>9, MatchTypes
  <2>2. bracket' \in [Places -> Matches]
    BY <1>4, <2>1
  <2> QED
    BY <1>6, <1>9, <2>2 DEF RowsTyped
<1>11. PlayersTyped'
  BY <1>1, <1>4 DEF PlayersTyped
<1>12. Blank' /\ Waiting'
  BY <1>4, <1>5, <1>7 DEF Blank, Waiting
<1>13. PICK d \in Rounds : d = DrawRound(active)
  BY <1>1, DrawRoundType
<1>14. DrawnAt(d)'
  <2>1. d <= DrawRound(Cardinality(Alive'))
    <3>1. Alive' = 1..active
      <4>1. \A p \in Players : standing'[p] = "knockout" <=> p <= active
        BY <1>4
      <4>2. \A p \in Players : p \in Nat \ {0}
        BY LargestField
      <4>3. Alive' = {p \in Players : p <= active}
        BY <1>8, <4>1 DEF Alive
      <4> QED
        BY <1>1, <1>2, <4>2, <4>3
    <3>2. Cardinality(Alive') = active
      BY <1>1, <3>1, FS_Interval
    <3> QED
      BY <1>1, <1>13, <3>2, DrawRoundType
  <2>2. \A s \in Places : Open(s)' => s[1] >= d
    BY <1>1, <1>9, <1>13, DrawRoundType
  <2>3. ASSUME NEW s \in Places, s[1] >= d, s[1] # Final
        PROVE  FedSide(s)' = Nobody
    <3>1. NextPlace(s) \in Places /\ s[1] \in Nat /\ d \in Nat
      BY <1>1, <1>13, <2>3, PlaceFacts, DrawRoundType
    <3>2. NextPlace(s)[1] = s[1] + 1
      BY DEF NextPlace
    <3>3. NextPlace(s) \notin DrawPlaces(o)
      BY <1>7, <1>13, <2>3, <3>1, <3>2
    <3>4. bracket'[NextPlace(s)] = NoMatch
      BY <1>5, <3>1, <3>3
    <3> QED
      BY <3>4 DEF FedSide, NoMatch
  <2>4. Fed(d)'
    BY <1>4, <2>3 DEF Fed
  <2> QED
    BY <1>4, <2>1, <2>2, <2>4 DEF DrawnAt
<1> QED
  BY <1>9, <1>10, <1>11, <1>12, <1>14 DEF BracketInv
----------------------------------------------------------------------------
(* The sweep, and the other steps.                                         *)

\* The sweep never runs while a winner is between a match and the next.
PromptWinners == Prompt

\* When the bracket has stopped moving, what is open waits for a side, and is given up.
LEMMA StalledMatches ==
  ASSUME BracketInv, PromptWinners, MayRun
  PROVE  /\ advancing = {} /\ phase = "knockout"
         /\ \A s \in Places : Open(s) => bracket[s].status = "pending" /\ ~ Full(s)
<1>1. advancing = {} /\ phase = "knockout" /\ \A s \in Places : ~ Playable(s)
  BY DEF PromptWinners, MayRun, Stalled
<1>2. RowsTyped
  BY DEF BracketInv
<1> QED
  BY <1>1, <1>2 DEF Playable, Open, RowsTyped

LEMMA RestartsBracketKept ==
  ASSUME BracketInv, PromptWinners, RestartsBracket
  PROVE  BracketInv'
<1>1. /\ advancing = {} /\ phase = "knockout"
      /\ \A s \in Places : Open(s) => bracket[s].status = "pending" /\ ~ Full(s)
  BY StalledMatches DEF RestartsBracket
<1>2. RowsTyped /\ PlayersTyped /\ Blank
  BY DEF BracketInv
<1>3. PICK n \in Nat, S \in SUBSET Players : n = Cardinality(Alive) /\ S = Alive
  <2>1. IsFiniteSet(Players)
    BY LargestField, FS_Interval DEF Players
  <2>2. Alive \subseteq Players
    BY DEF Alive
  <2> QED
    BY <2>1, <2>2, FS_Subset, FS_CardinalityType
<1>4. PICK o \in Orders(Alive) :
        /\ Fits(o)
        /\ bracket' = [s \in Places |->
             IF s \in DrawPlaces(o) THEN FixtureAt(o, s)
             ELSE IF Given(s, DrawRound(Len(o))) THEN NoMatch ELSE bracket[s]]
  BY DEF RestartsBracket
<1>5. o \in [1..n -> S] /\ Injective(o, n)
  BY <1>3, <1>4 DEF Orders, Injective
<1>6. Len(o) = n
  BY <1>5, DrawnOrder
<1>7. UNCHANGED <<cup, standing, advancing, mishaps>> /\ phase' = phase /\ advancing' = {}
  BY <1>1 DEF RestartsBracket, cup
<1>8. /\ \A s \in DrawPlaces(o) : s[1] = DrawRound(n)
      /\ \A s \in DrawPlaces(o) : FixtureAt(o, s).status = "confirmed"
  BY <1>6 DEF DrawPlaces, FixtureAt, Fixture
<1>9. \A s \in Places :
        bracket'[s] = IF s \in DrawPlaces(o) THEN FixtureAt(o, s)
                      ELSE IF Given(s, DrawRound(n)) THEN NoMatch ELSE bracket[s]
  BY <1>4, <1>6
<1>10. \A s \in Places : s \in DrawPlaces(o) => bracket[s] = NoMatch \/ Given(s, DrawRound(n))
  BY <1>4, <1>6 DEF Fits
\* Completed matches stay, and none is added.
<1>11. \A s \in Places : bracket[s].status = "completed" \/ bracket'[s].status = "completed" =>
         bracket'[s] = bracket[s]
  BY <1>8, <1>9, <1>10 DEF Given, NoMatch
<1>12. (\A p : Lost(p)' <=> Lost(p)) /\ Alive' = Alive
  <2>1. \A p : Lost(p)' <=> Lost(p)
    BY <1>11 DEF Lost, Sides
  <2> QED
    BY <1>7, <2>1 DEF Alive
<1>13. \A s \in Places : s \notin DrawPlaces(o) =>
         /\ bracket'[s] \in {NoMatch, bracket[s]}
         /\ ~ Open(s)'
  <2> SUFFICES ASSUME NEW s \in Places, s \notin DrawPlaces(o)
               PROVE  bracket'[s] \in {NoMatch, bracket[s]} /\ ~ Open(s)'
    OBVIOUS
  <2>1. CASE Given(s, DrawRound(n))
    <3>1. bracket'[s] = NoMatch
      BY <1>9, <2>1
    <3> QED
      BY <3>1 DEF Open, NoMatch
  <2>2. CASE ~ Given(s, DrawRound(n))
    <3>1. bracket'[s] = bracket[s] /\ ~ Open(s)
      BY <1>1, <1>9, <2>2 DEF Given
    <3> QED
      BY <3>1 DEF Open
  <2> QED
    BY <2>1, <2>2
<1>14. /\ OnePlaceAtATime' /\ LosersStayOut' /\ OnTheirWay'
       /\ \A s \in Places : Open(s)' => s[1] = DrawRound(n)
       /\ \A s \in DrawPlaces(o) \cap Places : bracket'[s] \in Matches /\ Full(s)'
  <2>1. \A p \in S : ~ Lost(p)'
    BY <1>3, <1>12 DEF Alive
  <2>2. \A s \in Places : IF s \in DrawPlaces(o) THEN bracket'[s] = FixtureAt(o, s) ELSE ~ Open(s)'
    BY <1>9, <1>13
  <2> QED
    BY <1>5, <1>7, <2>1, <2>2, DrawKept
<1>15. PlayersTyped'
  BY <1>2, <1>7 DEF PlayersTyped
<1>16. RowsTyped'
  <2>1. \A s \in Places : bracket'[s] \in Matches
    BY <1>2, <1>13, <1>14, MatchTypes DEF RowsTyped
  <2>2. bracket' \in [Places -> Matches]
    BY <1>4, <2>1
  <2>3. ASSUME NEW s \in Places PROVE bracket'[s].status \in {"none", "pending"} \/ Full(s)'
    <3>1. CASE s \in DrawPlaces(o)
      BY <1>14, <3>1
    <3>2. CASE bracket'[s] = NoMatch
      BY <3>2 DEF NoMatch
    <3>3. CASE bracket'[s] = bracket[s]
      BY <1>2, <3>3 DEF RowsTyped, Full
    <3> QED
      BY <1>13, <3>1, <3>2, <3>3
  <2> QED
    BY <2>2, <2>3 DEF RowsTyped
<1>17. Blank'
  <2> SUFFICES ASSUME NEW s \in Places, bracket'[s].status = "none" PROVE bracket'[s] = NoMatch
    BY DEF Blank
  <2>1. s \notin DrawPlaces(o)
    BY <1>8, <1>9
  <2> QED
    BY <1>2, <1>13, <2>1 DEF Blank
<1>18. Waiting'
  BY <1>1, <1>7 DEF Waiting
<1>19. PICK e \in Rounds : e = DrawRound(n)
  BY <1>3, DrawRoundType
<1>20. DrawnAt(e)'
  <2>1. PICK d \in Rounds : DrawnAt(d)
    BY DEF BracketInv
  <2>2. d <= e /\ d \in Nat /\ e \in Nat
    BY <1>3, <1>19, <2>1, DrawRoundType DEF DrawnAt, Rounds, Ro16, Final
  <2>3. e <= DrawRound(Cardinality(Alive'))
    BY <1>3, <1>12, <1>19, <2>2
  <2>4. \A s \in Places : Open(s)' => s[1] >= e
    BY <1>14, <1>19, <2>2
  <2>5. Fed(e)'
    <3> SUFFICES ASSUME NEW s \in Places, s[1] >= e, s[1] # Final, FedSide(s)' # Nobody
                 PROVE  bracket'[s].status = "completed"
      BY <1>7 DEF Fed
    <3>1. NextPlace(s) \in Places /\ s[1] \in Nat
      BY PlaceFacts
    <3>2. NextPlace(s)[1] = s[1] + 1
      BY DEF NextPlace
    <3>3. NextPlace(s) \notin DrawPlaces(o)
      BY <1>8, <1>19, <2>2, <3>1, <3>2
    <3>4. bracket'[NextPlace(s)] # NoMatch
      BY DEF FedSide, NoMatch
    <3>5. FedSide(s) # Nobody
      BY <1>13, <3>1, <3>3, <3>4 DEF FedSide
    <3>6. s[1] >= d
      BY <2>2, <3>1
    <3>7. bracket[s].status = "completed"
      BY <2>1, <3>5, <3>6 DEF DrawnAt, Fed
    <3> QED
      BY <1>11, <3>7
  <2> QED
    BY <1>7, <2>3, <2>4, <2>5 DEF DrawnAt
<1> QED
  BY <1>14, <1>15, <1>16, <1>17, <1>18, <1>20 DEF BracketInv

LEMMA FinishesBracketKept ==
  ASSUME BracketInv, PromptWinners, FinishesBracket
  PROVE  BracketInv'
<1>1. /\ advancing = {}
      /\ \A s \in Places : Open(s) => bracket[s].status = "pending" /\ ~ Full(s)
  BY StalledMatches DEF FinishesBracket
<1>2. RowsTyped /\ PlayersTyped /\ Blank
  BY DEF BracketInv
<1>3. /\ phase' = "completed" /\ mishaps' = mishaps
      /\ advancing' = {}
      /\ standing' = [p \in Players |-> IF standing[p] = "none" THEN "none" ELSE "out"]
      /\ bracket' = [s \in Places |->
           IF bracket[s].status = "pending" /\ ~ Full(s) THEN NoMatch ELSE bracket[s]]
  BY <1>1 DEF FinishesBracket
<1>4. \A s \in Places : bracket'[s] =
        IF bracket[s].status = "pending" /\ ~ Full(s) THEN NoMatch ELSE bracket[s]
  BY <1>3
<1>5. \A s \in Places : ~ Open(s)'
  <2> SUFFICES ASSUME NEW s \in Places PROVE ~ Open(s)'
    OBVIOUS
  <2>1. CASE bracket[s].status = "pending" /\ ~ Full(s)
    <3>1. bracket'[s] = NoMatch
      BY <1>4, <2>1
    <3> QED
      BY <3>1 DEF Open, NoMatch
  <2>2. CASE ~ (bracket[s].status = "pending" /\ ~ Full(s))
    <3>1. bracket'[s] = bracket[s] /\ ~ Open(s)
      BY <1>1, <1>4, <2>2
    <3> QED
      BY <3>1 DEF Open
  <2> QED
    BY <2>1, <2>2
<1>6. PlayersTyped'
  BY <1>2, <1>3 DEF PlayersTyped
<1>7. RowsTyped'
  <2>1. \A s \in Places : bracket'[s] \in Matches
    BY <1>2, <1>4, MatchTypes DEF RowsTyped
  <2>2. bracket' \in [Places -> Matches]
    BY <1>3, <2>1
  <2>3. \A s \in Places : bracket'[s].status \in {"none", "pending"} \/ Full(s)'
    BY <1>2, <1>4 DEF RowsTyped, Full, NoMatch
  <2> QED
    BY <2>2, <2>3 DEF RowsTyped
<1>8. Blank'
  BY <1>2, <1>4 DEF Blank
<1>9. OnTheirWay' /\ OnePlaceAtATime' /\ LosersStayOut' /\ Waiting'
  BY <1>3, <1>5 DEF OnTheirWay, OnePlaceAtATime, LosersStayOut, Waiting
<1>10. PICK d \in Rounds : DrawnAt(d)
  BY DEF BracketInv
<1>11. DrawnAt(d)'
  <2>1. Alive' \subseteq Alive
    BY <1>3 DEF Alive
  <2>2. d <= DrawRound(Cardinality(Alive'))
    BY <1>10, <2>1, AliveShrinks DEF DrawnAt
  <2>3. Fed(d)'
    <3> SUFFICES ASSUME NEW s \in Places, s[1] >= d, s[1] # Final, FedSide(s)' # Nobody
                 PROVE  bracket'[s].status = "completed"
      BY <1>3 DEF Fed
    <3>1. NextPlace(s) \in Places
      BY PlaceFacts
    <3>2. bracket'[NextPlace(s)] # NoMatch
      BY DEF FedSide, NoMatch
    <3>3. FedSide(s) # Nobody
      BY <1>4, <3>1, <3>2 DEF FedSide
    <3>4. bracket[s].status = "completed"
      BY <1>10, <3>3 DEF DrawnAt, Fed
    <3> QED
      BY <1>4, <3>4
  <2> QED
    BY <1>3, <1>5, <2>2, <2>3 DEF DrawnAt
<1> QED
  BY <1>6, <1>7, <1>8, <1>9, <1>11 DEF BracketInv

\* Between the draw and the end a winner may go nowhere.
LEMMA GoesNowhereKept ==
  ASSUME BracketInv, NEW s, NEW w, GoesNowhere(s, w)
  PROVE  BracketInv'
<1>1. RowsTyped /\ PlayersTyped /\ Waiting
  BY DEF BracketInv
<1>2. /\ <<s, w>> \in advancing /\ advancing' = advancing \ {<<s, w>>}
      /\ UNCHANGED <<cup, standing, bracket, mishaps>>
  BY DEF GoesNowhere
<1>3. RowsTyped' /\ PlayersTyped'
  BY <1>1, <1>2 DEF RowsTyped, PlayersTyped, Full
<1>4. MatchesEnd
  BY <1>2 DEF MatchesEnd
<1>5. phase' = phase /\ phase # "normal"
  BY <1>1, <1>2 DEF Waiting, cup
<1> QED
  BY <1>3, <1>4, <1>5, MatchesEndKept

\* The bracket is not there yet, and what changes is on the rows of the tournament.
LEMMA BeforeTheDraw ==
  ASSUME BracketInv, phase = "normal", phase' \in {"normal", "completed"}, PlayersTyped',
         \A p \in Players : standing'[p] = "knockout" => standing[p] = "knockout",
         UNCHANGED <<bracket, advancing>>
  PROVE  BracketInv'
<1>1. /\ RowsTyped /\ Blank /\ advancing = {}
      /\ \A s \in Places : bracket[s] = NoMatch
  BY DEF BracketInv, Waiting
<1>2. RowsTyped'
  BY <1>1 DEF RowsTyped, Full
<1>3. \A s \in Places : bracket'[s] = NoMatch /\ ~ Open(s)'
  BY <1>1 DEF Open, NoMatch
<1>4. Blank' /\ Waiting' /\ OnTheirWay' /\ OnePlaceAtATime' /\ LosersStayOut'
  BY <1>1, <1>3 DEF Blank, Waiting, OnTheirWay, OnePlaceAtATime, LosersStayOut
<1>5. PICK d \in Rounds : DrawnAt(d)
  BY DEF BracketInv
<1>6. DrawnAt(d)'
  <2>1. Alive' \subseteq Alive
    BY DEF Alive, Lost, Sides
  <2>2. d <= DrawRound(Cardinality(Alive'))
    BY <1>5, <2>1, AliveShrinks DEF DrawnAt
  <2>3. Fed(d)'
    BY <1>3, PlaceFacts DEF Fed, FedSide, NoMatch
  <2> QED
    BY <1>1, <1>3, <2>2, <2>3 DEF DrawnAt
<1> QED
  BY <1>2, <1>4, <1>6 DEF BracketInv

\* Steps that leave the bracket as it is, and nobody comes into it.
LEMMA BracketUntouched ==
  ASSUME BracketInv, UNCHANGED <<phase, bracket, advancing>>, PlayersTyped',
         \A p \in Players : standing'[p] = "knockout" => standing[p] = "knockout"
  PROVE  BracketInv'
<1>1. CASE phase = "normal"
  BY <1>1, BeforeTheDraw
<1>2. CASE phase # "normal"
  <2>1. RowsTyped' /\ MatchesEnd
    BY DEF BracketInv, RowsTyped, Full, MatchesEnd
  <2> QED
    BY <1>2, <2>1, MatchesEndKept
<1> QED
  BY <1>1, <1>2

LEMMA RoundsKept ==
  ASSUME BracketInv, Results \/ Normal \/ ClosesRound \/ ClosesLastRound
  PROVE  BracketInv'
<1>1. PlayersTyped
  BY DEF BracketInv
<1>2. CASE Normal \/ ClosesRound
  <2>1. UNCHANGED <<phase, standing, bracket, advancing, mishaps>>
    BY <1>2 DEF Normal, OpensForm, BuysBack, Leaves, ClosesRound
  <2> QED
    BY <1>1, <2>1, BracketUntouched DEF PlayersTyped
<1>3. CASE Results
  <2>1. PICK r \in Late : Bats(r) \/ Resolves(r) \/ ResolvesLate(r) \/ EndsWithoutEffect(r)
    BY <1>3 DEF Results
  <2>2. UNCHANGED <<phase, bracket, advancing, mishaps>>
    BY <2>1 DEF Bats, Resolves, ResolvesLate, EndsWithoutEffect, cup
  <2>3. /\ standing' \in [Players -> {"none", "knockout", "overwritten", "out"}]
        /\ \A p \in Players : standing'[p] = "knockout" => standing[p] = "knockout"
    <3>1. CASE ResolvesLate(r)
      <4>1. PICK w, l : standing' = [p \in Players |-> IF p \in {w, l} /\ standing[p] = "knockout"
                                                     THEN "overwritten" ELSE standing[p]]
        BY <3>1 DEF ResolvesLate
      <4> QED
        BY <1>1, <4>1 DEF PlayersTyped
    <3>2. CASE UNCHANGED standing
      BY <1>1, <3>2 DEF PlayersTyped
    <3> QED
      BY <2>1, <3>1, <3>2 DEF Bats, Resolves, EndsWithoutEffect
  <2> QED
    BY <1>1, <2>2, <2>3, BracketUntouched DEF PlayersTyped
<1>4. CASE ClosesLastRound
  <2>1. /\ phase = "normal" /\ phase' = "completed" /\ UNCHANGED <<bracket, advancing, mishaps>>
        /\ standing' = [p \in Players |-> IF p <= active THEN "out" ELSE "none"]
    BY <1>4 DEF ClosesLastRound
  <2>2. PlayersTyped' /\ \A p \in Players : standing'[p] # "knockout"
    BY <1>1, <2>1 DEF PlayersTyped
  <2> QED
    BY <2>1, <2>2, BeforeTheDraw
<1> QED
  BY <1>2, <1>3, <1>4

LEMMA NextBracketInv ==
  ASSUME PromptWinners, CountInv, BracketInv, [Next]_vars
  PROVE  BracketInv'
<1>1. PlayersTyped
  BY DEF BracketInv
<1>2. CASE Results \/ Normal \/ ClosesRound \/ ClosesLastRound
  BY <1>2, RoundsKept
<1>3. CASE DrawsBracket
  BY <1>3, DrawsBracketKept
<1>4. CASE Playing
  BY <1>4, PlayingKept DEF Playing
<1>5. CASE GoingOn
  <2>1. PICK a \in advancing : GoesOn(a[1], a[2])
    BY <1>5 DEF GoingOn
  <2>2. a[1] \in Places /\ a[2] \in Players
    BY <1>1 DEF PlayersTyped
  <2> QED
    BY <2>1, <2>2, GoesOnKept
<1>6. CASE Sweep
  BY <1>6, RestartsBracketKept, FinishesBracketKept DEF Sweep
<1>7. CASE \E a \in advancing : GoesNowhere(a[1], a[2])
  BY <1>7, GoesNowhereKept
<1>8. CASE \E s \in Places :
             EndsUndecided(s) \/ \E w \in Players \cup {Nobody} : SweepDecides(s, w)
  BY <1>8, PlayingKept
<1>9. CASE \E p \in Players : Withdraws(p)
  BY <1>9, WithdrawsKept
<1>10. CASE UNCHANGED vars
  <2>1. UNCHANGED <<phase, standing, bracket, advancing, mishaps>>
    BY <1>10 DEF vars, cup
  <2> QED
    BY <1>1, <2>1, BracketUntouched DEF PlayersTyped
<1> QED
  BY <1>2, <1>3, <1>4, <1>5, <1>6, <1>7, <1>8, <1>9, <1>10 DEF Next, Closing

\* Every match of the bracket is a row the schema takes, with both players before it is
\* confirmed, when the sweep waits for winners to go on.
THEOREM BracketTyped ==
  ASSUME PromptWinners
  PROVE  Spec => []TypeOK
<1>1. CountInv /\ BracketInv /\ [Next]_vars => CountInv' /\ BracketInv'
  BY NextKeepsCount, NextBracketInv
<1>2. CountInv /\ BracketInv => TypeOK
  BY TypesSplit DEF CountInv, BracketInv
<1> QED
  BY <1>1, <1>2, InitCount, InitBracketInv, PTL DEF Spec

\* However often a bracket is redrawn, and whichever winners never go on, nobody stands
\* in two open matches.
THEOREM NobodyInTwoPlaces ==
  ASSUME PromptWinners
  PROVE  Spec => []OnePlaceAtATime
<1>1. CountInv /\ BracketInv /\ [Next]_vars => CountInv' /\ BracketInv'
  BY NextKeepsCount, NextBracketInv
<1>2. CountInv /\ BracketInv => OnePlaceAtATime
  BY DEF BracketInv
<1> QED
  BY <1>1, <1>2, InitCount, InitBracketInv, PTL DEF Spec

\* Nobody who lost in the bracket is drawn again or goes on, and nobody meets themselves:
\* the matches alone keep the record of who is out, and no redraw deletes a played one.
THEOREM LosersNeverReturn ==
  ASSUME PromptWinners
  PROVE  Spec => []LosersStayOut
<1>1. CountInv /\ BracketInv /\ [Next]_vars => CountInv' /\ BracketInv'
  BY NextKeepsCount, NextBracketInv
<1>2. CountInv /\ BracketInv => LosersStayOut
  BY DEF BracketInv
<1> QED
  BY <1>1, <1>2, InitCount, InitBracketInv, PTL DEF Spec
=============================================================================
