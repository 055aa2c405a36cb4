-------------------------- MODULE CupEntryProofs --------------------------
(***************************************************************************)
(* Theorems about CupEntry, for every number of players, tournaments,      *)
(* places and registrations in flight.                                     *)
(***************************************************************************)
EXTENDS CupEntry, FiniteSetTheorems, TLAPS

USE DEF Statuses, Places, Requests, Scanned, Pages, NoPage, setting, desk

LEMMA FollowingTyped == \A s \in Statuses : Following(s) \in Statuses
BY DEF Following

LEMMA AllOutTyped ==
  ASSUME TypeOK, NEW c \in Cups
  PROVE  AllOut(c) \in [Cups -> [Players -> Places]]
BY DEF AllOut, TypeOK

\* Every variable keeps its type.
THEOREM EntryTyped == Spec => []TypeOK
<1>1. Init => TypeOK
  BY CupEntryAssumption DEF Init, TypeOK
<1>2. TypeOK /\ [Next]_vars => TypeOK'
  <2> SUFFICES ASSUME TypeOK, [Next]_vars PROVE TypeOK'
    OBVIOUS
  <2> USE CupEntryAssumption
  <2>1. ASSUME NEW p \in Players, NEW c \in Choice[p], Register(p, c) PROVE TypeOK'
    <3>1. c \in Cups OBVIOUS
    <3>2. QED BY <2>1, <3>1 DEF Register, Arrives, TypeOK, entries
  <2>2. ASSUME NEW p \in Players, NEW c \in Choice[p], AdminRegisters(p, c) PROVE TypeOK'
    <3>1. c \in Cups OBVIOUS
    <3>2. QED BY <2>2, <3>1 DEF AdminRegisters, Arrives, TypeOK, entries
  <2>3. ASSUME NEW p \in Players, NEW c \in Choice[p], Enter(p, c) PROVE TypeOK'
    <3>1. c \in Cups OBVIOUS
    <3>2. QED BY <2>3, <3>1 DEF Enter, Arrives, TypeOK, entries
  <2>4. ASSUME NEW q \in requests, RegisterCommits(q) PROVE TypeOK'
    BY <2>4 DEF RegisterCommits, Ends, TypeOK
  <2>5. ASSUME NEW q \in requests, RegisterRollsBack(q) PROVE TypeOK'
    BY <2>5 DEF RegisterRollsBack, Ends, TypeOK, entries
  <2>6. ASSUME NEW q \in requests, EnterRegisters(q) PROVE TypeOK'
    <3>1. [q EXCEPT !.at = "checked"] \in Requests
      BY DEF TypeOK
    <3>2. requests' \subseteq Requests
      BY <2>6, <3>1 DEF EnterRegisters, TypeOK
    <3>3. QED BY <2>6, <3>2 DEF EnterRegisters, TypeOK, entries
  <2>7. ASSUME NEW q \in requests, RequestDies(q) PROVE TypeOK'
    BY <2>7 DEF RequestDies, Ends, TypeOK, entries
  <2>8. ASSUME NEW p \in Players, NEW c \in Cups, Withdraw(p, c) PROVE TypeOK'
    BY <2>8 DEF Withdraw, TypeOK
  <2>9. ASSUME NEW p \in Players, NEW c \in Cups, Plays(p, c) \/ ResultIsLate(p, c) PROVE TypeOK'
    <3>1. PICK s \in Places : place' = [place EXCEPT ![c][p] = s]
      BY <2>9 DEF Plays, ResultIsLate
    <3>2. place' \in [Cups -> [Players -> Places]]
      BY <3>1 DEF TypeOK
    <3>3. QED BY <2>9, <3>2 DEF Plays, ResultIsLate, TypeOK
  <2>10. ASSUME NEW p \in Players, NEW c \in Cups, EditPlace(p, c) PROVE TypeOK'
    BY <2>10 DEF EditPlace, TypeOK
  <2>11. ASSUME NEW c \in Cups, TimePasses(c) PROVE TypeOK'
    BY <2>11 DEF TimePasses, TypeOK, entries
  <2>12. ASSUME NEW c \in Cups, PageLoads(c) PROVE TypeOK'
    <3>1. page' \in Pages
      BY <2>12, FollowingTyped DEF PageLoads, TypeOK
    <3>2. QED BY <2>12, <3>1 DEF PageLoads, TypeOK, entries
  <2>13. ASSUME NEW c \in Cups, EditDates(c) PROVE TypeOK'
    <3>1. stage' \in [Cups -> 1..4]
      BY <2>13 DEF EditDates, TypeOK
    <3>2. QED BY <2>13, <3>1 DEF EditDates, TypeOK, entries
  <2>14. ASSUME NEW s \in Scanned, JobScans(s) PROVE TypeOK'
    BY <2>14 DEF JobScans, TypeOK, entries
  <2>15. ASSUME NEW s \in Scanned, NEW c \in Cups, JobMoves(c, s) PROVE TypeOK'
    <3>1. status' \in [Cups -> Statuses]
      BY <2>15, FollowingTyped DEF JobMoves, TypeOK
    <3>2. place' \in [Cups -> [Players -> Places]]
      BY <2>15, AllOutTyped DEF JobMoves, TypeOK
    <3>3. QED BY <2>15, <3>1, <3>2 DEF JobMoves, TypeOK
  <2>16. CASE JobFails
    BY <2>16 DEF JobFails, TypeOK, entries
  <2>17. CASE PageMoves
    <3>1. page \in Pages
      BY <2>17 DEF PageMoves, TypeOK
    <3>2. page' \in Pages \cup {NoPage}
      BY <2>17, <3>1 DEF PageMoves
    <3>3. QED BY <2>17, <3>1, <3>2 DEF PageMoves, TypeOK, entries
  <2>18. CASE PageRetires
    <3>1. page \in Pages
      BY <2>18 DEF PageRetires, TypeOK
    <3>2. QED BY <2>18, <3>1, AllOutTyped DEF PageRetires, TypeOK
  <2>19. CASE PageLeft
    BY <2>19 DEF PageLeft, TypeOK, entries
  <2>20. CASE UNCHANGED vars
    BY <2>20 DEF vars, entries, TypeOK
  <2>21. ASSUME NEW c \in Cups, BracketWaits(c) PROVE TypeOK'
    BY <2>21 DEF BracketWaits, TypeOK, entries
  <2>22. ASSUME NEW c \in Cups, BracketMoves(c) PROVE TypeOK'
    BY <2>22 DEF BracketMoves, TypeOK, entries
  <2>23. ASSUME NEW c \in Cups, PlayEnds(c) PROVE TypeOK'
    BY <2>23, AllOutTyped DEF PlayEnds, TypeOK
  <2>24. QED
    BY <2>1, <2>2, <2>3, <2>4, <2>5, <2>6, <2>7, <2>8, <2>9, <2>10, <2>11, <2>12, <2>13,
       <2>14, <2>15, <2>16, <2>17, <2>18, <2>19, <2>20, <2>21, <2>22, <2>23 DEF Next
<1>3. QED BY <1>1, <1>2, PTL DEF Spec

----------------------------------------------------------------------------
(* One live place.                                                         *)

\* A step that puts at most one row into the index, and that one as the index allows.
LEMMA IndexKeepsOne ==
  ASSUME OneLivePlace, NEW p \in Players, NEW c \in Cups,
         \A r \in Players, d \in Cups :
           place'[d][r] = "in" => place[d][r] = "in" \/ (r = p /\ d = c /\ IndexFree(p, c))
  PROVE  OneLivePlace'
BY DEF OneLivePlace, IndexFree

\* A step that puts nobody into the index.
LEMMA NoneJoinsIndex ==
  ASSUME OneLivePlace,
         \A r \in Players, d \in Cups : place'[d][r] = "in" => place[d][r] = "in"
  PROVE  OneLivePlace'
BY DEF OneLivePlace

\* Whatever a player starts in two tabs, nobody competes in two tournaments.
THEOREM EntryOneLivePlace == Spec => []OneLivePlace
<1>1. Init => OneLivePlace
  BY DEF Init, OneLivePlace
<1>2. TypeOK /\ OneLivePlace /\ [Next]_vars => OneLivePlace'
  <2> SUFFICES ASSUME TypeOK, OneLivePlace, [Next]_vars PROVE OneLivePlace'
    OBVIOUS
  <2>1. ASSUME NEW p \in Players, NEW c \in Choice[p],
               Register(p, c) \/ AdminRegisters(p, c) \/ Enter(p, c)
        PROVE  OneLivePlace'
    BY <2>1, NoneJoinsIndex DEF Register, AdminRegisters, Enter, entries
  <2>2. ASSUME NEW q \in requests, RegisterCommits(q) PROVE OneLivePlace'
    <3>1. q.who \in Players /\ q.cup \in Cups
      BY DEF TypeOK
    <3>2. \A r \in Players, d \in Cups :
            place'[d][r] = "in" =>
              place[d][r] = "in" \/ (r = q.who /\ d = q.cup /\ IndexFree(q.who, q.cup))
      BY <2>2, <3>1 DEF RegisterCommits, Admitted, TypeOK
    <3>3. QED BY <3>1, <3>2, IndexKeepsOne
  <2>3. ASSUME NEW q \in requests, RegisterRollsBack(q) \/ EnterRegisters(q) \/ RequestDies(q)
        PROVE  OneLivePlace'
    BY <2>3, NoneJoinsIndex DEF RegisterRollsBack, EnterRegisters, RequestDies, entries
  <2>4. ASSUME NEW p \in Players, NEW c \in Cups, Withdraw(p, c) PROVE OneLivePlace'
    <3>1. \A r \in Players, d \in Cups : place'[d][r] = "in" => place[d][r] = "in"
      BY <2>4 DEF Withdraw, TypeOK
    <3>2. QED BY <3>1, NoneJoinsIndex
  <2>5. ASSUME NEW p \in Players, NEW c \in Cups, Plays(p, c) \/ ResultIsLate(p, c)
        PROVE  OneLivePlace'
    <3>1. PICK s \in Places : /\ s = "in" => IndexFree(p, c)
                              /\ place' = [place EXCEPT ![c][p] = s]
      BY <2>5 DEF Plays, ResultIsLate
    <3>2. \A r \in Players, d \in Cups :
            place'[d][r] = "in" => place[d][r] = "in" \/ (r = p /\ d = c /\ IndexFree(p, c))
      BY <3>1 DEF TypeOK
    <3>3. QED BY <3>2, IndexKeepsOne
  <2>6. ASSUME NEW p \in Players, NEW c \in Cups, EditPlace(p, c) PROVE OneLivePlace'
    <3>1. PICK s \in Places : /\ s = "in" => IndexFree(p, c)
                              /\ place' = [place EXCEPT ![c][p] = s]
      BY <2>6 DEF EditPlace
    <3>2. \A r \in Players, d \in Cups :
            place'[d][r] = "in" => place[d][r] = "in" \/ (r = p /\ d = c /\ IndexFree(p, c))
      BY <3>1 DEF TypeOK
    <3>3. QED BY <3>2, IndexKeepsOne
  <2>7. ASSUME NEW c \in Cups, TimePasses(c) \/ PageLoads(c) \/ EditDates(c) PROVE OneLivePlace'
    BY <2>7, NoneJoinsIndex DEF TimePasses, PageLoads, EditDates, entries
  <2>8. ASSUME NEW c \in Cups, place' = AllOut(c) PROVE OneLivePlace'
    <3>1. \A r \in Players, d \in Cups : place'[d][r] = "in" => place[d][r] = "in"
      BY <2>8 DEF AllOut, TypeOK
    <3>2. QED BY <3>1, NoneJoinsIndex
  <2>9. ASSUME NEW s \in Scanned, NEW c \in Cups, JobMoves(c, s) PROVE OneLivePlace'
    <3>1. place' = AllOut(c) \/ place' = place
      BY <2>9 DEF JobMoves
    <3>2. QED BY <3>1, <2>8, NoneJoinsIndex
  <2>10. CASE PageRetires
    <3>1. page.cup \in Cups
      BY <2>10 DEF PageRetires, TypeOK
    <3>2. QED BY <2>10, <3>1, <2>8 DEF PageRetires
  <2>11. ASSUME (\E s \in Scanned : JobScans(s)) \/ JobFails \/ PageMoves \/ PageLeft
         PROVE  OneLivePlace'
    BY <2>11, NoneJoinsIndex DEF JobScans, JobFails, PageMoves, PageLeft, entries
  <2>12. ASSUME NEW c \in Cups, BracketWaits(c) \/ BracketMoves(c) \/ PlayEnds(c) PROVE OneLivePlace'
    <3>1. place' = AllOut(c) \/ place' = place
      BY <2>12 DEF BracketWaits, BracketMoves, PlayEnds, entries
    <3>2. QED BY <3>1, <2>8, NoneJoinsIndex
  <2>13. CASE UNCHANGED vars
    BY <2>13, NoneJoinsIndex DEF vars, entries
  <2>14. QED
    BY <2>1, <2>2, <2>3, <2>4, <2>5, <2>6, <2>7, <2>9, <2>10, <2>11, <2>12, <2>13 DEF Next
<1>3. QED BY <1>1, <1>2, EntryTyped, PTL DEF Spec

----------------------------------------------------------------------------
(* Capacity.                                                               *)

\* Adding one player to a tournament whose other players leave room keeps within its places.
LEMMA OneMoreFits ==
  ASSUME TypeOK, NEW p \in Players, NEW c \in Cups, ~Full(p, c)
  PROVE  Cardinality(registered[c] \cup {p}) <= Capacity
<1> DEFINE others == registered[c] \ {p}
<1>1. IsFiniteSet(others)
  <2>1. others \subseteq Players
    BY DEF TypeOK
  <2>2. QED BY <2>1, CupEntryAssumption, FS_Subset DEF CupEntryAssumption
<1>2. Cardinality(others) \in Nat /\ Cardinality(others \cup {p}) = Cardinality(others) + 1
  <2>1. p \notin others
    OBVIOUS
  <2>2. QED BY <1>1, <2>1, FS_CardinalityType, FS_AddElement
<1>3. registered[c] \cup {p} = others \cup {p}
  OBVIOUS
<1>4. Cardinality(others) < Capacity
  BY <1>2, CupEntryAssumption DEF Full, CupEntryAssumption
<1>5. Capacity \in Nat
  BY CupEntryAssumption DEF CupEntryAssumption
<1>6. Cardinality(others) + 1 <= Capacity
  BY <1>2, <1>4, <1>5
<1>7. Cardinality(registered[c] \cup {p}) = Cardinality(others \cup {p})
  BY <1>3
<1> HIDE DEF others
<1>8. QED BY <1>2, <1>6, <1>7

LEMMA OneLessIsNotMore ==
  ASSUME TypeOK, NEW p \in Players, NEW c \in Cups
  PROVE  ~(Cardinality(registered[c] \ {p}) > Cardinality(registered[c]))
<1>1. IsFiniteSet(registered[c])
  <2>1. registered[c] \subseteq Players
    BY DEF TypeOK
  <2>2. QED BY <2>1, CupEntryAssumption, FS_Subset DEF CupEntryAssumption
<1>2. Cardinality(registered[c] \ {p}) <= Cardinality(registered[c])
  BY <1>1, FS_Subset
<1>3. Cardinality(registered[c]) \in Nat /\ Cardinality(registered[c] \ {p}) \in Nat
  BY <1>1, FS_Subset, FS_CardinalityType
<1>4. QED BY <1>2, <1>3

LEMMA NotMoreThanItself ==
  ASSUME TypeOK, NEW c \in Cups
  PROVE  ~(Cardinality(registered[c]) > Cardinality(registered[c]))
<1>1. IsFiniteSet(registered[c])
  <2>1. registered[c] \subseteq Players
    BY DEF TypeOK
  <2>2. QED BY <2>1, CupEntryAssumption, FS_Subset DEF CupEntryAssumption
<1>2. Cardinality(registered[c]) \in Nat
  BY <1>1, FS_CardinalityType
<1>3. QED BY <1>2

\* No registration of a player takes a tournament beyond its places, however many race.
THEOREM EntryCapacityKept == Spec => CapacityKept
<1> DEFINE A ==
      \A c \in Cups :
        Cardinality(registered[c]') > Cardinality(registered[c]) =>
          \/ Cardinality(registered[c]') <= Capacity
          \/ \E q \in requests \ requests' : q.at = "ordered"
<1>1. TypeOK /\ [Next]_vars => [A]_vars
  <2> SUFFICES ASSUME TypeOK, Next PROVE A
    OBVIOUS
  <2>1. ASSUME NEW q \in requests, RegisterCommits(q) PROVE A
    <3>1. q.who \in Players /\ q.cup \in Cups
      BY DEF TypeOK
    <3>2. CASE q.at = "ordered"
      <4>1. q \in requests \ requests'
        BY <2>1 DEF RegisterCommits, Ends
      <4>2. QED BY <3>2, <4>1
    <3>3. CASE q.at # "ordered"
      <4>1. ~Full(q.who, q.cup)
        BY <2>1, <3>3 DEF RegisterCommits
      <4>2. registered'[q.cup] = registered[q.cup] \cup {q.who}
        BY <2>1, <3>1 DEF RegisterCommits, TypeOK
      <4>3. \A c \in Cups \ {q.cup} : registered'[c] = registered[c]
        BY <2>1, <3>1 DEF RegisterCommits, TypeOK
      <4>4. Cardinality(registered'[q.cup]) <= Capacity
        BY <3>1, <4>1, <4>2, OneMoreFits
      <4>5. QED BY <4>3, <4>4, NotMoreThanItself
    <3>4. QED BY <3>2, <3>3
  <2>2. ASSUME NEW p \in Players, NEW d \in Cups, Withdraw(p, d) PROVE A
    <3>1. registered'[d] = registered[d] \ {p}
      BY <2>2 DEF Withdraw, TypeOK
    <3>2. \A c \in Cups \ {d} : registered'[c] = registered[c]
      BY <2>2 DEF Withdraw, TypeOK
    <3>3. QED BY <3>1, <3>2, OneLessIsNotMore, NotMoreThanItself
  <2>3. ASSUME registered' = registered PROVE A
    BY <2>3, NotMoreThanItself
  <2>4. ASSUME NEW p \in Players, NEW c \in Choice[p],
               Register(p, c) \/ AdminRegisters(p, c) \/ Enter(p, c)
        PROVE  registered' = registered
    BY <2>4 DEF Register, AdminRegisters, Enter, entries
  <2>5. ASSUME NEW q \in requests, RegisterRollsBack(q) \/ EnterRegisters(q) \/ RequestDies(q)
        PROVE  registered' = registered
    BY <2>5 DEF RegisterRollsBack, EnterRegisters, RequestDies, entries
  <2>6. ASSUME NEW p \in Players, NEW c \in Cups, Plays(p, c) \/ ResultIsLate(p, c) \/ EditPlace(p, c)
        PROVE  registered' = registered
    BY <2>6 DEF Plays, ResultIsLate, EditPlace
  <2>7. ASSUME NEW c \in Cups, TimePasses(c) \/ PageLoads(c) \/ EditDates(c)
        PROVE  registered' = registered
    BY <2>7 DEF TimePasses, PageLoads, EditDates, entries
  <2>8. ASSUME NEW s \in Scanned, JobScans(s) \/ \E c \in Cups : JobMoves(c, s)
        PROVE  registered' = registered
    BY <2>8 DEF JobScans, JobMoves, entries
  <2>9. ASSUME JobFails \/ PageMoves \/ PageRetires \/ PageLeft
        PROVE  registered' = registered
    BY <2>9 DEF JobFails, PageMoves, PageRetires, PageLeft, entries
  <2>10. ASSUME NEW c \in Cups, BracketWaits(c) \/ BracketMoves(c) \/ PlayEnds(c)
         PROVE  registered' = registered
    BY <2>10 DEF BracketWaits, BracketMoves, PlayEnds, entries
  <2>11. QED
    BY <2>1, <2>2, <2>3, <2>4, <2>5, <2>6, <2>7, <2>8, <2>9, <2>10 DEF Next
<1>2. QED BY <1>1, EntryTyped, PTL DEF Spec, CapacityKept

----------------------------------------------------------------------------
(* The lifecycle job.                                                      *)

\* The job never undoes what an administrator did between its scan and its transaction.
THEOREM EntryJobYields == Spec => JobYields
<1> DEFINE A ==
      \A c \in Cups :
        status'[c] # status[c] =>
          status'[c] = Following(status[c]) \/ page' # page \/ (c \in closing /\ c \notin closing')
<1>1. TypeOK /\ [Next]_vars => [A]_vars
  <2> SUFFICES ASSUME TypeOK, Next PROVE A
    OBVIOUS
  <2>1. ASSUME NEW s \in Scanned, NEW d \in Cups, JobMoves(d, s) PROVE A
    BY <2>1 DEF JobMoves, StillThere, TypeOK
  <2>2. CASE PageMoves
    <3>1. page'.at # page.at
      BY <2>2 DEF PageMoves, TypeOK
    <3>2. QED BY <3>1
  <2>3. ASSUME status' = status PROVE A
    BY <2>3
  <2>4. ASSUME NEW p \in Players, NEW c \in Choice[p],
               Register(p, c) \/ AdminRegisters(p, c) \/ Enter(p, c)
        PROVE  status' = status
    BY <2>4 DEF Register, AdminRegisters, Enter
  <2>5. ASSUME NEW q \in requests,
               \/ RegisterCommits(q) \/ RegisterRollsBack(q)
               \/ EnterRegisters(q) \/ RequestDies(q)
        PROVE  status' = status
    BY <2>5 DEF RegisterCommits, RegisterRollsBack, EnterRegisters, RequestDies
  <2>6. ASSUME NEW p \in Players, NEW c \in Cups,
               Withdraw(p, c) \/ Plays(p, c) \/ ResultIsLate(p, c) \/ EditPlace(p, c)
        PROVE  status' = status
    BY <2>6 DEF Withdraw, Plays, ResultIsLate, EditPlace
  <2>7. ASSUME NEW c \in Cups, TimePasses(c) \/ PageLoads(c) \/ EditDates(c)
        PROVE  status' = status
    BY <2>7 DEF TimePasses, PageLoads, EditDates
  <2>8. ASSUME NEW s \in Scanned, JobScans(s) PROVE status' = status
    BY <2>8 DEF JobScans
  <2>9. ASSUME JobFails \/ PageRetires \/ PageLeft PROVE status' = status
    BY <2>9 DEF JobFails, PageRetires, PageLeft
  <2>10. ASSUME NEW c \in Cups, BracketWaits(c) \/ BracketMoves(c) PROVE status' = status
    BY <2>10 DEF BracketWaits, BracketMoves
  <2>11. ASSUME NEW d \in Cups, PlayEnds(d) PROVE A
    BY <2>11 DEF PlayEnds, Following, TypeOK
  <2>12. QED
    BY <2>1, <2>2, <2>3, <2>4, <2>5, <2>6, <2>7, <2>8, <2>9, <2>10, <2>11 DEF Next
<1>2. QED BY <1>1, EntryTyped, PTL DEF Spec, JobYields
=============================================================================
