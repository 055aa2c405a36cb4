-------------------------- MODULE WebSessionProofs --------------------------
(***************************************************************************)
(* Theorems about WebSession, for any tabs, requests and bounds, and then  *)
(* about LiveNotices, whose steps are steps of it with a bell and sockets. *)
(***************************************************************************)
EXTENDS LiveNotices, SequenceTheorems, TLAPS

USE DEF notes

Calls == [at : {"none", "asked", "taken", "made", "refused"}, old : 0..MaxPairs, new : 0..MaxPairs]
Reqs == [at : {"idle", "sent", "served", "queued", "leading"}, tok : 0..MaxPairs, again : BOOLEAN]

LEMMA Constants ==
  /\ MaxPairs \in Nat /\ MaxFaults \in Nat /\ TabOf \in [Requests -> Tabs]
  /\ SignOuts \subseteq Requests
  /\ Idle \in Reqs /\ NoCall \in Calls
BY WebSessionAssumption DEF Idle, NoCall, Reqs, Calls

\* What issuing a pair does to the tables of the service.
LEMMA IssueTyped ==
  ASSUME SessionTypeOK, NEW old \in 0..MaxPairs, Issue(old)
  PROVE  /\ Issued + 1 \in Pairs
         /\ origin' \in Seq(0..MaxPairs) /\ Issued' = Issued + 1 /\ Issued' <= MaxPairs
         /\ rows' \subseteq Pairs /\ good' \subseteq Pairs
<1>1. Len(origin) \in Nat /\ MaxPairs \in Nat
  BY Constants DEF SessionTypeOK
<1>2. Issued + 1 \in Pairs
  BY <1>1 DEF Issue, Issued, Pairs
<1>3. origin' \in Seq(0..MaxPairs) /\ Len(origin') = Len(origin) + 1
  BY DEF Issue, SessionTypeOK
<1>4. Issued' = Issued + 1 /\ Issued' <= MaxPairs
  BY <1>1, <1>3 DEF Issue, Issued
<1>5. rows' \subseteq Pairs /\ good' \subseteq Pairs
  BY <1>2 DEF Issue, SessionTypeOK
<1>6. QED BY <1>2, <1>3, <1>4, <1>5

LEMMA TokenTyped ==
  ASSUME SessionTypeOK, NEW t \in Tabs, NEW n \in 0..MaxPairs, SetAccessToken(t, n)
  PROVE  access' \in [Tabs -> 0..MaxPairs] /\ stored' \in 0..MaxPairs
BY DEF SetAccessToken, SessionTypeOK

LEMMA RejectedTyped ==
  ASSUME SessionTypeOK, NEW r \in Requests, Rejected(r)
  PROVE  /\ access' \in [Tabs -> 0..MaxPairs] /\ stored' \in 0..MaxPairs
         /\ req' \in [Requests -> Reqs]
         /\ UNCHANGED <<server, cookie, refreshing, call, leaving>>
<1>1. TabOf[r] \in Tabs /\ 0 \in 0..MaxPairs
  BY Constants
<1>2. access' \in [Tabs -> 0..MaxPairs] /\ stored' \in 0..MaxPairs
  <2>1. CASE r \in SignOuts
    BY <2>1, <1>1, TokenTyped DEF Rejected
  <2>2. CASE r \notin SignOuts
    BY <2>2 DEF Rejected, SessionTypeOK
  <2>3. QED BY <2>1, <2>2
<1>3. QED BY <1>2, Constants DEF Rejected, SessionTypeOK, Reqs

LEMMA SessionInitTyped == SessionInit => SessionTypeOK
<1>1. << >> \in Seq(0..MaxPairs) /\ Len(<< >>) = 0
  OBVIOUS
<1>2. QED BY <1>1, Constants DEF SessionInit, SessionTypeOK, Issued, Pairs, Reqs, Calls

LEMMA RequestStepTyped ==
  ASSUME SessionTypeOK, NEW r \in Requests, Send(r) \/ Lost(r) \/ RequestMoves(r)
  PROVE  SessionTypeOK'
<1> USE Constants DEF SessionTypeOK, Issued, Reqs, Calls
<1>0. TabOf[r] \in Tabs OBVIOUS
<1>1. CASE Send(r)
  BY <1>0, <1>1 DEF Send, server, browser
<1>2. CASE Lost(r)
  <2>1. faults' \in 0..MaxFaults
    BY <1>2 DEF Lost, Fails
  <2>2. QED BY <1>2, <2>1, RejectedTyped DEF Lost, server
<1>3. CASE Answered(r)
  BY <1>3 DEF Answered, server, browser
<1>4. CASE SignOutServed(r)
  BY <1>4 DEF SignOutServed, browser, Pairs
<1>5. CASE SignOutArrives(r)
  BY <1>0, <1>5, TokenTyped DEF SignOutArrives, server
<1>6. CASE WaitsForRefresh(r)
  BY <1>6 DEF WaitsForRefresh, server, browser
<1>7. CASE StartsRefresh(r)
  <2>1. call' \in [Tabs -> Calls]
    BY <1>0, <1>7 DEF StartsRefresh
  <2>2. req' \in [Requests -> Reqs]
    BY <1>7 DEF StartsRefresh
  <2>3. QED BY <1>0, <1>7, <2>1, <2>2 DEF StartsRefresh, server, browser
<1>8. CASE GivesUp(r)
  BY <1>8, RejectedTyped DEF GivesUp, server
<1>9. QED
  BY <1>1, <1>2, <1>3, <1>4, <1>5, <1>6, <1>7, <1>8 DEF RequestMoves

LEMMA TabStepTyped ==
  ASSUME SessionTypeOK, NEW t \in Tabs, SignIn(t) \/ RefreshDies(t) \/ RefreshMoves(t)
  PROVE  SessionTypeOK'
<1> USE Constants DEF SessionTypeOK, Reqs, Calls
<1>1. CASE SignIn(t)
  <2>1. Issue(0) /\ SetAccessToken(t, Issued + 1)
    BY <1>1 DEF SignIn
  <2>2. Issued + 1 \in Pairs /\ Issued + 1 \in 0..MaxPairs
    BY <2>1, IssueTyped DEF Pairs
  <2>3. QED BY <1>1, <2>1, <2>2, IssueTyped, TokenTyped DEF SignIn, client
<1>2. CASE RefreshDies(t)
  <2>1. faults' \in 0..MaxFaults
    BY <1>2 DEF RefreshDies, Fails
  <2>2. QED BY <1>2, <2>1 DEF RefreshDies, server, browser, Issued
<1>3. CASE RefreshServed(t)
  <2>1. rows' \subseteq Pairs
    BY <1>3 DEF RefreshServed, Taken
  <2>2. PICK to \in {"taken", "refused"} : call' = [call EXCEPT ![t].at = to]
    BY <1>3 DEF RefreshServed
  <2>3. call' \in [Tabs -> Calls]
    BY <2>2
  <2>4. QED BY <1>3, <2>1, <2>3 DEF RefreshServed, browser, Issued
<1>4. CASE RefreshIssues(t)
  <2>1. call[t].old \in 0..MaxPairs /\ Issue(call[t].old)
    BY <1>4 DEF RefreshIssues
  <2>2. Issued + 1 \in 0..MaxPairs
    BY <2>1, IssueTyped DEF Pairs
  <2>3. call' \in [Tabs -> Calls]
    BY <1>4, <2>2 DEF RefreshIssues
  <2>4. QED BY <1>4, <2>1, <2>3, IssueTyped DEF RefreshIssues, browser
<1>5. CASE RefreshArrives(t)
  <2>1. call[t].new \in 0..MaxPairs
    OBVIOUS
  <2>2. req' \in [Requests -> Reqs]
    BY <1>5, <2>1 DEF RefreshArrives
  <2>3. call' \in [Tabs -> Calls] /\ refreshing' \in [Tabs -> BOOLEAN]
    BY <1>5 DEF RefreshArrives, RefreshDone
  <2>4. QED BY <1>5, <2>1, <2>2, <2>3, TokenTyped DEF RefreshArrives, server, Issued
<1>6. CASE RefreshRefused(t)
  <2>1. req' \in [Requests -> Reqs]
    BY <1>6 DEF RefreshRefused
  <2>2. call' \in [Tabs -> Calls] /\ refreshing' \in [Tabs -> BOOLEAN]
    BY <1>6 DEF RefreshRefused, RefreshDone
  <2>3. SetAccessToken(t, 0) /\ 0 \in 0..MaxPairs
    BY <1>6 DEF RefreshRefused
  <2>4. access' \in [Tabs -> 0..MaxPairs] /\ stored' \in 0..MaxPairs
    BY <2>3, TokenTyped
  <2>5. QED BY <1>6, <2>1, <2>2, <2>4 DEF RefreshRefused, server, Issued
<1>7. CASE PageLoads(t)
  <2>1. req' \in [Requests -> Reqs]
    BY <1>7 DEF PageLoads
  <2>2. call' \in [Tabs -> Calls] /\ refreshing' \in [Tabs -> BOOLEAN]
    BY <1>7 DEF PageLoads, RefreshDone
  <2>3. QED BY <1>7, <2>1, <2>2 DEF PageLoads, server, Issued
<1>8. QED
  BY <1>1, <1>2, <1>3, <1>4, <1>5, <1>6, <1>7 DEF RefreshMoves

LEMMA LapseTyped ==
  ASSUME SessionTypeOK, NEW n \in Pairs, Lapse(n)
  PROVE  SessionTypeOK'
BY DEF Lapse, SessionTypeOK, browser, client, Issued, Pairs

LEMMA SessionStepTyped == SessionTypeOK /\ [SessionNext]_sessionVars => SessionTypeOK'
<1>1. ASSUME SessionTypeOK, UNCHANGED sessionVars PROVE SessionTypeOK'
  BY <1>1 DEF SessionTypeOK, sessionVars, server, browser, client, Issued
<1>2. QED BY <1>1, RequestStepTyped, TabStepTyped, LapseTyped DEF SessionNext

\* Every variable keeps its type, in any number of tabs.
THEOREM SessionTyped == SessionSpec => []SessionTypeOK
BY SessionInitTyped, SessionStepTyped, PTL DEF SessionSpec

---------------------------------------------------------------------------
(* A refresh token is in one place: a row, or taken by one refresh, or     *)
(* the origin of one pair.                                                 *)

Spent == {origin[i] : i \in 1..Issued}
TakenBy(t) == call[t].at = "taken"

TokenInv ==
  /\ \A n \in rows : n <= Issued /\ n \notin Spent
  /\ \A t \in Tabs : TakenBy(t) =>
       /\ call[t].old \in 1..Issued /\ call[t].old \notin rows /\ call[t].old \notin Spent
       /\ \A u \in Tabs : TakenBy(u) /\ call[u].old = call[t].old => u = t
  /\ \A i \in 1..Issued : origin[i] <= Issued

\* A step that issues nothing, and at which no call comes to be taken.
LEMMA NothingTaken ==
  ASSUME TokenInv, OnePairPerToken, UNCHANGED origin, rows' \subseteq rows,
         \A t \in Tabs : TakenBy(t)' => TakenBy(t) /\ call'[t].old = call[t].old
  PROVE  TokenInv' /\ OnePairPerToken'
<1>1. Issued' = Issued /\ Spent' = Spent
  BY DEF Issued, Spent
<1>2. TokenInv'
  BY <1>1 DEF TokenInv, TakenBy
<1>3. QED BY <1>1, <1>2 DEF OnePairPerToken

\* A step that adds a pair for a token that no row, no call and no pair has, or for none.
LEMMA PairAdded ==
  ASSUME SessionTypeOK, TokenInv, OnePairPerToken, NEW old \in 0..MaxPairs, Issue(old),
         old # 0 => old \in 1..Issued /\ old \notin rows /\ old \notin Spent,
         \A t \in Tabs : TakenBy(t)' =>
           TakenBy(t) /\ call'[t].old = call[t].old /\ call[t].old # old
  PROVE  TokenInv' /\ OnePairPerToken'
<1>1. Issued \in Nat /\ Issued' = Issued + 1
  BY IssueTyped DEF SessionTypeOK, Issued
<1>2. /\ \A i \in 1..Issued : origin'[i] = origin[i]
      /\ origin'[Issued + 1] = old
  BY DEF Issue, Issued, SessionTypeOK
<1>3. \A i \in 1..Issued : origin[i] \in 0..MaxPairs
  <2>1. ASSUME NEW i \in 1..Len(origin) PROVE origin[i] \in 0..MaxPairs
    BY ElementOfSeq DEF SessionTypeOK
  <2>2. QED BY <2>1 DEF Issued
<1>4. ASSUME NEW n, n # old, n \notin Spent PROVE n \notin Spent'
  BY <1>1, <1>2, <1>4 DEF Spent
<1>5. Issued + 1 \notin Spent /\ old # Issued + 1
  BY <1>1, <1>3 DEF Spent, TokenInv
<1>6. \A n \in rows' : n <= Issued' /\ n \notin Spent'
  <2> SUFFICES ASSUME NEW n \in rows' PROVE n <= Issued' /\ n \notin Spent'
    OBVIOUS
  <2>1. CASE n \in rows
    <3>1. n \in Pairs /\ n # 0 /\ n # old
      BY <2>1, Constants DEF SessionTypeOK, Pairs
    <3>2. n <= Issued /\ n \notin Spent
      BY <2>1 DEF TokenInv
    <3>3. n <= Issued'
      BY <1>1, <3>1, <3>2, Constants DEF Pairs
    <3>4. QED BY <1>4, <3>1, <3>2, <3>3
  <2>2. CASE n = Issued + 1
    BY <1>1, <1>4, <1>5, <2>2
  <2>3. QED BY <2>1, <2>2 DEF Issue
<1>7. ASSUME NEW t \in Tabs, TakenBy(t)'
      PROVE  /\ call'[t].old \in 1..Issued' /\ call'[t].old \notin rows' /\ call'[t].old \notin Spent'
             /\ \A u \in Tabs : TakenBy(u)' /\ call'[u].old = call'[t].old => u = t
  <2>1. TakenBy(t) /\ call'[t].old = call[t].old /\ call[t].old # old
    BY <1>7
  <2>2. /\ call[t].old \in 1..Issued /\ call[t].old \notin rows /\ call[t].old \notin Spent
        /\ \A u \in Tabs : TakenBy(u) /\ call[u].old = call[t].old => u = t
    BY <2>1 DEF TokenInv
  <2>3. call[t].old # Issued + 1 /\ call[t].old \in 1..Issued'
    BY <1>1, <2>2
  <2>4. call[t].old \notin Spent'
    BY <1>4, <2>1, <2>2
  <2>5. \A u \in Tabs : TakenBy(u)' => TakenBy(u) /\ call'[u].old = call[u].old
    OBVIOUS
  <2>6. call[t].old \notin rows'
    BY <2>2, <2>3 DEF Issue
  <2>7. QED BY <2>1, <2>2, <2>3, <2>4, <2>5, <2>6
<1>8. \A i \in 1..Issued' : origin'[i] <= Issued'
  <2> SUFFICES ASSUME NEW i \in 1..Issued' PROVE origin'[i] <= Issued'
    OBVIOUS
  <2>1. CASE i \in 1..Issued
    BY <1>1, <1>2, <1>3, <2>1, Constants DEF TokenInv
  <2>2. CASE i = Issued + 1
    BY <1>1, <1>2, <2>2
  <2>3. QED BY <1>1, <2>1, <2>2
<1>9. TokenInv'
  BY <1>6, <1>7, <1>8 DEF TokenInv
<1>10. OnePairPerToken'
  <2> SUFFICES ASSUME NEW m \in 1..Issued', NEW n \in 1..Issued',
                      origin'[m] # 0, origin'[m] = origin'[n]
               PROVE  m = n
    BY DEF OnePairPerToken
  <2>1. CASE m \in 1..Issued /\ n \in 1..Issued
    BY <1>2, <2>1 DEF OnePairPerToken
  <2>2. CASE m = Issued + 1 /\ n \in 1..Issued
    BY <1>2, <2>2 DEF Spent
  <2>3. CASE n = Issued + 1 /\ m \in 1..Issued
    BY <1>2, <2>3 DEF Spent
  <2>4. QED BY <1>1, <2>1, <2>2, <2>3
<1>11. QED BY <1>9, <1>10

LEMMA TokenStep ==
  ASSUME SessionTypeOK, TokenInv, OnePairPerToken, [SessionNext]_sessionVars
  PROVE  TokenInv' /\ OnePairPerToken'
<1>1. ASSUME NEW n \in Pairs, Lapse(n) PROVE TokenInv' /\ OnePairPerToken'
  BY <1>1, NothingTaken DEF Lapse, client, TakenBy
<1>2. ASSUME NEW r \in Requests, Send(r) \/ Lost(r) \/ RequestMoves(r)
      PROVE  TokenInv' /\ OnePairPerToken'
  <2>1. UNCHANGED origin /\ rows' \subseteq rows
    BY <1>2 DEF Send, Lost, Rejected, RequestMoves, Answered, SignOutServed, SignOutArrives,
                WaitsForRefresh, StartsRefresh, GivesUp, server
  <2>2. \A t \in Tabs : TakenBy(t)' => TakenBy(t) /\ call'[t].old = call[t].old
    <3>1. CASE StartsRefresh(r)
      BY <3>1 DEF StartsRefresh, TakenBy, SessionTypeOK
    <3>2. CASE ~StartsRefresh(r)
      <4>1. UNCHANGED call
        BY <1>2, <3>2 DEF Send, Lost, Rejected, RequestMoves, Answered, SignOutServed,
                          SignOutArrives, WaitsForRefresh, GivesUp
      <4>2. QED BY <4>1 DEF TakenBy
    <3>3. QED BY <3>1, <3>2
  <2>3. QED BY <2>1, <2>2, NothingTaken
<1>3. ASSUME NEW t \in Tabs, SignIn(t) PROVE TokenInv' /\ OnePairPerToken'
  <2>1. Issue(0) /\ UNCHANGED call /\ 0 \in 0..MaxPairs
    BY <1>3, Constants DEF SignIn, client
  <2>2. \A u \in Tabs : TakenBy(u)' =>
          TakenBy(u) /\ call'[u].old = call[u].old /\ call[u].old # 0
    BY <2>1 DEF TakenBy, TokenInv
  <2>3. QED BY <2>1, <2>2, PairAdded
<1>4. ASSUME NEW t \in Tabs, RefreshServed(t) PROVE TokenInv' /\ OnePairPerToken'
  <2>1. CASE call[t].old \in rows
    <3> DEFINE old == call[t].old
    <3>1. UNCHANGED origin /\ Issued' = Issued /\ Spent' = Spent
      BY <1>4 DEF RefreshServed, Issued, Spent
    <3>2. rows' = rows \ {old}
      BY <1>4, <2>1 DEF RefreshServed, Taken
    <3>3. call' = [call EXCEPT ![t].at = "taken"]
      BY <1>4, <2>1 DEF RefreshServed
    <3>4. old \in 1..Issued /\ old \notin Spent
      BY <2>1, Constants DEF TokenInv, SessionTypeOK, Pairs
    <3>5. \A u \in Tabs : call'[u].old = call[u].old
      BY <3>3 DEF SessionTypeOK
    <3>6. \A u \in Tabs : u # t => TakenBy(u)' = TakenBy(u)
      BY <3>3 DEF SessionTypeOK, TakenBy
    <3>7. \A u \in Tabs : u # t /\ TakenBy(u) => call[u].old # old
      BY <2>1 DEF TokenInv
    <3>8. ASSUME NEW u \in Tabs, TakenBy(u)'
          PROVE  /\ call'[u].old \in 1..Issued' /\ call'[u].old \notin rows' /\ call'[u].old \notin Spent'
                 /\ \A v \in Tabs : TakenBy(v)' /\ call'[v].old = call'[u].old => v = u
      <4>1. CASE u = t
        BY <3>1, <3>2, <3>4, <3>5, <3>6, <3>7, <4>1
      <4>2. CASE u # t
        <5>1. /\ call[u].old \in 1..Issued /\ call[u].old \notin rows /\ call[u].old \notin Spent
              /\ \A v \in Tabs : TakenBy(v) /\ call[v].old = call[u].old => v = u
          BY <3>6, <3>8, <4>2 DEF TokenInv
        <5>2. QED BY <3>1, <3>2, <3>5, <3>6, <3>7, <3>8, <4>2, <5>1
      <4>3. QED BY <4>1, <4>2
    <3>9. (\A n \in rows' : n <= Issued' /\ n \notin Spent') /\ \A i \in 1..Issued' : origin'[i] <= Issued'
      BY <3>1, <3>2 DEF TokenInv
    <3>10. TokenInv'
      BY <3>8, <3>9 DEF TokenInv
    <3>11. QED BY <3>1, <3>10 DEF OnePairPerToken
  <2>2. CASE call[t].old \notin rows
    <3>1. UNCHANGED <<rows, origin>> /\ call' = [call EXCEPT ![t].at = "refused"]
      BY <1>4, <2>2 DEF RefreshServed
    <3>2. \A u \in Tabs : TakenBy(u)' => TakenBy(u) /\ call'[u].old = call[u].old
      BY <3>1 DEF TakenBy, SessionTypeOK
    <3>3. QED BY <3>1, <3>2, NothingTaken
  <2>3. QED BY <2>1, <2>2
<1>5. ASSUME NEW t \in Tabs, RefreshIssues(t) PROVE TokenInv' /\ OnePairPerToken'
  <2>1. Issue(call[t].old) /\ TakenBy(t) /\ call[t].old \in 0..MaxPairs
    BY <1>5 DEF RefreshIssues, TakenBy, SessionTypeOK
  <2>2. call[t].old \in 1..Issued /\ call[t].old \notin rows /\ call[t].old \notin Spent
    BY <2>1 DEF TokenInv
  <2>3. \A u \in Tabs : TakenBy(u)' => u # t /\ TakenBy(u) /\ call'[u].old = call[u].old
    BY <1>5 DEF RefreshIssues, TakenBy, SessionTypeOK
  <2>4. \A u \in Tabs : TakenBy(u)' =>
          TakenBy(u) /\ call'[u].old = call[u].old /\ call[u].old # call[t].old
    BY <2>1, <2>3 DEF TokenInv
  <2>5. QED BY <2>1, <2>2, <2>4, PairAdded
<1>6. ASSUME NEW t \in Tabs,
             RefreshDies(t) \/ RefreshArrives(t) \/ RefreshRefused(t) \/ PageLoads(t)
      PROVE  TokenInv' /\ OnePairPerToken'
  <2>1. UNCHANGED <<rows, origin>>
    BY <1>6 DEF RefreshDies, RefreshArrives, RefreshRefused, PageLoads, server
  <2>2. \/ call' = [call EXCEPT ![t] = NoCall]
        \/ call' = [call EXCEPT ![t].at = "refused"]
    BY <1>6 DEF RefreshDies, RefreshArrives, RefreshRefused, PageLoads, RefreshDone
  <2>3. \A u \in Tabs : u # t => call'[u] = call[u]
    BY <2>2 DEF SessionTypeOK
  <2>4. ~TakenBy(t)'
    BY <2>2 DEF TakenBy, NoCall, SessionTypeOK
  <2>5. \A u \in Tabs : TakenBy(u)' => TakenBy(u) /\ call'[u].old = call[u].old
    BY <2>3, <2>4 DEF TakenBy
  <2>6. QED BY <2>1, <2>5, NothingTaken
<1>7. CASE UNCHANGED sessionVars
  BY <1>7, NothingTaken DEF sessionVars, server, client, TakenBy
<1>8. QED
  BY <1>1, <1>2, <1>3, <1>4, <1>5, <1>6, <1>7 DEF SessionNext, RefreshMoves

LEMMA TokenInitially == SessionInit => TokenInv /\ OnePairPerToken
<1>1. SessionInit => Issued = 0
  BY DEF SessionInit, Issued
<1>2. QED BY <1>1 DEF SessionInit, TokenInv, OnePairPerToken, TakenBy, NoCall

\* However many tabs present a refresh token at once, it is worth one pair.
THEOREM RefreshTokenWorthOnePair == SessionSpec => []OnePairPerToken
<1>1. SessionTypeOK /\ (TokenInv /\ OnePairPerToken) /\ [SessionNext]_sessionVars
        => (TokenInv /\ OnePairPerToken)'
  BY TokenStep
<1>2. QED BY <1>1, SessionTyped, TokenInitially, PTL DEF SessionSpec

---------------------------------------------------------------------------
(* Notices: the session goes on under the bell.                            *)

\* The bell makes the calls of the session and no others; what else can change of it is
\* the count of failures, which the mails share.
LEMMA SessionGoesOn ==
  ASSUME [Next]_vars
  PROVE  \/ SessionNext
         \/ UNCHANGED <<server, browser, client>> /\ (Fails \/ UNCHANGED faults)
<1>1. CASE OtherCalls
  BY <1>1 DEF OtherCalls, SessionNext
<1>2. ASSUME NEW r \in Requests, CallMoves(r) \/ SocketsEnd(r) PROVE SessionNext
  BY <1>2 DEF CallMoves, SocketsEnd, SessionNext, RequestMoves
<1>3. ASSUME NEW t \in Tabs, TabMoves(t) \/ BellFetches(t) \/ BellShows(t) \/ BellFails(t)
      PROVE  SessionNext
  <2>1. Bell[t] \in Requests
    BY LiveNoticesAssumption
  <2>2. CASE TabMoves(t)
    BY <2>2 DEF TabMoves, SessionNext
  <2>3. CASE BellFetches(t) \/ BellShows(t) \/ BellFails(t)
    <3>1. Send(Bell[t]) \/ Lost(Bell[t]) \/ RequestMoves(Bell[t])
      BY <2>3 DEF BellFetches, BellShows, BellFails, RequestMoves
    <3>2. QED BY <2>1, <3>1 DEF SessionNext
  <2>4. QED BY <1>3, <2>2, <2>3
<1>4. ASSUME NEW n \in Notices, MailFails(n) \/ WorkerDies(n)
      PROVE  UNCHANGED <<server, browser, client>> /\ Fails
  BY <1>4 DEF MailFails, WorkerDies
<1>5. ASSUME NEW n \in Notices, JobMoves(n) \/ Enqueue(n) \/ Forgotten(n)
      PROVE  UNCHANGED sessionVars
  BY <1>5 DEF JobMoves, WritesRow, Publishes, MailSends, MailNoted, Enqueue, Forgotten
<1>6. ASSUME NEW t \in Tabs,
             \/ Focus(t) \/ Connects(t) \/ SocketRefused(t) \/ SocketDrops(t) \/ PageMounts(t)
             \/ \E ns \in SUBSET Notices : Reads(t, ns)
      PROVE  UNCHANGED sessionVars
  BY <1>6 DEF Focus, Connects, SocketRefused, SocketDrops, PageMounts, Reads
<1>7. CASE UNCHANGED vars \/ OtherWritten
  BY <1>7 DEF vars, sessionVars, OtherWritten
<1>8. QED
  BY <1>1, <1>2, <1>3, <1>4, <1>5, <1>6, <1>7 DEF Next, sessionVars

\* So the session keeps its invariants.
SessionInv == SessionTypeOK /\ TokenInv /\ OnePairPerToken

LEMMA SessionInvKept == SessionInv /\ [Next]_vars => SessionInv'
<1>1. ASSUME SessionInv, SessionNext PROVE SessionInv'
  BY <1>1, SessionStepTyped, TokenStep DEF SessionInv
<1>2. ASSUME SessionInv, UNCHANGED <<server, browser, client>>, Fails \/ UNCHANGED faults
      PROVE  SessionInv'
  <2>1. SessionTypeOK'
    BY <1>2, Constants DEF SessionInv, SessionTypeOK, server, browser, client, Issued, Fails
  <2>2. TokenInv' /\ OnePairPerToken'
    BY <1>2, NothingTaken DEF SessionInv, server, client, TakenBy
  <2>3. QED BY <2>1, <2>2 DEF SessionInv
<1>3. QED BY <1>1, <1>2, SessionGoesOn

\* A refresh token stays worth one pair when the calls are those of the bell as well, and
\* failures strike mails and calls alike.
THEOREM BellKeepsTheSession == Spec => []OnePairPerToken
<1>1. Init => SessionInv
  BY SessionInitTyped, TokenInitially DEF Init, SessionInv
<1>2. SessionInv => OnePairPerToken
  BY DEF SessionInv
<1>3. QED BY <1>1, <1>2, SessionInvKept, PTL DEF Spec

---------------------------------------------------------------------------
(* Notices: types, what stays read, and who is told.                       *)

Jobs == [at : {"none", "waiting", "written", "told", "mailed", "done", "failed"}, tries : 0..Attempts]
Socks == [at : {"none", "opening", "on", "off"}, tok : 0..MaxPairs]

JobsTyped ==
  /\ job \in [Notices -> Jobs] /\ adds \in [Notices -> 0..MaxAdds]
  /\ row \in [Notices -> {"none", "unread", "read"}] /\ newer \in [Notices -> 0..Listed]
  /\ mail \in [Notices -> {"none", "sent", "failed"}]

BellsTyped ==
  /\ due \in [Tabs -> BOOLEAN] /\ again \in [Tabs -> BOOLEAN] /\ shown \in [Tabs -> SUBSET Notices]

SocksTyped == sock \in [Tabs -> Socks] /\ hears \in [Tabs -> BOOLEAN]

LEMMA NoticeTypes ==
  /\ TypeOK <=> SessionTypeOK /\ JobsTyped /\ SocksTyped /\ BellsTyped
  /\ TypeOK' <=> SessionTypeOK' /\ JobsTyped' /\ SocksTyped' /\ BellsTyped'
BY DEF TypeOK, JobsTyped, SocksTyped, BellsTyped, Jobs, Socks

LEMMA NoticesInitTyped == Init => TypeOK
<1> SUFFICES ASSUME Init PROVE TypeOK
  OBVIOUS
<1>1. SessionTypeOK
  BY SessionInitTyped DEF Init
<1>2. JobsTyped
  BY LiveNoticesAssumption DEF Init, JobsTyped, Jobs, Attempts
<1>3. SocksTyped /\ BellsTyped
  BY Constants DEF Init, SocksTyped, BellsTyped, Socks, NoSocket
<1>4. QED BY <1>1, <1>2, <1>3, NoticeTypes

\* A job that can still be tried has not failed three times.
TriesLeft ==
  \A n \in Notices : job[n].at \in {"waiting", "written", "told", "mailed"} => job[n].tries < Attempts

\* A row is pushed down by one, and not beyond the end of the list.
LEMMA PushedTyped ==
  ASSUME JobsTyped, NEW ms
  PROVE  Pushed(ms) \in [Notices -> 0..Listed]
BY LiveNoticesAssumption DEF Pushed, OnList, JobsTyped

\* The steps of the job.
LEMMA JobStepTyped ==
  ASSUME JobsTyped, TriesLeft, NEW n \in Notices,
         JobMoves(n) \/ Enqueue(n) \/ Forgotten(n) \/ MailFails(n) \/ WorkerDies(n)
  PROVE  JobsTyped' /\ TriesLeft' /\ UNCHANGED <<sock, hears, again, shown>>
<1> USE DEF JobsTyped, TriesLeft, Jobs, Attempts
<1>1. CASE WritesRow(n)
  BY <1>1, PushedTyped DEF WritesRow, Written, liveVars, bells
<1>2. CASE Publishes(n)
  BY <1>2 DEF Publishes
<1>3. CASE MailSends(n)
  BY <1>3 DEF MailSends, liveVars, bells
<1>4. CASE MailNoted(n)
  BY <1>4 DEF MailNoted, StatusSent, liveVars, bells
<1>5. CASE Enqueue(n)
  BY <1>5, LiveNoticesAssumption DEF Enqueue, liveVars, bells
<1>6. CASE Forgotten(n)
  BY <1>6 DEF Forgotten, liveVars, bells
<1>7. CASE MailFails(n)
  <2>1. job[n].tries \in Nat /\ job[n].tries < 3
    BY <1>7 DEF MailFails
  <2>2. PICK j \in Jobs :
          /\ job' = [job EXCEPT ![n] = j]
          /\ j.at \in {"waiting", "failed"} /\ j.at = "waiting" => j.tries < 3
    <3> DEFINE j == [at |-> IF job[n].tries + 1 < Attempts THEN "waiting" ELSE "failed",
                     tries |-> job[n].tries + 1]
    <3>1. j \in Jobs /\ j.at \in {"waiting", "failed"} /\ (j.at = "waiting" => j.tries < 3)
      BY <2>1
    <3>2. job' = [job EXCEPT ![n] = j]
      BY <1>7 DEF MailFails
    <3>3. QED BY <3>1, <3>2
  <2>3. QED BY <1>7, <2>2 DEF MailFails, liveVars, bells
<1>8. CASE WorkerDies(n)
  BY <1>8 DEF WorkerDies, liveVars, bells
<1>9. QED BY <1>1, <1>2, <1>3, <1>4, <1>5, <1>6, <1>7, <1>8 DEF JobMoves

\* The sockets and the bell follow the token of the tab, whatever it has become.
LEMMA FollowsAuthTyped ==
  ASSUME SocksTyped, BellsTyped, SessionTypeOK', FollowsAuth
  PROVE  SocksTyped' /\ BellsTyped'
<1>1. \A t \in Tabs : access'[t] \in 0..MaxPairs
  BY DEF SessionTypeOK
<1>2. \A t \in Tabs : Opening(access'[t]) \in Socks /\ NoSocket \in Socks
  BY <1>1, Constants DEF Opening, NoSocket, Socks
<1>3. sock' \in [Tabs -> Socks]
  BY <1>2 DEF FollowsAuth, SocksTyped
<1>4. hears' \in [Tabs -> BOOLEAN] /\ due' \in [Tabs -> BOOLEAN] /\ again' \in [Tabs -> BOOLEAN]
  BY DEF FollowsAuth, SocksTyped, BellsTyped
<1>5. shown' \in [Tabs -> SUBSET Notices]
  BY DEF FollowsAuth, BellsTyped
<1>6. QED BY <1>3, <1>4, <1>5 DEF SocksTyped, BellsTyped

NoticeInv == SessionInv /\ JobsTyped /\ TriesLeft /\ SocksTyped /\ BellsTyped

LEMMA NoticeStepTyped == NoticeInv /\ [Next]_vars => NoticeInv'
<1> SUFFICES ASSUME NoticeInv, [Next]_vars PROVE NoticeInv'
  OBVIOUS
<1>0. SessionInv' /\ SessionTypeOK /\ SessionTypeOK'
  BY SessionInvKept DEF NoticeInv, SessionInv
<1>a. JobsTyped /\ TriesLeft /\ SocksTyped /\ BellsTyped
  BY DEF NoticeInv
<1>1. ASSUME FollowsAuth, UNCHANGED jobs PROVE NoticeInv'
  BY <1>0, <1>1, <1>a, FollowsAuthTyped DEF NoticeInv, JobsTyped, TriesLeft, jobs
<1>2. ASSUME NEW n \in Notices,
             JobMoves(n) \/ Enqueue(n) \/ Forgotten(n) \/ MailFails(n) \/ WorkerDies(n)
      PROVE  NoticeInv'
  <2>1. JobsTyped' /\ TriesLeft' /\ UNCHANGED <<sock, hears, again, shown>>
    BY <1>2, <1>a, JobStepTyped
  <2>2. UNCHANGED due \/ Publishes(n)
    BY <1>2 DEF JobMoves, WritesRow, MailSends, MailNoted, Enqueue, Forgotten, MailFails, WorkerDies,
                liveVars, bells
  <2>3. due' \in [Tabs -> BOOLEAN]
    BY <1>a, <2>2 DEF Publishes, BellsTyped
  <2>4. QED BY <1>0, <1>a, <2>1, <2>3 DEF NoticeInv, SocksTyped, BellsTyped
<1>3. ASSUME NEW t \in Tabs, BellFetches(t) \/ BellShows(t) \/ BellFails(t) \/ Focus(t)
      PROVE  NoticeInv'
  <2>1. UNCHANGED <<jobs, sock, hears>>
    BY <1>3 DEF BellFetches, BellShows, BellFails, Focus
  <2>2. Unread \subseteq Notices
    BY DEF Unread
  <2>3. BellsTyped'
    BY <1>3, <1>a, <2>2 DEF BellsTyped, BellFetches, BellShows, BellFails, Focus
  <2>4. QED BY <1>0, <1>a, <2>1, <2>3 DEF NoticeInv, SocksTyped, JobsTyped, TriesLeft, jobs
<1>4. ASSUME NEW t \in Tabs, NEW ns, Reads(t, ns) PROVE NoticeInv'
  <2>1. UNCHANGED <<job, adds, newer, mail, sock, hears, again, shown>>
    BY <1>4 DEF Reads
  <2>2. row' \in [Notices -> {"none", "unread", "read"}] /\ due' \in [Tabs -> BOOLEAN]
    BY <1>4, <1>a DEF Reads, JobsTyped, BellsTyped
  <2>3. QED BY <1>0, <1>a, <2>1, <2>2 DEF NoticeInv, SocksTyped, JobsTyped, BellsTyped, TriesLeft
<1>5. ASSUME NEW t \in Tabs, Connects(t) \/ SocketRefused(t) \/ SocketDrops(t) PROVE NoticeInv'
  <2>1. UNCHANGED <<jobs, hears, again, shown>>
    BY <1>5 DEF Connects, SocketRefused, SocketDrops, bells
  <2>2. PICK to \in {"on", "off", "opening"} : sock' = [sock EXCEPT ![t].at = to]
    BY <1>5 DEF Connects, SocketRefused, SocketDrops
  <2>3. sock' \in [Tabs -> Socks]
    BY <1>a, <2>2 DEF SocksTyped, Socks
  <2>4. due' \in [Tabs -> BOOLEAN]
    BY <1>5, <1>a DEF Connects, Catching, SocketRefused, SocketDrops, bells, BellsTyped, SocksTyped
  <2>5. QED BY <1>0, <1>a, <2>1, <2>3, <2>4 DEF NoticeInv, SocksTyped, JobsTyped, BellsTyped, TriesLeft, jobs
<1>6. ASSUME NEW t \in Tabs, PageMounts(t) PROVE NoticeInv'
  <2>1. UNCHANGED <<jobs, bells>>
    BY <1>6 DEF PageMounts
  <2>2. access[t] \in 0..MaxPairs
    BY <1>0 DEF SessionTypeOK
  <2>3. sock' \in [Tabs -> Socks]
    BY <1>6, <1>a, <2>2 DEF PageMounts, Opening, SocksTyped, Socks
  <2>4. hears' \in [Tabs -> BOOLEAN]
    BY <1>6, <1>a DEF PageMounts, SocksTyped
  <2>5. QED BY <1>0, <1>a, <2>1, <2>3, <2>4
            DEF NoticeInv, SocksTyped, JobsTyped, BellsTyped, TriesLeft, jobs, bells
<1>7. ASSUME NEW r \in Requests, SocketsEnd(r) PROVE NoticeInv'
  <2>1. UNCHANGED <<jobs, hears, bells>>
    BY <1>7 DEF SocketsEnd
  <2>2. sock' \in [Tabs -> Socks]
    BY <1>7, <1>a DEF SocketsEnd, SocksTyped, Socks
  <2>3. QED BY <1>0, <1>a, <2>1, <2>2 DEF NoticeInv, SocksTyped, JobsTyped, BellsTyped, TriesLeft, jobs, bells
<1>8. CASE UNCHANGED vars
  BY <1>0, <1>a, <1>8 DEF NoticeInv, SocksTyped, JobsTyped, BellsTyped, TriesLeft, vars, jobs, bells, liveVars
<1>9. CASE OtherWritten
  <2>1. newer' \in [Notices -> 0..Listed]
    BY <1>9, <1>a, PushedTyped DEF OtherWritten
  <2>2. QED BY <1>0, <1>a, <1>9, <2>1
            DEF NoticeInv, OtherWritten, SocksTyped, JobsTyped, BellsTyped, TriesLeft, bells, liveVars
<1>10. QED
  BY <1>1, <1>2, <1>3, <1>4, <1>5, <1>6, <1>7, <1>8, <1>9 DEF Next, OtherCalls, CallMoves, TabMoves

LEMMA NoticeInvInitially == Init => NoticeInv
<1>1. Init => TypeOK /\ SessionInv
  BY NoticesInitTyped, SessionInitTyped, TokenInitially DEF Init, SessionInv
<1>2. Init => TriesLeft
  BY DEF Init, TriesLeft
<1>3. QED BY <1>1, <1>2, NoticeTypes DEF NoticeInv

\* Every variable keeps its type: in particular a job that fails is never tried a fourth time.
THEOREM NoticesTyped == Spec => []TypeOK
<1>1. NoticeInv => TypeOK
  BY NoticeTypes DEF NoticeInv, SessionInv
<1>2. QED BY <1>1, NoticeInvInitially, NoticeStepTyped, PTL DEF Spec

\* No retry of the job, no second job for the same notice and no worker that dies in the
\* middle makes a notice unread again that its player has read.
THEOREM WhatIsReadStaysRead == Spec => ReadStaysRead
<1>1. ASSUME NoticeInv, [Next]_vars
      PROVE  [\A n \in Notices : row[n] = "read" => row'[n] = "read"]_vars
  <2>1. row \in [Notices -> {"none", "unread", "read"}]
    BY <1>1 DEF NoticeInv, JobsTyped
  <2>2. ASSUME NEW n \in Notices, WritesRow(n)
        PROVE  \A m \in Notices : row[m] = "read" => row'[m] = "read"
    BY <2>1, <2>2 DEF WritesRow, Written
  <2>3. ASSUME NEW t \in Tabs, NEW ns, Reads(t, ns)
        PROVE  \A m \in Notices : row[m] = "read" => row'[m] = "read"
    BY <2>3 DEF Reads
  <2>4. \/ \E n \in Notices : WritesRow(n)
        \/ \E t \in Tabs, ns \in SUBSET Notices : Reads(t, ns)
        \/ UNCHANGED row
    <3>1. ASSUME NEW n \in Notices,
                 JobMoves(n) \/ Enqueue(n) \/ Forgotten(n) \/ MailFails(n) \/ WorkerDies(n)
          PROVE  WritesRow(n) \/ UNCHANGED row
      BY <3>1 DEF JobMoves, Publishes, MailSends, MailNoted, Enqueue, Forgotten, MailFails, WorkerDies
    <3>2. ASSUME NEW t \in Tabs,
                 \/ TabMoves(t) \/ BellFetches(t) \/ BellShows(t) \/ BellFails(t) \/ Focus(t)
                 \/ Connects(t) \/ SocketRefused(t) \/ SocketDrops(t) \/ PageMounts(t)
          PROVE  UNCHANGED row
      BY <3>2 DEF TabMoves, BellFetches, BellShows, BellFails, Focus, Connects, SocketRefused,
                  SocketDrops, PageMounts, jobs
    <3>3. OtherCalls \/ (\E r \in Requests : CallMoves(r) \/ SocketsEnd(r)) \/ UNCHANGED vars
            \/ OtherWritten => UNCHANGED row
      BY DEF OtherCalls, CallMoves, SocketsEnd, vars, jobs, OtherWritten
    <3>4. QED BY <1>1, <3>1, <3>2, <3>3 DEF Next
  <2>5. QED BY <2>2, <2>3, <2>4
<1>2. QED BY <1>1, NoticeInvInitially, NoticeStepTyped, PTL DEF Spec, ReadStaysRead

---------------------------------------------------------------------------
(* Notices: a tab that is signed out.                                      *)

SignedOutIsDeaf ==
  \A t \in Tabs : access[t] = 0 => sock[t] = NoSocket /\ ~hears[t] /\ ~due[t]

LEMMA DeafStep == NoticeInv /\ SignedOutIsDeaf /\ [Next]_vars => SignedOutIsDeaf'
<1> SUFFICES ASSUME NoticeInv, SignedOutIsDeaf, [Next]_vars PROVE SignedOutIsDeaf'
  OBVIOUS
<1>1. /\ sock \in [Tabs -> Socks] /\ hears \in [Tabs -> BOOLEAN] /\ due \in [Tabs -> BOOLEAN]
      /\ access \in [Tabs -> 0..MaxPairs] /\ good \subseteq Pairs /\ 0 \notin Pairs
  BY DEF NoticeInv, SessionInv, SessionTypeOK, SocksTyped, BellsTyped, Pairs
<1>2. CASE FollowsAuth
  BY <1>2 DEF FollowsAuth, SignedOutIsDeaf, SignedOut
\* Only the session's own steps change the token, and the bell never signs out.
<1>3. CASE UNCHANGED <<access, sock, hears>> /\ \A t \in Tabs : due'[t] => due[t] \/ access[t] # 0
  BY <1>3 DEF SignedOutIsDeaf
<1>4. ASSUME NEW n \in Notices,
             JobMoves(n) \/ Enqueue(n) \/ Forgotten(n) \/ MailFails(n) \/ WorkerDies(n)
      PROVE  SignedOutIsDeaf'
  <2>1. UNCHANGED <<access, sock, hears>>
    BY <1>4 DEF JobMoves, WritesRow, Publishes, MailSends, MailNoted, Enqueue, Forgotten, MailFails,
                WorkerDies, sessionVars, browser, liveVars
  <2>2. UNCHANGED due \/ due' = [t \in Tabs |-> due[t] \/ t \in Reached]
    BY <1>4 DEF JobMoves, WritesRow, Publishes, MailSends, MailNoted, Enqueue, Forgotten, MailFails,
                WorkerDies, liveVars, bells
  <2>3. \A t \in Tabs : t \in Reached => access[t] # 0
    BY DEF Reached, SignedOutIsDeaf
  <2>4. QED BY <1>1, <1>3, <2>1, <2>2, <2>3
<1>5. ASSUME NEW t \in Tabs,
             \/ BellFetches(t) \/ BellShows(t) \/ BellFails(t) \/ Focus(t)
             \/ \E ns \in SUBSET Notices : Reads(t, ns)
      PROVE  SignedOutIsDeaf'
  <2>1. Bell[t] \notin SignOuts
    BY LiveNoticesAssumption
  <2>2. UNCHANGED <<access, sock, hears>>
    BY <1>5, <2>1 DEF BellFetches, Send, BellShows, Answered, BellFails, Lost, GivesUp, Rejected, Focus,
                      Reads, sessionVars, browser
  <2>3. \A u \in Tabs : due'[u] => due[u] \/ access[u] # 0
    BY <1>1, <1>5 DEF BellFetches, BellShows, BellFails, Focus, Reads
  <2>4. QED BY <1>3, <2>2, <2>3
<1>6. ASSUME NEW t \in Tabs, Connects(t) \/ SocketRefused(t) \/ SocketDrops(t) \/ PageMounts(t)
      PROVE  SignedOutIsDeaf'
  <2>1. access[t] # 0 /\ UNCHANGED access
    BY <1>1, <1>6 DEF Connects, SocketRefused, SocketDrops, PageMounts, SignedOutIsDeaf, NoSocket,
                      sessionVars, browser
  <2>2. \A u \in Tabs : u # t => sock'[u] = sock[u] /\ hears'[u] = hears[u] /\ due'[u] = due[u]
    BY <1>1, <1>6 DEF Connects, SocketRefused, SocketDrops, PageMounts, bells
  <2>3. QED BY <2>1, <2>2 DEF SignedOutIsDeaf
<1>7. ASSUME NEW r \in Requests, SocketsEnd(r) PROVE SignedOutIsDeaf'
  <2>1. UNCHANGED <<access, hears, due>>
    BY <1>7 DEF SocketsEnd, SignOutServed, browser, bells
  <2>2. \A t \in Tabs : sock[t] = NoSocket => sock'[t] = NoSocket
    BY <1>7 DEF SocketsEnd, NoSocket
  <2>3. QED BY <2>1, <2>2 DEF SignedOutIsDeaf
<1>8. CASE UNCHANGED vars \/ OtherWritten
  BY <1>3, <1>8 DEF vars, OtherWritten, sessionVars, browser, liveVars, bells
<1>9. QED
  BY <1>2, <1>4, <1>5, <1>6, <1>7, <1>8 DEF Next, OtherCalls, CallMoves, TabMoves

\* Whichever way a tab came to be signed out, by its own call, by a refresh that was refused
\* or by a page load, it has no socket and no bell that fetches for the old session.
THEOREM SignedOutHearsNothing == Spec => []SignedOutIsDeaf
<1>1. Init => SignedOutIsDeaf
  BY DEF Init, SignedOutIsDeaf
<1>2. QED BY <1>1, NoticeInvInitially, NoticeStepTyped, DeafStep, PTL DEF Spec
=============================================================================
