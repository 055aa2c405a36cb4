---------------------------- MODULE WebSession ----------------------------
(***************************************************************************)
(* How a browser stays signed in: the API client of each tab               *)
(* (apps/web/src/lib/api.ts) against the sign-in service of the API        *)
(* (auth.service.ts) and its check of every request (middleware/auth.ts).  *)
(*                                                                         *)
(* Signing in or refreshing issues a pair: an access token, which lapses,  *)
(* and a refresh token, which is a row the next refresh deletes.  Pairs    *)
(* are numbered; the number stands for both of its tokens and 0 for none.  *)
(* Every tab keeps an access token of its own in memory, while the refresh *)
(* cookie and the stored access token belong to the browser.  A refused    *)
(* request starts a refresh, and those refused meanwhile wait for it.      *)
(***************************************************************************)
EXTENDS Naturals, Sequences

CONSTANTS
  Tabs,
  Requests,  \* the calls the pages make, each made again and again
  TabOf,     \* the tab of each request
  SignOuts,  \* the requests that sign out
  MaxPairs,  \* bound: pairs issued; the last one never lapses
  MaxFaults  \* bound: calls that fail on their way

ASSUME WebSessionAssumption ==
  /\ TabOf \in [Requests -> Tabs] /\ SignOuts \subseteq Requests
  /\ MaxPairs \in Nat /\ MaxFaults \in Nat

VARIABLES
  rows,        \* refresh_tokens
  origin,      \* of each pair issued: the refresh token it was issued for
  good,        \* the access tokens that neither lapsed nor were blacklisted
  cookie,      \* refresh_token, shared by the tabs
  stored,      \* localStorage accessToken, shared by the tabs
  access,      \* accessToken of each tab
  refreshing,  \* isRefreshing of each tab
  call,        \* the refresh call of each tab
  req,         \* every request; those "queued" are in refreshQueue
  leaving,     \* the tab is on its way to /login
  faults

server == <<rows, origin, good>>
browser == <<cookie, stored, access>>
client == <<refreshing, call, req, leaving>>
sessionVars == <<server, browser, client, faults>>

Issued == Len(origin)
Pairs == 1..MaxPairs
NoCall == [at |-> "none", old |-> 0, new |-> 0]
Idle == [at |-> "idle", tok |-> 0, again |-> FALSE]

SessionTypeOK ==
  /\ rows \subseteq Pairs /\ good \subseteq Pairs
  /\ origin \in Seq(0..MaxPairs) /\ Issued <= MaxPairs
  /\ cookie \in 0..MaxPairs /\ stored \in 0..MaxPairs
  /\ access \in [Tabs -> 0..MaxPairs]
  /\ refreshing \in [Tabs -> BOOLEAN] /\ leaving \in [Tabs -> BOOLEAN]
  /\ call \in [Tabs -> [at : {"none", "asked", "taken", "made", "refused"},
                        old : 0..MaxPairs, new : 0..MaxPairs]]
  /\ req \in [Requests -> [at : {"idle", "sent", "served", "queued", "leading"},
                           tok : 0..MaxPairs, again : BOOLEAN]]
  /\ faults \in 0..MaxFaults

SessionInit ==
  /\ rows = {} /\ origin = << >> /\ good = {}
  /\ cookie = 0 /\ stored = 0 /\ access = [t \in Tabs |-> 0]
  /\ refreshing = [t \in Tabs |-> FALSE] /\ leaving = [t \in Tabs |-> FALSE]
  /\ call = [t \in Tabs |-> NoCall]
  /\ req = [r \in Requests |-> Idle]
  /\ faults = 0

(* issueTokens: a new pair, for the refresh token "old" or for a password. *)
Issue(old) ==
  /\ Issued < MaxPairs
  /\ origin' = Append(origin, old)
  /\ rows' = rows \cup {Issued + 1}
  /\ good' = good \cup {Issued + 1}

(* setAccessToken: of the tab, and of what the next page load starts with. *)
SetAccessToken(t, n) ==
  /\ access' = [access EXCEPT ![t] = n]
  /\ stored' = n

Fails == /\ faults < MaxFaults
         /\ faults' = faults + 1

---------------------------------------------------------------------------
(* The login page: the call and its answer.                                *)
SignIn(t) ==
  /\ access[t] = 0 /\ ~leaving[t]
  /\ Issue(0)
  /\ cookie' = Issued + 1
  /\ SetAccessToken(t, Issued + 1)
  /\ UNCHANGED <<client, faults>>

(* The fifteen minutes of an access token are over, the oldest first.      *)
Lapse(n) ==
  /\ n \in good /\ n < MaxPairs
  /\ \A m \in good : n <= m
  /\ good' = good \ {n}
  /\ UNCHANGED <<rows, origin, browser, client, faults>>

(* A page of a signed-in tab calls the API with the token the tab has.     *)
Send(r) ==
  /\ req[r].at = "idle"
  /\ access[TabOf[r]] # 0 /\ ~leaving[TabOf[r]]
  /\ req' = [req EXCEPT ![r] = [at |-> "sent", tok |-> access[TabOf[r]], again |-> FALSE]]
  /\ UNCHANGED <<server, browser, refreshing, call, leaving, faults>>

Accepted(r) == req[r].at = "sent" /\ req[r].tok \in good
Turned(r) == req[r].at = "sent" /\ req[r].tok \notin good

Answered(r) ==
  /\ r \notin SignOuts /\ Accepted(r)
  /\ req' = [req EXCEPT ![r] = Idle]
  /\ UNCHANGED <<server, browser, refreshing, call, leaving, faults>>

(* logout: every refresh token of the user, this one access token.         *)
SignOutServed(r) ==
  /\ r \in SignOuts /\ Accepted(r)
  /\ rows' = {} /\ good' = good \ {req[r].tok}
  /\ req' = [req EXCEPT ![r].at = "served"]
  /\ UNCHANGED <<origin, browser, refreshing, call, leaving, faults>>

SignOutArrives(r) ==
  /\ req[r].at = "served"
  /\ cookie' = 0
  /\ SetAccessToken(TabOf[r], 0)
  /\ req' = [req EXCEPT ![r] = Idle]
  /\ UNCHANGED <<server, refreshing, call, leaving, faults>>

(* A call without an answer is an error of the page's own; a page that     *)
(* signs out does so in the browser whatever the API says.                 *)
Rejected(r) ==
  /\ req' = [req EXCEPT ![r] = Idle]
  /\ IF r \in SignOuts THEN SetAccessToken(TabOf[r], 0) ELSE UNCHANGED <<access, stored>>
  /\ UNCHANGED <<server, cookie, refreshing, call, leaving>>

Lost(r) ==
  /\ req[r].at \in {"sent", "served"}
  /\ Fails
  /\ Rejected(r)

---------------------------------------------------------------------------
(* A request refused with 401.                                             *)
WaitsForRefresh(r) ==
  /\ Turned(r) /\ ~req[r].again /\ refreshing[TabOf[r]]
  /\ req' = [req EXCEPT ![r].at = "queued"]
  /\ UNCHANGED <<server, browser, refreshing, call, leaving, faults>>

StartsRefresh(r) ==
  /\ Turned(r) /\ ~req[r].again /\ ~refreshing[TabOf[r]]
  /\ req' = [req EXCEPT ![r].at = "leading", ![r].again = TRUE]
  /\ refreshing' = [refreshing EXCEPT ![TabOf[r]] = TRUE]
  /\ call' = [call EXCEPT ![TabOf[r]] = [at |-> "asked", old |-> cookie, new |-> 0]]
  /\ UNCHANGED <<server, browser, leaving, faults>>

GivesUp(r) ==
  /\ Turned(r) /\ req[r].again
  /\ Rejected(r)
  /\ UNCHANGED faults

(* refresh: the row is deleted and returned by one statement, ...          *)
KeepsRows(old) == rows

Taken(old) == rows \ {old}

RefreshServed(t) ==
  /\ call[t].at = "asked"
  /\ IF call[t].old \in rows
       THEN rows' = Taken(call[t].old) /\ call' = [call EXCEPT ![t].at = "taken"]
       ELSE rows' = rows /\ call' = [call EXCEPT ![t].at = "refused"]
  /\ UNCHANGED <<origin, good, browser, refreshing, req, leaving, faults>>

(* ... and the pair that replaces it is inserted by another.               *)
RefreshIssues(t) ==
  /\ call[t].at = "taken"
  /\ Issue(call[t].old)
  /\ call' = [call EXCEPT ![t].at = "made", ![t].new = Issued + 1]
  /\ UNCHANGED <<browser, refreshing, req, leaving, faults>>

(* The API dies on it or the answer is lost; at the bound on pairs the     *)
(* service counts as down.                                                 *)
RefreshDies(t) ==
  /\ call[t].at \in {"asked", "taken", "made"}
  /\ IF call[t].at = "taken" /\ Issued = MaxPairs THEN UNCHANGED faults ELSE Fails
  /\ call' = [call EXCEPT ![t].at = "refused"]
  /\ UNCHANGED <<server, browser, refreshing, req, leaving>>

(* The requests a refresh of the tab holds up: its queue and its own.      *)
JustTheLeader(t) == {r \in Requests : TabOf[r] = t /\ req[r].at = "leading"}

HeldUp(t) == {r \in Requests : TabOf[r] = t /\ req[r].at \in {"queued", "leading"}}

RefreshDone(t) ==
  /\ refreshing' = [refreshing EXCEPT ![t] = FALSE]
  /\ call' = [call EXCEPT ![t] = NoCall]

RefreshArrives(t) ==
  /\ call[t].at = "made"
  /\ cookie' = call[t].new
  /\ SetAccessToken(t, call[t].new)
  /\ req' = [r \in Requests |-> IF r \in HeldUp(t)
                                  THEN [req[r] EXCEPT !.at = "sent", !.tok = call[t].new]
                                  ELSE req[r]]
  /\ RefreshDone(t)
  /\ UNCHANGED <<server, leaving, faults>>

RefreshRefused(t) ==
  /\ call[t].at = "refused"
  /\ SetAccessToken(t, 0)
  /\ req' = [r \in Requests |-> IF r \in HeldUp(t) THEN Idle ELSE req[r]]
  /\ RefreshDone(t)
  /\ leaving' = [leaving EXCEPT ![t] = TRUE]
  /\ UNCHANGED <<server, cookie, faults>>

(* window.location.href: a new page, with nothing of the old one left.     *)
PageLoads(t) ==
  /\ leaving[t]
  /\ leaving' = [leaving EXCEPT ![t] = FALSE]
  /\ access' = [access EXCEPT ![t] = stored]
  /\ req' = [r \in Requests |-> IF TabOf[r] = t THEN Idle ELSE req[r]]
  /\ RefreshDone(t)
  /\ UNCHANGED <<server, cookie, stored, faults>>

---------------------------------------------------------------------------
RequestMoves(r) ==
  \/ Answered(r) \/ SignOutServed(r) \/ SignOutArrives(r)
  \/ WaitsForRefresh(r) \/ StartsRefresh(r) \/ GivesUp(r)

RefreshMoves(t) ==
  \/ RefreshServed(t) \/ RefreshIssues(t) \/ RefreshArrives(t) \/ RefreshRefused(t)
  \/ PageLoads(t)
  \/ Issued = MaxPairs /\ RefreshDies(t)

SessionNext ==
  \/ \E n \in Pairs : Lapse(n)
  \/ \E r \in Requests : Send(r) \/ Lost(r) \/ RequestMoves(r)
  \/ \E t \in Tabs : SignIn(t) \/ RefreshDies(t) \/ RefreshMoves(t)

(* Calls are answered and pages load; nobody has to sign in or send.       *)
SessionFairness ==
  /\ \A r \in Requests : WF_sessionVars(RequestMoves(r))
  /\ \A t \in Tabs : WF_sessionVars(RefreshMoves(t))

SessionSpec == SessionInit /\ [][SessionNext]_sessionVars /\ SessionFairness

(* A refresh token is good for one pair, however many tabs present it at   *)
(* once: rotating is one statement ("concurrent reuse can never mint a     *)
(* second pair").                                                          *)
OnePairPerToken ==
  \A m, n \in 1..Issued : origin[m] # 0 /\ origin[m] = origin[n] => m = n

(* Every call a page makes comes to an answer or an error, also one that   *)
(* was refused while the refresh of another was under way.                 *)
RequestsSettle == \A r \in Requests : (req[r].at # "idle") ~> (req[r].at = "idle")
=============================================================================
