---------------------------- MODULE LiveNotices ----------------------------
(***************************************************************************)
(* How a player learns of something: the job that writes a notice and      *)
(* mails it (dispatch-notification.job.ts), its retries, the event it      *)
(* publishes through Redis to the sockets of the player, and the bell of   *)
(* each open tab, which fetches the list whenever it is told to            *)
(* (SocketSyncProvider.tsx, NotificationBell.tsx) by a call of WebSession. *)
(*                                                                         *)
(* The socket of a tab is opened with the access token of that moment and  *)
(* keeps it (useSocket.ts); the server closes it once the token is no      *)
(* longer good (socket/handlers.ts), and the library then stays closed.    *)
(***************************************************************************)
EXTENDS WebSession

CONSTANTS
  Notices,   \* those that are followed, of all that the player gets
  Listed,    \* how many rows the bell asks for (limit)
  Bell,      \* the request by which each tab fetches the list
  MaxAdds    \* bound: jobs added for one notice

ASSUME LiveNoticesAssumption ==
  /\ Bell \in [Tabs -> Requests] /\ \A t \in Tabs : TabOf[Bell[t]] = t /\ Bell[t] \notin SignOuts
  /\ Listed \in Nat \ {0} /\ MaxAdds \in Nat

VARIABLES
  job,    \* the BullMQ job of each notice, and the attempts that failed
  adds,   \* how many were added
  row,    \* the in-app notice: its row of notifications
  newer,  \* how many newer notices there are, read ones included, up to Listed
  mail,   \* the status of the row of the mail
  sock,   \* sharedSocket of each tab, with the token it was opened with
  hears,  \* the listeners of SocketSyncProvider are on that socket
  due,    \* the bell has to fetch
  again,  \* its fetch failed once and is tried again
  shown   \* the unread notices it shows

notes == <<row, newer>>
jobs == <<job, adds, notes, mail>>
bells == <<due, again, shown>>
liveVars == <<sock, hears, bells>>
vars == <<sessionVars, jobs, liveVars>>

Attempts == 3
NoSocket == [at |-> "none", tok |-> 0]
Opening(n) == [at |-> "opening", tok |-> n]
TheBells == {Bell[t] : t \in Tabs}
Unread == {n \in Notices : row[n] = "unread"}

(* The list has the newest rows, by the time they were first written.      *)
OnList(n) == newer[n] < Listed

TypeOK ==
  /\ SessionTypeOK
  /\ job \in [Notices -> [at : {"none", "waiting", "written", "told", "mailed", "done", "failed"},
                          tries : 0..Attempts]]
  /\ adds \in [Notices -> 0..MaxAdds]
  /\ row \in [Notices -> {"none", "unread", "read"}] /\ newer \in [Notices -> 0..Listed]
  /\ mail \in [Notices -> {"none", "sent", "failed"}]
  /\ sock \in [Tabs -> [at : {"none", "opening", "on", "off"}, tok : 0..MaxPairs]]
  /\ hears \in [Tabs -> BOOLEAN]
  /\ due \in [Tabs -> BOOLEAN] /\ again \in [Tabs -> BOOLEAN]
  /\ shown \in [Tabs -> SUBSET Notices]

Init ==
  /\ SessionInit
  /\ job = [n \in Notices |-> [at |-> "none", tries |-> 0]]
  /\ adds = [n \in Notices |-> 0]
  /\ row = [n \in Notices |-> "none"] /\ newer = [n \in Notices |-> 0]
  /\ mail = [n \in Notices |-> "none"]
  /\ sock = [t \in Tabs |-> NoSocket] /\ hears = [t \in Tabs |-> FALSE]
  /\ due = [t \in Tabs |-> FALSE] /\ again = [t \in Tabs |-> FALSE]
  /\ shown = [t \in Tabs |-> {}]

---------------------------------------------------------------------------
(* enqueueNotification.  The job id is the idempotency key: while a job    *)
(* with it exists, one that ended included, adding it again is nothing.    *)
Enqueue(n) ==
  /\ job[n].at = "none" /\ adds[n] < MaxAdds
  /\ job' = [job EXCEPT ![n] = [at |-> "waiting", tries |-> 0]]
  /\ adds' = [adds EXCEPT ![n] = @ + 1]
  /\ UNCHANGED <<sessionVars, notes, mail, liveVars>>

(* removeOnComplete, removeOnFail: newer jobs push it out.                 *)
Forgotten(n) ==
  /\ job[n].at \in {"done", "failed"}
  /\ job' = [job EXCEPT ![n] = [at |-> "none", tries |-> 0]]
  /\ UNCHANGED <<sessionVars, adds, notes, mail, liveVars>>

(* upsertNotification: on conflict only the status and the time are set.   *)
WrittenAnew(n) == "unread"

Written(n) == IF row[n] = "none" THEN "unread" ELSE row[n]

(* A new row pushes the others down the list.                              *)
Pushed(ms) ==
  [m \in Notices |-> IF m \in ms /\ row[m] # "none" /\ OnList(m) THEN newer[m] + 1 ELSE newer[m]]

WritesRow(n) ==
  /\ job[n].at = "waiting"
  /\ row' = [row EXCEPT ![n] = Written(n)]
  /\ newer' = IF row[n] = "none" THEN Pushed(Notices \ {n}) ELSE newer
  /\ job' = [job EXCEPT ![n].at = "written"]
  /\ UNCHANGED <<sessionVars, adds, mail, liveVars>>

(* The row of a notice that is not followed; its event does no more to the *)
(* bell than Focus.                                                        *)
OtherWritten ==
  /\ newer' = Pushed(Notices)
  /\ UNCHANGED <<sessionVars, job, adds, row, mail, liveVars>>

(* emitToUser: notification:new to the sockets that are connected now;     *)
(* the listeners invalidate the query of the bell.                         *)
Reached == {t \in Tabs : sock[t].at = "on" /\ hears[t]}

Publishes(n) ==
  /\ job[n].at = "written"
  /\ job' = [job EXCEPT ![n].at = "told"]
  /\ due' = [t \in Tabs |-> due[t] \/ t \in Reached]
  /\ UNCHANGED <<sessionVars, adds, notes, mail, sock, hears, again, shown>>

MailSends(n) ==
  /\ job[n].at = "told"
  /\ job' = [job EXCEPT ![n].at = "mailed"]
  /\ UNCHANGED <<sessionVars, adds, notes, mail, liveVars>>

DefaultStatus == "pending"  \* upsertNotification without its last argument

StatusSent == "sent"

MailNoted(n) ==
  /\ job[n].at = "mailed"
  /\ mail' = [mail EXCEPT ![n] = StatusSent]
  /\ job' = [job EXCEPT ![n].at = "done"]
  /\ UNCHANGED <<sessionVars, adds, notes, liveVars>>

(* The mail, or the note that it went out, fails: noted as failed, and the *)
(* whole job is tried again, at most three times.                          *)
MailFails(n) ==
  /\ job[n].at \in {"told", "mailed"}
  /\ Fails
  /\ mail' = [mail EXCEPT ![n] = "failed"]
  /\ job' = [job EXCEPT ![n] = [at |-> IF @.tries + 1 < Attempts THEN "waiting" ELSE "failed",
                                tries |-> @.tries + 1]]
  /\ UNCHANGED <<server, browser, client, adds, notes, liveVars>>

(* The worker dies: the stalled job is taken up from the start.            *)
WorkerDies(n) ==
  /\ job[n].at \in {"written", "told", "mailed"}
  /\ Fails
  /\ job' = [job EXCEPT ![n].at = "waiting"]
  /\ UNCHANGED <<server, browser, client, adds, notes, mail, liveVars>>

---------------------------------------------------------------------------
(* The sockets and the bell follow accessToken (auth-changed): signed in,  *)
(* the socket is opened and the bell mounts; signed out, both go.          *)
SignedIn(t) == access[t] = 0 /\ access'[t] # 0
SignedOut(t) == access'[t] = 0

FollowsAuth ==
  /\ sock' = [t \in Tabs |-> IF SignedOut(t) THEN NoSocket
                             ELSE IF SignedIn(t) THEN Opening(access'[t]) ELSE sock[t]]
  /\ hears' = [t \in Tabs |-> ~SignedOut(t) /\ (SignedIn(t) \/ hears[t])]
  /\ due' = [t \in Tabs |-> ~SignedOut(t) /\ (SignedIn(t) \/ due[t])]
  /\ again' = [t \in Tabs |-> ~SignedOut(t) /\ ~SignedIn(t) /\ again[t]]
  /\ shown' = [t \in Tabs |-> IF SignedOut(t) \/ SignedIn(t) THEN {} ELSE shown[t]]

CallMoves(r) ==
  /\ \/ r \notin TheBells /\ (Answered(r) \/ GivesUp(r))
     \/ SignOutArrives(r) \/ WaitsForRefresh(r) \/ StartsRefresh(r)
  /\ FollowsAuth
  /\ UNCHANGED jobs

TabMoves(t) ==
  /\ RefreshMoves(t)
  /\ FollowsAuth
  /\ UNCHANGED jobs

OtherCalls ==
  /\ \/ \E n \in Pairs : Lapse(n)
     \/ \E r \in Requests \ TheBells : Send(r) \/ Lost(r)
     \/ \E t \in Tabs : SignIn(t) \/ RefreshDies(t)
  /\ FollowsAuth
  /\ UNCHANGED jobs

(* logout also closes every socket of the user (disconnectUser).           *)
SocketsEnd(r) ==
  /\ SignOutServed(r)
  /\ sock' = [t \in Tabs |-> IF sock[t].at = "on" THEN [sock[t] EXCEPT !.at = "off"] ELSE sock[t]]
  /\ UNCHANGED <<jobs, hears, bells>>

---------------------------------------------------------------------------
BellFetches(t) ==
  /\ due[t]
  /\ Send(Bell[t])
  /\ due' = [due EXCEPT ![t] = FALSE]
  /\ UNCHANGED <<jobs, sock, hears, again, shown>>

(* The answer; one that was overtaken by an invalidation is not used.      *)
BellShows(t) ==
  /\ Answered(Bell[t])
  /\ IF due[t] THEN UNCHANGED <<shown, again>>
     ELSE /\ shown' = [shown EXCEPT ![t] = {n \in Unread : OnList(n)}]
          /\ again' = [again EXCEPT ![t] = FALSE]
  /\ UNCHANGED <<jobs, sock, hears, due>>

(* No answer: react-query tries once more (retry: 1), then leaves it.      *)
BellFails(t) ==
  /\ Lost(Bell[t]) \/ GivesUp(Bell[t])
  /\ due' = [due EXCEPT ![t] = @ \/ (access[t] # 0 /\ ~again[t])]
  /\ again' = [again EXCEPT ![t] = access[t] # 0 /\ ~due[t] /\ ~@]
  /\ UNCHANGED <<jobs, sock, hears, shown>>

(* refetchOnWindowFocus.                                                   *)
Focus(t) ==
  /\ access[t] # 0
  /\ due' = [due EXCEPT ![t] = TRUE]
  /\ UNCHANGED <<sessionVars, jobs, sock, hears, again, shown>>

(* The player marks a notice read, or all of them: the call, its answer    *)
(* and the invalidation that follows.                                      *)
Reads(t, ns) ==
  /\ access[t] \in good
  /\ \E n \in shown[t] : ns \in {{n}, Unread}
  /\ row' = [n \in Notices |-> IF n \in ns THEN "read" ELSE row[n]]
  /\ due' = [due EXCEPT ![t] = TRUE]
  /\ UNCHANGED <<sessionVars, job, adds, newer, mail, sock, hears, again, shown>>

---------------------------------------------------------------------------
(* socketAuth on connect; on "connect" everything live is fetched again.   *)
NoCatchUp(t) == due[t]

Catching(t) == due[t] \/ hears[t]

Connects(t) ==
  /\ sock[t].at = "opening" /\ sock[t].tok \in good
  /\ sock' = [sock EXCEPT ![t].at = "on"]
  /\ due' = [due EXCEPT ![t] = Catching(t)]
  /\ UNCHANGED <<sessionVars, jobs, hears, again, shown>>

(* Refused, or found on a later check to be of a session that is over:     *)
(* the library does not open it again by itself.                           *)
SocketRefused(t) ==
  /\ sock[t].at \in {"opening", "on"} /\ sock[t].tok \notin good
  /\ sock' = [sock EXCEPT ![t].at = "off"]
  /\ UNCHANGED <<sessionVars, jobs, hears, bells>>

(* The network or the API goes away: the library opens it again, with the  *)
(* same token.                                                             *)
SocketDrops(t) ==
  /\ sock[t].at = "on"
  /\ sock' = [sock EXCEPT ![t].at = "opening"]
  /\ UNCHANGED <<sessionVars, jobs, hears, bells>>

(* connectSocket by a page with live events of its own: a socket with      *)
(* another token is replaced, and its listeners go with it.                *)
PageMounts(t) ==
  /\ access[t] # 0
  /\ sock[t].tok # access[t] \/ sock[t].at = "off"
  /\ sock' = [sock EXCEPT ![t] = Opening(access[t])]
  /\ hears' = [hears EXCEPT ![t] = @ /\ sock[t].tok = access[t]]
  /\ UNCHANGED <<sessionVars, jobs, bells>>

---------------------------------------------------------------------------
JobMoves(n) == WritesRow(n) \/ Publishes(n) \/ MailSends(n) \/ MailNoted(n)
BellMoves(t) == BellFetches(t) \/ BellShows(t) \/ (GivesUp(Bell[t]) /\ BellFails(t))
SocketMoves(t) == Connects(t) \/ SocketRefused(t)

Next ==
  \/ OtherCalls \/ OtherWritten
  \/ \E r \in Requests : CallMoves(r) \/ SocketsEnd(r)
  \/ \E n \in Notices : JobMoves(n) \/ Enqueue(n) \/ Forgotten(n) \/ MailFails(n) \/ WorkerDies(n)
  \/ \E t \in Tabs : \/ TabMoves(t) \/ BellFetches(t) \/ BellShows(t) \/ BellFails(t) \/ Focus(t)
                     \/ Connects(t) \/ SocketRefused(t) \/ SocketDrops(t) \/ PageMounts(t)
                     \/ \E ns \in SUBSET Notices : Reads(t, ns)

(* The worker works, calls are answered, the bell and the socket library   *)
(* do what they have to; the player and the network need not do anything,  *)
(* but they do not overtake every single fetch for ever either.            *)
Fairness ==
  /\ \A n \in Notices : WF_vars(JobMoves(n))
  /\ \A t \in Tabs : /\ WF_vars(BellMoves(t))
                     /\ SF_vars(~due[t] /\ BellShows(t))
                     /\ WF_vars(SocketMoves(t))
                     /\ WF_vars(TabMoves(t))
  /\ \A r \in Requests : WF_vars(CallMoves(r)) /\ WF_vars(SocketsEnd(r))

Spec == Init /\ [][Next]_vars /\ Fairness

(* What a player read stays read: the job that is retried, or added again  *)
(* after it was forgotten, writes the same row without touching "read".    *)
ReadStaysRead == [][\A n \in Notices : row[n] = "read" => row'[n] = "read"]_vars

(* The bell of a tab whose socket is on, or on its way to be, with a token *)
(* that is good comes to show every unread notice its list reaches, also   *)
(* one whose event fell into a gap between two connections or overtook a   *)
(* fetch.                                                                  *)
Attached(t) == /\ hears[t] /\ sock[t].at \in {"opening", "on"}
               /\ sock[t].tok \in good

NoticeShown ==
  \A t \in Tabs, n \in Notices :
    (row[n] = "unread" /\ Attached(t)) ~>
      (n \in shown[t] \/ row[n] # "unread" \/ ~OnList(n) \/ ~Attached(t))

(* The bell always works: as long as the player is signed in.  TLC refutes *)
(* it: once the token of the socket has lapsed the server closes it, and   *)
(* nothing opens it again, or a page does and the listeners are lost.      *)
BellAlwaysWorks ==
  \A t \in Tabs, n \in Notices :
    (row[n] = "unread" /\ access[t] # 0) ~> (n \in shown[t] \/ row[n] # "unread" \/ access[t] = 0)
=============================================================================
