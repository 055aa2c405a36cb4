----------------------------- MODULE Buybacks -----------------------------
(***************************************************************************)
(* One player of one tournament who is out of it and pays to come back:    *)
(* the checkout (createBuybackCheckout, createBuybackPaymentIntent), the   *)
(* payment provider, its webhooks (stripe.webhook.ts, stripe.ts), the      *)
(* fulfilment (fulfillBuyback) and the superadmin's refund.                *)
(*                                                                         *)
(* The provider is external and modelled from how the code uses it: an     *)
(* intent can be paid once, a declined card leaves it open for another     *)
(* try, and every event is delivered, in any order and possibly several    *)
(* times or to two handlers at once, until a delivery is acknowledged.     *)
(* The tournament goes on meanwhile: rounds end and close, the bracket     *)
(* starts, and the player may withdraw or play somewhere else.             *)
(***************************************************************************)
EXTENDS Naturals, FiniteSets

CONSTANTS
  Requests,     \* checkouts in flight
  Handlers,     \* webhook deliveries in flight
  Edits,        \* the statuses an administrator sets by hand
  MaxBuybacks,  \* bound: rows of buybacks
  MaxRound      \* bound: the last round that closes

ASSUME BuybacksAssumption ==
  /\ MaxBuybacks \in Nat /\ MaxRound \in Nat
  /\ Edits \subseteq {"pending", "failed"}

VARIABLES
  buyback, forRound, linked,      \* rows: status, round, and whether the intent is on it
  intent, refunded, events,       \* the provider: intents, refunds, unacknowledged events
  standing, registered, count,  \* the player's participant row and registration
  phase, current, open,           \* the tournament, its round, and whether that still runs
  checkout, seen, wanted,         \* where each checkout is, with which row, for which round
  hook, event                     \* where each delivery is, and of what

rows == <<buyback, forRound, linked>>
provider == <<intent, refunded, events>>
player == <<standing, registered, count>>
cup == <<phase, current, open>>
requests == <<checkout, seen, wanted>>
hooks == <<hook, event>>
vars == <<rows, provider, player, cup, requests, hooks>>

Ids == 1..MaxBuybacks
NoEvent == [type |-> "none", id |-> 0]
Events == [type : {"succeeded", "failed"}, id : Ids]

TypeOK ==
  /\ buyback \in [Ids -> {"none", "pending", "completed", "failed"}]
  /\ forRound \in [Ids -> Nat]
  /\ linked \subseteq Ids
  /\ intent \in [Ids -> {"none", "open", "succeeded", "canceled"}]
  /\ refunded \subseteq Ids
  /\ events \subseteq Events
  /\ standing \in {"live", "eliminated", "out", "away"}
  /\ current \in Nat /\ count \in Nat
  /\ registered \in BOOLEAN /\ open \in BOOLEAN
  /\ phase \in {"normal", "knockout", "completed"}
  /\ checkout \in [Requests -> {"idle", "checked", "looking", "inserting", "creating"}]
  /\ seen \in [Requests -> 0..MaxBuybacks]
  /\ wanted \in [Requests -> Nat]
  /\ hook \in [Handlers -> {"idle", "cleared", "failing"}]
  /\ event \in [Handlers -> Events \cup {NoEvent}]

Init ==
  /\ buyback = [b \in Ids |-> "none"] /\ forRound = [b \in Ids |-> 0]
  /\ linked = {}
  /\ intent = [b \in Ids |-> "none"] /\ refunded = {} /\ events = {}
  /\ standing = "live" /\ registered = TRUE /\ count = 0
  /\ phase = "normal" /\ current = 1 /\ open = TRUE
  /\ checkout = [r \in Requests |-> "idle"] /\ seen = [r \in Requests |-> 0]
  /\ wanted = [r \in Requests |-> 0]
  /\ hook = [h \in Handlers |-> "idle"] /\ event = [h \in Handlers |-> NoEvent]

----------------------------------------------------------------------------
(* Checkout.                                                               *)

Checkout(r, at, b, n) ==
  /\ checkout' = [checkout EXCEPT ![r] = at]
  /\ seen' = [seen EXCEPT ![r] = b]
  /\ wanted' = [wanted EXCEPT ![r] = n]
  /\ UNCHANGED <<player, cup, hooks>>

\* The guards of createBuybackCheckout.  That more than half of the field is still
\* there is up to the others, so that guard may go either way.
CheckoutBegins(r) ==
  /\ checkout[r] = "idle"
  /\ phase = "normal" /\ open
  /\ standing \in {"eliminated", "out"} /\ registered
  /\ Checkout(r, "checked", 0, current)
  /\ UNCHANGED <<rows, provider>>

Pending == {b \in Ids : buyback[b] = "pending"}

\* The newest pending row, by created_at.
Newest == IF Pending = {} THEN 0 ELSE CHOOSE b \in Pending : \A c \in Pending : c <= b

\* Mutant of WorthAsking: only a form still to be paid is looked for.
StillToPay(b) == b \in linked /\ intent[b] = "open"

WorthAsking(b) == b \in linked

CheckoutLooks(r) ==
  /\ checkout[r] = "checked"
  /\ IF WorthAsking(Newest) THEN Checkout(r, "looking", Newest, wanted[r])
                          ELSE Checkout(r, "inserting", 0, wanted[r])
  /\ UNCHANGED <<rows, provider>>

\* The intent of that row is retrieved.  Paid already: the webhook will see to it.
CheckoutRefused(r) ==
  /\ checkout[r] = "looking" /\ intent[seen[r]] = "succeeded"
  /\ Checkout(r, "idle", 0, 0)
  /\ UNCHANGED <<rows, provider>>

\* Still to be paid: the same form again.
CheckoutReuses(r) ==
  /\ checkout[r] = "looking" /\ intent[seen[r]] = "open"
  /\ Checkout(r, "idle", 0, 0)
  /\ UNCHANGED <<rows, provider>>

\* Of no use any more: the row is given up.
CheckoutGivesUp(r) ==
  /\ checkout[r] = "looking" /\ intent[seen[r]] = "canceled"
  /\ buyback' = [buyback EXCEPT ![seen[r]] = IF @ = "pending" THEN "failed" ELSE @]
  /\ Checkout(r, "inserting", 0, wanted[r])
  /\ UNCHANGED <<forRound, linked, provider>>

CheckoutInserts(r) ==
  /\ checkout[r] = "inserting"
  /\ \E b \in Ids :
       /\ buyback[b] = "none" /\ \A c \in 1..(b - 1) : buyback[c] # "none"
       /\ buyback' = [buyback EXCEPT ![b] = "pending"]
       /\ forRound' = [forRound EXCEPT ![b] = wanted[r]]
       /\ Checkout(r, "creating", b, wanted[r])
  /\ UNCHANGED <<linked, provider>>

\* The intent is made and put on the row, and the player gets its form.  One made
\* and not put on the row is as good as none: nobody has its form.
CheckoutCreates(r) ==
  LET b == seen[r] IN
  /\ checkout[r] = "creating"
  /\ intent' = [intent EXCEPT ![b] = "open"]
  /\ linked' = linked \cup {b}
  /\ Checkout(r, "idle", 0, 0)
  /\ UNCHANGED <<buyback, forRound, refunded, events>>

CheckoutDies(r) ==
  /\ checkout[r] # "idle"
  /\ Checkout(r, "idle", 0, 0)
  /\ UNCHANGED <<rows, provider>>
----------------------------------------------------------------------------
(* The player at the payment form, and the provider.                       *)

Provider == UNCHANGED <<rows, player, cup, requests, hooks>>

Pays(b) ==
  /\ b \in linked /\ intent[b] = "open"
  /\ intent' = [intent EXCEPT ![b] = "succeeded"]
  /\ events' = events \cup {[type |-> "succeeded", id |-> b]}
  /\ UNCHANGED refunded /\ Provider

\* The card is declined; the form stays, for another card.
Declined(b) ==
  /\ b \in linked /\ intent[b] = "open"
  /\ events' = events \cup {[type |-> "failed", id |-> b]}
  /\ UNCHANGED <<intent, refunded>> /\ Provider

Canceled(b) ==
  /\ intent[b] = "open"
  /\ intent' = [intent EXCEPT ![b] = "canceled"]
  /\ UNCHANGED <<refunded, events>> /\ Provider

----------------------------------------------------------------------------
(* The webhook.  An answer other than 200 leaves the event to be delivered *)
(* again: such a delivery changes nothing.                                 *)

Hook(h, at, e) ==
  /\ hook' = [hook EXCEPT ![h] = at]
  /\ event' = [event EXCEPT ![h] = e]
  /\ UNCHANGED <<cup, requests, intent, refunded>>

Acknowledge(e) == events' = events \ {e}

\* What was done stays done, also when the answer is lost and the event comes again.
Done(h) ==
  /\ Hook(h, "idle", NoEvent)
  /\ Acknowledge(event[h]) \/ UNCHANGED events

\* Nothing to do: no such row, or it is settled.
HookIgnores(h, e) ==
  /\ hook[h] = "idle" /\ e \in events
  /\ \/ e.id \notin linked \/ buyback[e.id] = "completed"
     \/ e.type = "succeeded" /\ buyback[e.id] = "failed"
  /\ Acknowledge(e)
  /\ UNCHANGED hook /\ UNCHANGED event
  /\ UNCHANGED <<rows, player, cup, requests, intent, refunded>>

\* assertBuybackStillFulfillable.
Fulfillable(b) == phase = "normal" /\ open /\ forRound[b] = current

\* fulfillBuyback, up to its transaction.
HookClears(h, e) ==
  /\ hook[h] = "idle" /\ e \in events /\ e.type = "succeeded"
  /\ e.id \in linked /\ buyback[e.id] = "pending"
  /\ Fulfillable(e.id)
  /\ Hook(h, "cleared", e)
  /\ UNCHANGED <<rows, events, player>>

\* Mutant of StillPending: the status is not read again under the row's lock.
PendingBefore(b) == TRUE

StillPending(b) == buyback[b] = "pending"

\* The transaction.  Somebody who plays elsewhere cannot be made active: the unique
\* index refuses, and the delivery fails.
HookGrants(h) ==
  LET b == event[h].id IN
  /\ hook[h] = "cleared" /\ StillPending(b)
  /\ standing # "away"
  /\ buyback' = [buyback EXCEPT ![b] = "completed"]
  /\ standing' = "live" /\ count' = count + 1
  /\ Done(h)
  /\ UNCHANGED <<forRound, linked, registered>>

\* Somebody else has settled it since.
HookStandsDown(h) ==
  /\ hook[h] = "cleared" /\ buyback[event[h].id] \in {"completed", "failed"}
  /\ Done(h)
  /\ UNCHANGED <<rows, player>>

HookReadsFailure(h, e) ==
  /\ hook[h] = "idle" /\ e \in events /\ e.type = "failed"
  /\ e.id \in linked /\ buyback[e.id] \in {"pending", "failed"}
  /\ Hook(h, "failing", e)
  /\ UNCHANGED <<rows, events, player>>

\* failBuybackFromWebhook looks at the status before, and not here.
HookFails(h) ==
  LET b == event[h].id IN
  /\ hook[h] = "failing"
  /\ buyback' = [buyback EXCEPT ![b] = "failed"]
  /\ Done(h)
  /\ UNCHANGED <<forRound, linked, player>>

\* A crash, or an error: the event comes again.
\* Mutant of Kept: the error is answered with 200.
Dropped(h) == Acknowledge(event[h])

Kept(h) == UNCHANGED events

HookDies(h) ==
  /\ hook[h] # "idle"
  /\ Hook(h, "idle", NoEvent)
  /\ Kept(h)
  /\ UNCHANGED <<rows, player>>

----------------------------------------------------------------------------
(* Administrators.                                                         *)

Admin == UNCHANGED <<forRound, linked, intent, events, cup, requests, hooks>>

\* refund of AdminBuybacksService: at the provider first, which refunds once, ...
RefundPays(b) ==
  /\ b \in linked \ refunded /\ buyback[b] = "completed"
  /\ refunded' = refunded \cup {b}
  /\ UNCHANGED <<buyback, player>> /\ Admin

\* ... then the row, and then the participant, whatever has become of them, if
\* nothing fails in between.  A refund that fails earlier never gets here.
RefundMarks(b) ==
  /\ b \in refunded /\ buyback[b] = "completed"
  /\ buyback' = [buyback EXCEPT ![b] = "failed"]
  /\ standing' \in {standing, IF standing = "away" THEN "away" ELSE "eliminated"}
  /\ UNCHANGED <<refunded, registered, count>> /\ Admin

AdminSets(b, s) ==
  /\ buyback[b] # "none" /\ s \in Edits
  /\ buyback' = [buyback EXCEPT ![b] = s]
  /\ UNCHANGED <<refunded, player>> /\ Admin

----------------------------------------------------------------------------
(* The tournament goes on.                                                 *)

Goes == UNCHANGED <<rows, provider, requests, hooks>>

\* Mutant of PutOut: the player is given the status of the tournament.
Finished == IF standing = "away" THEN "away" ELSE "completed"

PutOut == IF standing = "away" THEN "away" ELSE "out"

LosesMatch ==
  /\ standing = "live" /\ phase # "completed"
  /\ standing' = "eliminated"
  /\ UNCHANGED <<registered, count, cup>> /\ Goes

RoundTimeEnds ==
  /\ open /\ current <= MaxRound
  /\ open' = FALSE
  /\ UNCHANGED <<phase, current, player>> /\ Goes

\* closeRound keeps the player or cuts them, and opens the next round.
RoundCloses ==
  /\ phase = "normal" /\ ~open
  /\ current' = current + 1 /\ open' = TRUE
  /\ standing' \in IF standing = "live" THEN {"live", "out"} ELSE {standing}
  /\ UNCHANGED <<phase, registered, count>> /\ Goes

BracketStarts ==
  /\ phase = "normal" /\ ~open
  /\ phase' = "knockout"
  /\ UNCHANGED <<current, open, standing, registered, count>> /\ Goes

\* Completion puts everybody out.
CupEnds ==
  /\ phase # "completed"
  /\ phase' = "completed" /\ open' = FALSE
  /\ standing' = PutOut
  /\ UNCHANGED <<current, registered, count>> /\ Goes

Withdraws ==
  /\ registered
  /\ registered' = FALSE /\ standing' = PutOut
  /\ UNCHANGED <<count, cup>> /\ Goes

\* A place in another tournament is for those who are out of this one.
JoinsElsewhere ==
  /\ standing = "out"
  /\ standing' = "away"
  /\ UNCHANGED <<registered, count, cup>> /\ Goes

----------------------------------------------------------------------------
CheckoutSteps(r) ==
  \/ CheckoutBegins(r) \/ CheckoutLooks(r) \/ CheckoutRefused(r) \/ CheckoutReuses(r)
  \/ CheckoutGivesUp(r) \/ CheckoutInserts(r) \/ CheckoutCreates(r) \/ CheckoutDies(r)

\* What a delivery does when nothing goes wrong.
Delivers(h) ==
  \/ \E e \in events : HookIgnores(h, e) \/ HookClears(h, e) \/ HookReadsFailure(h, e)
  \/ HookGrants(h) \/ HookStandsDown(h) \/ HookFails(h)

Administrator ==
  \E b \in Ids : RefundPays(b) \/ RefundMarks(b) \/ \E s \in Edits : AdminSets(b, s)

Tournament ==
  \/ LosesMatch \/ RoundTimeEnds \/ RoundCloses \/ BracketStarts \/ CupEnds
  \/ Withdraws \/ JoinsElsewhere

Next ==
  \/ \E r \in Requests : CheckoutSteps(r)
  \/ \E b \in Ids : Pays(b) \/ Declined(b) \/ Canceled(b)
  \/ \E h \in Handlers : Delivers(h) \/ HookDies(h)
  \/ Administrator
  \/ Tournament

Spec == Init /\ [][Next]_vars

----------------------------------------------------------------------------
(* Properties.                                                             *)

\* A payment buys one re-entry, whatever is delivered twice and to whom: the lock on
\* the row and the second look at its status in fulfillBuyback are there for this.
OneGrantPerPayment ==
  count <= Cardinality({b \in Ids : intent[b] = "succeeded"})

\* A payment that was taken and is not settled is still to be told: a webhook that
\* cannot grant answers 400, and so the provider comes back with it.
PaymentNotForgotten ==
  \A b \in linked :
    buyback[b] = "pending" /\ intent[b] = "succeeded"
      => [type |-> "succeeded", id |-> b] \in events

\* A player whose payment is not settled yet gets no second form to pay
\* (createBuybackPaymentIntent refuses with "already going through").
NoSecondCharge ==
  [][\A b \in Ids : intent[b] = "none" /\ intent'[b] = "open" =>
       ~ \E c \in linked : buyback[c] = "pending" /\ intent[c] = "succeeded"]_vars

\* The form a player gets again is for the round they ask to come back to: "Buy back
\* into the round that is running now, not the one the player went out in."
FormIsForThisRound ==
  \A r \in Requests :
    checkout[r] = "looking" /\ intent[seen[r]] = "open" => forRound[seen[r]] = wanted[r]

=============================================================================
