-------------------------- MODULE BuybacksProofs --------------------------
(***************************************************************************)
(* What a payment for a re-entry is good for, for any number of checkouts, *)
(* webhook deliveries, rows and rounds.                                    *)
(***************************************************************************)
EXTENDS Buybacks, FiniteSetTheorems, TLAPS

\* What is in a request's or a delivery's hands is a row that is there.
InHand ==
  /\ \A r \in Requests : checkout[r] = "looking" => seen[r] \in linked
  /\ \A r \in Requests : checkout[r] = "creating" =>
       seen[r] \in Ids \ linked /\ buyback[seen[r]] # "none"
  /\ \A r, q \in Requests : checkout[r] = "creating" /\ checkout[q] = "creating" /\ r # q
       => seen[r] # seen[q]
  /\ \A h \in Handlers : hook[h] # "idle" => event[h] \in Events /\ event[h].id \in linked
  /\ \A h \in Handlers : hook[h] = "cleared" => event[h].type = "succeeded"
  /\ \A h \in Handlers : hook[h] = "failing" => event[h].type = "failed"

\* The provider has intents for rows only, and tells of a payment only what is so.
Truthful ==
  /\ \A b \in Ids : intent[b] # "none" <=> b \in linked
  /\ \A b \in linked : buyback[b] # "none"
  /\ \A e \in events : e.type = "succeeded" => intent[e.id] = "succeeded"
  /\ \A h \in Handlers : hook[h] = "cleared" => intent[event[h].id] = "succeeded"

PayInv == TypeOK /\ InHand /\ Truthful

----------------------------------------------------------------------------
(* Types.                                                                  *)

\* The rows and what the provider holds.
MoneyTyped ==
  /\ buyback \in [Ids -> {"none", "pending", "completed", "failed"}]
  /\ forRound \in [Ids -> Nat]
  /\ linked \subseteq Ids
  /\ intent \in [Ids -> {"none", "open", "succeeded", "canceled"}]
  /\ refunded \subseteq Ids
  /\ events \subseteq Events

CheckoutStates == {"idle", "checked", "looking", "inserting", "creating"}

LEMMA CheckoutTyped ==
  ASSUME TypeOK, NEW r \in Requests, NEW at \in CheckoutStates, NEW b \in 0..MaxBuybacks,
         NEW n \in Nat, Checkout(r, at, b, n), MoneyTyped'
  PROVE  TypeOK'
<1>1. /\ checkout' \in [Requests -> CheckoutStates]
      /\ seen' \in [Requests -> 0..MaxBuybacks] /\ wanted' \in [Requests -> Nat]
  BY DEF TypeOK, Checkout, CheckoutStates
<1>2. UNCHANGED <<standing, registered, count, phase, current, open, hook, event>>
  BY DEF Checkout, player, cup, hooks
<1> QED
  BY <1>1, <1>2 DEF TypeOK, MoneyTyped, CheckoutStates

\* A checkout that ends or that only reads.
LEMMA CheckoutReads ==
  ASSUME TypeOK, NEW r \in Requests, NEW at \in CheckoutStates, NEW b \in 0..MaxBuybacks,
         NEW n \in Nat, Checkout(r, at, b, n), UNCHANGED <<rows, provider>>
  PROVE  TypeOK'
<1>1. MoneyTyped'
  BY DEF TypeOK, MoneyTyped, rows, provider
<1> QED
  BY <1>1, CheckoutTyped

LEMMA HookTyped ==
  ASSUME TypeOK, NEW h \in Handlers, NEW at \in {"idle", "cleared", "failing"},
         NEW e \in Events \cup {NoEvent}, Hook(h, at, e), MoneyTyped',
         standing' \in {"live", "eliminated", "out", "away"}, registered' \in BOOLEAN, count' \in Nat
  PROVE  TypeOK'
<1>1. /\ hook' \in [Handlers -> {"idle", "cleared", "failing"}]
      /\ event' \in [Handlers -> Events \cup {NoEvent}]
  BY DEF TypeOK, Hook
<1>2. UNCHANGED <<phase, current, open, checkout, seen, wanted>>
  BY DEF Hook, cup, requests
<1> QED
  BY <1>1, <1>2 DEF TypeOK, MoneyTyped

LEMMA InitPayInv == Init => PayInv
BY BuybacksAssumption DEF Init, PayInv, TypeOK, InHand, Truthful, Events, Ids

LEMMA CheckoutKeepsTypes ==
  ASSUME PayInv, NEW r \in Requests, CheckoutSteps(r)
  PROVE  TypeOK'
<1> USE BuybacksAssumption
<1>1. TypeOK /\ MoneyTyped /\ wanted[r] \in Nat /\ current \in Nat
  BY DEF PayInv, TypeOK, MoneyTyped
<1>2. 0 \in 0..MaxBuybacks /\ 0 \in Nat
  OBVIOUS
<1>3. {"idle", "checked", "looking", "inserting", "creating"} \subseteq CheckoutStates
  BY DEF CheckoutStates
<1>4. CASE CheckoutBegins(r)
  BY <1>1, <1>2, <1>3, <1>4, CheckoutReads DEF CheckoutBegins
<1>5. CASE CheckoutLooks(r)
  <2>1. WorthAsking(Newest) => Newest \in 0..MaxBuybacks
    BY <1>1 DEF MoneyTyped, WorthAsking, Ids
  <2> QED
    BY <1>1, <1>2, <1>3, <1>5, <2>1, CheckoutReads DEF CheckoutLooks
<1>6. CASE CheckoutRefused(r) \/ CheckoutReuses(r) \/ CheckoutDies(r)
  BY <1>1, <1>2, <1>3, <1>6, CheckoutReads DEF CheckoutRefused, CheckoutReuses, CheckoutDies
<1>7. CASE CheckoutGivesUp(r)
  <2>1. MoneyTyped'
    BY <1>1, <1>7 DEF MoneyTyped, CheckoutGivesUp, provider
  <2>2. Checkout(r, "inserting", 0, wanted[r])
    BY <1>7 DEF CheckoutGivesUp
  <2> QED
    BY <1>1, <1>2, <1>3, <2>1, <2>2, CheckoutTyped
<1>8. CASE CheckoutInserts(r)
  <2>1. PICK b \in Ids : /\ buyback' = [buyback EXCEPT ![b] = "pending"]
                         /\ forRound' = [forRound EXCEPT ![b] = wanted[r]]
                         /\ Checkout(r, "creating", b, wanted[r])
    BY <1>8 DEF CheckoutInserts
  <2>2. MoneyTyped'
    BY <1>1, <1>8, <2>1 DEF MoneyTyped, CheckoutInserts, provider
  <2>3. b \in 0..MaxBuybacks
    BY DEF Ids
  <2> QED
    BY <1>1, <1>3, <2>1, <2>2, <2>3, CheckoutTyped
<1>9. CASE CheckoutCreates(r)
  <2>1. seen[r] \in Ids
    BY <1>9 DEF PayInv, InHand, CheckoutCreates
  <2>2. MoneyTyped'
    BY <1>1, <1>9, <2>1 DEF MoneyTyped, CheckoutCreates
  <2>3. Checkout(r, "idle", 0, 0)
    BY <1>9 DEF CheckoutCreates
  <2> QED
    BY <1>1, <1>2, <1>3, <2>2, <2>3, CheckoutTyped
<1> QED
  BY <1>4, <1>5, <1>6, <1>7, <1>8, <1>9 DEF CheckoutSteps

LEMMA HookKeepsTypes ==
  ASSUME PayInv, NEW h \in Handlers, Delivers(h) \/ HookDies(h)
  PROVE  TypeOK'
<1>1. /\ TypeOK /\ MoneyTyped /\ count \in Nat /\ count + 1 \in Nat
      /\ standing \in {"live", "eliminated", "out", "away"} /\ registered \in BOOLEAN
  BY DEF PayInv, TypeOK, MoneyTyped
<1>2. NoEvent \in Events \cup {NoEvent} /\ events \subseteq Events \cup {NoEvent}
  BY <1>1 DEF MoneyTyped
<1>3. hook[h] # "idle" => event[h].id \in Ids
  BY DEF PayInv, TypeOK, InHand
<1>4. ASSUME NEW e \in events, HookIgnores(h, e) PROVE TypeOK'
  BY <1>1, <1>4 DEF TypeOK, HookIgnores, Acknowledge, rows, player, cup, requests
<1>5. ASSUME NEW e \in events, HookClears(h, e) \/ HookReadsFailure(h, e) PROVE TypeOK'
  <2>1. MoneyTyped' /\ UNCHANGED <<standing, registered, count>>
    BY <1>1, <1>5 DEF MoneyTyped, HookClears, HookReadsFailure, Hook, rows, player
  <2>2. Hook(h, "cleared", e) \/ Hook(h, "failing", e)
    BY <1>5 DEF HookClears, HookReadsFailure
  <2> QED
    BY <1>1, <1>2, <2>1, <2>2, HookTyped
<1>6. CASE HookGrants(h) \/ HookStandsDown(h) \/ HookFails(h) \/ HookDies(h)
  <2>1. Hook(h, "idle", NoEvent) /\ hook[h] # "idle" /\ events' \subseteq events
    BY <1>6 DEF HookGrants, HookStandsDown, HookFails, HookDies, Done, Kept, Acknowledge
  <2>2. /\ buyback' \in [Ids -> {"none", "pending", "completed", "failed"}]
        /\ UNCHANGED <<forRound, linked>>
    BY <1>1, <1>3, <1>6, <2>1 DEF MoneyTyped, HookGrants, HookStandsDown, HookFails, HookDies, rows
  <2>3. MoneyTyped'
    BY <1>1, <2>1, <2>2 DEF MoneyTyped, Hook
  <2>4. /\ standing' \in {"live", "eliminated", "out", "away"}
        /\ registered' \in BOOLEAN /\ count' \in Nat
    BY <1>1, <1>6 DEF HookGrants, HookStandsDown, HookFails, HookDies, player
  <2> QED
    BY <1>1, <1>2, <2>1, <2>3, <2>4, HookTyped
<1> QED
  BY <1>4, <1>5, <1>6 DEF Delivers

LEMMA RestKeepsTypes ==
  ASSUME PayInv, Administrator \/ Tournament
                 \/ \E b \in Ids : Pays(b) \/ Declined(b) \/ Canceled(b)
  PROVE  TypeOK'
<1> USE BuybacksAssumption
<1>1. TypeOK
  BY DEF PayInv
<1>2. ASSUME NEW b \in Ids, Pays(b) \/ Declined(b) \/ Canceled(b) PROVE TypeOK'
  <2>1. [type |-> "succeeded", id |-> b] \in Events /\ [type |-> "failed", id |-> b] \in Events
    BY DEF Events
  <2> QED
    BY <1>1, <1>2, <2>1 DEF TypeOK, Pays, Declined, Canceled, Provider, rows, player, cup, requests, hooks
<1>3. ASSUME NEW b \in Ids, RefundPays(b) PROVE TypeOK'
  BY <1>1, <1>3 DEF TypeOK, RefundPays, Admin, player, cup, requests, hooks
<1>4. ASSUME NEW b \in Ids, RefundMarks(b) PROVE TypeOK'
  BY <1>1, <1>4 DEF TypeOK, RefundMarks, Admin, cup, requests, hooks
<1>5. ASSUME NEW b \in Ids, NEW s \in Edits, AdminSets(b, s) PROVE TypeOK'
  BY <1>1, <1>5 DEF TypeOK, AdminSets, Admin, player, cup, requests, hooks
<1>6. CASE LosesMatch
  BY <1>1, <1>6 DEF TypeOK, LosesMatch, Goes, rows, provider, cup, requests, hooks
<1>7. CASE RoundTimeEnds
  BY <1>1, <1>7 DEF TypeOK, RoundTimeEnds, Goes, rows, provider, player, requests, hooks
<1>8. CASE RoundCloses
  BY <1>1, <1>8 DEF TypeOK, RoundCloses, Goes, rows, provider, requests, hooks
<1>9. CASE BracketStarts
  BY <1>1, <1>9 DEF TypeOK, BracketStarts, Goes, rows, provider, requests, hooks
<1>10. CASE CupEnds
  BY <1>1, <1>10 DEF TypeOK, CupEnds, PutOut, Goes, rows, provider, requests, hooks
<1>11. CASE Withdraws
  BY <1>1, <1>11 DEF TypeOK, Withdraws, PutOut, Goes, rows, provider, cup, requests, hooks
<1>12. CASE JoinsElsewhere
  BY <1>1, <1>12 DEF TypeOK, JoinsElsewhere, Goes, rows, provider, cup, requests, hooks
<1> QED
  BY <1>2, <1>3, <1>4, <1>5, <1>6, <1>7, <1>8, <1>9, <1>10, <1>11, <1>12 DEF Administrator, Tournament

----------------------------------------------------------------------------
(* What is in hand, and what the provider tells.                           *)

\* Rows are never deleted, an intent put on a row stays there, and each row has the
\* intent that was made for it.
RowsStay ==
  /\ linked \subseteq linked'
  /\ \A b \in Ids : buyback[b] # "none" => buyback'[b] # "none"

LEMMA CheckoutKeepsHands ==
  ASSUME PayInv, TypeOK', NEW r \in Requests, CheckoutSteps(r)
  PROVE  InHand' /\ Truthful'
<1>1. /\ checkout \in [Requests -> CheckoutStates] /\ seen \in [Requests -> 0..MaxBuybacks]
      /\ buyback \in [Ids -> {"none", "pending", "completed", "failed"}]
      /\ intent \in [Ids -> {"none", "open", "succeeded", "canceled"}]
      /\ linked \subseteq Ids /\ events \subseteq Events
  BY DEF PayInv, TypeOK, CheckoutStates
<1>2. InHand /\ Truthful
  BY DEF PayInv
<1>3. UNCHANGED <<hook, event>>
  BY DEF CheckoutSteps, CheckoutBegins, CheckoutLooks, CheckoutRefused, CheckoutReuses,
         CheckoutGivesUp, CheckoutInserts, CheckoutCreates, CheckoutDies, Checkout, hooks
<1>4. ASSUME NEW at \in {"idle", "checked", "inserting"}, NEW b \in 0..MaxBuybacks, NEW n,
             Checkout(r, at, b, n), UNCHANGED <<linked, intent, events>>, RowsStay
      PROVE  InHand' /\ Truthful'
  <2>1. \A q \in Requests : /\ checkout'[q] \in {"looking", "creating"} =>
                                 checkout'[q] = checkout[q] /\ seen'[q] = seen[q] /\ q # r
    BY <1>1, <1>4 DEF Checkout
  <2>2. InHand'
    BY <1>2, <1>3, <1>4, <2>1 DEF InHand, RowsStay
  <2>3. Truthful'
    BY <1>1, <1>2, <1>3, <1>4 DEF Truthful, RowsStay
  <2> QED
    BY <2>2, <2>3
<1>5. UNCHANGED <<rows, provider>> => UNCHANGED <<linked, intent, events, buyback>> /\ RowsStay
  BY DEF rows, provider, RowsStay
<1>6. 0 \in 0..MaxBuybacks
  BY BuybacksAssumption
<1>7. CASE CheckoutBegins(r) \/ CheckoutRefused(r) \/ CheckoutReuses(r) \/ CheckoutDies(r)
  BY <1>4, <1>5, <1>6, <1>7 DEF CheckoutBegins, CheckoutRefused, CheckoutReuses, CheckoutDies
<1>8. CASE CheckoutLooks(r)
  <2>1. CASE ~WorthAsking(Newest)
    BY <1>4, <1>5, <1>6, <1>8, <2>1 DEF CheckoutLooks
  <2>2. CASE WorthAsking(Newest)
    <3>1. Checkout(r, "looking", Newest, wanted[r]) /\ UNCHANGED <<linked, intent, events, buyback>>
      BY <1>5, <1>8, <2>2 DEF CheckoutLooks
    <3>2. checkout'[r] = "looking" /\ seen'[r] \in linked
      BY <1>1, <2>2, <3>1 DEF Checkout, WorthAsking
    <3>3. \A q \in Requests \ {r} : checkout'[q] = checkout[q] /\ seen'[q] = seen[q]
      BY <1>1, <3>1 DEF Checkout
    <3>4. InHand'
      BY <1>2, <1>3, <3>1, <3>2, <3>3 DEF InHand
    <3>5. Truthful'
      BY <1>2, <1>3, <3>1 DEF Truthful
    <3> QED
      BY <3>4, <3>5
  <2> QED
    BY <2>1, <2>2
<1>9. CASE CheckoutGivesUp(r)
  <2>1. RowsStay /\ UNCHANGED <<linked, intent, events>> /\ Checkout(r, "inserting", 0, wanted[r])
    BY <1>1, <1>9 DEF CheckoutGivesUp, RowsStay, provider
  <2> QED
    BY <1>4, <1>6, <2>1
<1>10. CASE CheckoutInserts(r)
  <2>1. PICK b \in Ids : /\ buyback[b] = "none"
                         /\ buyback' = [buyback EXCEPT ![b] = "pending"]
                         /\ Checkout(r, "creating", b, wanted[r])
    BY <1>10 DEF CheckoutInserts
  <2>2. RowsStay /\ UNCHANGED <<linked, intent, events>>
    BY <1>1, <1>10, <2>1 DEF CheckoutInserts, RowsStay, provider
  <2>3. checkout'[r] = "creating" /\ seen'[r] = b /\ b \in Ids \ linked /\ buyback'[b] = "pending"
    BY <1>1, <1>2, <2>1 DEF Checkout, Truthful
  <2>4. \A q \in Requests \ {r} : checkout'[q] = checkout[q] /\ seen'[q] = seen[q]
    BY <1>1, <2>1 DEF Checkout
  <2>5. \A q \in Requests \ {r} : checkout[q] = "creating" => seen[q] # b
    BY <1>2, <2>1 DEF InHand
  <2>6. InHand'
    BY <1>2, <1>3, <2>2, <2>3, <2>4, <2>5 DEF InHand, RowsStay
  <2>7. Truthful'
    BY <1>1, <1>2, <1>3, <2>2 DEF Truthful, RowsStay
  <2> QED
    BY <2>6, <2>7
<1>11. CASE CheckoutCreates(r)
  <2>1. /\ checkout[r] = "creating" /\ seen[r] \in Ids \ linked /\ buyback[seen[r]] # "none"
        /\ intent' = [intent EXCEPT ![seen[r]] = "open"] /\ linked' = linked \cup {seen[r]}
        /\ UNCHANGED <<buyback, events>> /\ Checkout(r, "idle", 0, 0)
    BY <1>2, <1>11 DEF CheckoutCreates, InHand
  <2>2. \A q \in Requests : checkout'[q] \in {"looking", "creating"} =>
                              checkout'[q] = checkout[q] /\ seen'[q] = seen[q] /\ q # r
    BY <1>1, <2>1 DEF Checkout
  <2>3. InHand'
    BY <1>2, <1>3, <2>1, <2>2 DEF InHand
  <2>4. /\ intent[seen[r]] = "none" /\ intent'[seen[r]] = "open"
        /\ \A b \in Ids \ {seen[r]} : intent'[b] = intent[b]
    BY <1>1, <1>2, <2>1 DEF Truthful
  <2>5. Truthful'
    BY <1>1, <1>2, <1>3, <2>1, <2>4 DEF Truthful, InHand, Events
  <2> QED
    BY <2>3, <2>5
<1> QED
  BY <1>7, <1>8, <1>9, <1>10, <1>11 DEF CheckoutSteps

LEMMA HookKeepsHands ==
  ASSUME PayInv, TypeOK', NEW h \in Handlers, Delivers(h) \/ HookDies(h)
  PROVE  InHand' /\ Truthful'
<1>1. /\ hook \in [Handlers -> {"idle", "cleared", "failing"}]
      /\ event \in [Handlers -> Events \cup {NoEvent}]
      /\ buyback \in [Ids -> {"none", "pending", "completed", "failed"}]
      /\ linked \subseteq Ids /\ events \subseteq Events
  BY DEF PayInv, TypeOK
<1>2. InHand /\ Truthful
  BY DEF PayInv
<1>3. UNCHANGED <<checkout, seen, linked, intent>> /\ events' \subseteq events
  BY DEF Delivers, HookIgnores, HookClears, HookReadsFailure, HookGrants, HookStandsDown, HookFails,
         HookDies, Done, Kept, Acknowledge, Hook, rows, requests
<1>4. RowsStay
  <2>1. hook[h] # "idle" => event[h].id \in Ids
    BY <1>1, <1>2 DEF InHand
  <2>2. \/ UNCHANGED buyback
        \/ hook[h] # "idle" /\ \E s \in {"completed", "failed"} : buyback' = [buyback EXCEPT ![event[h].id] = s]
    BY DEF Delivers, HookIgnores, HookClears, HookReadsFailure, HookGrants, HookStandsDown, HookFails,
           HookDies, rows
  <2> QED
    BY <1>1, <1>3, <2>1, <2>2 DEF RowsStay
<1>5. /\ \A g \in Handlers \ {h} : hook'[g] = hook[g] /\ event'[g] = event[g]
      /\ \/ hook'[h] = "idle"
         \/ event'[h] \in events /\ event'[h].id \in linked
            /\ \/ hook'[h] = "cleared" /\ event'[h].type = "succeeded"
               \/ hook'[h] = "failing" /\ event'[h].type = "failed"
  <2>1. ASSUME NEW e \in events, HookIgnores(h, e)
        PROVE  UNCHANGED <<hook, event>> /\ hook[h] = "idle"
    BY <2>1 DEF HookIgnores
  <2>2. ASSUME NEW e \in events, HookClears(h, e)
        PROVE  Hook(h, "cleared", e) /\ e.id \in linked /\ e.type = "succeeded"
    BY <2>2 DEF HookClears
  <2>3. ASSUME NEW e \in events, HookReadsFailure(h, e)
        PROVE  Hook(h, "failing", e) /\ e.id \in linked /\ e.type = "failed"
    BY <2>3 DEF HookReadsFailure
  <2>4. HookGrants(h) \/ HookStandsDown(h) \/ HookFails(h) \/ HookDies(h) => Hook(h, "idle", NoEvent)
    BY DEF HookGrants, HookStandsDown, HookFails, HookDies, Done
  <2> QED
    BY <1>1, <2>1, <2>2, <2>3, <2>4 DEF Delivers, Hook
<1>6. InHand'
  BY <1>1, <1>2, <1>3, <1>4, <1>5 DEF InHand, RowsStay
<1>7. Truthful'
  BY <1>1, <1>2, <1>3, <1>4, <1>5 DEF Truthful, RowsStay
<1> QED
  BY <1>6, <1>7

LEMMA RestKeepsHands ==
  ASSUME PayInv, TypeOK', Administrator \/ Tournament
                 \/ \E b \in Ids : Pays(b) \/ Declined(b) \/ Canceled(b)
  PROVE  InHand' /\ Truthful'
<1>1. /\ buyback \in [Ids -> {"none", "pending", "completed", "failed"}]
      /\ intent \in [Ids -> {"none", "open", "succeeded", "canceled"}]
      /\ linked \subseteq Ids /\ events \subseteq Events
  BY DEF PayInv, TypeOK
<1>2. InHand /\ Truthful
  BY DEF PayInv
<1>3. UNCHANGED <<checkout, seen, hook, event, linked>>
  BY DEF Administrator, Tournament, RefundPays, RefundMarks, AdminSets, Admin, LosesMatch,
         RoundTimeEnds, RoundCloses, BracketStarts, CupEnds, Withdraws, JoinsElsewhere, Goes,
         Pays, Declined, Canceled, Provider, rows, requests, hooks
<1>4. CASE Administrator \/ Tournament
  <2>1. UNCHANGED <<intent, events>>
    BY <1>4 DEF Administrator, Tournament, RefundPays, RefundMarks, AdminSets, Admin, LosesMatch,
         RoundTimeEnds, RoundCloses, BracketStarts, CupEnds, Withdraws, JoinsElsewhere, Goes, provider
  <2>2. RowsStay
    <3>1. \/ UNCHANGED buyback
          \/ \E b \in Ids, s \in {"pending", "failed"} : buyback' = [buyback EXCEPT ![b] = s]
      BY <1>4, BuybacksAssumption DEF Administrator, Tournament, RefundPays, RefundMarks, AdminSets,
         LosesMatch, RoundTimeEnds, RoundCloses, BracketStarts, CupEnds, Withdraws, JoinsElsewhere,
         Goes, rows
    <3> QED
      BY <1>1, <1>3, <3>1 DEF RowsStay
  <2> QED
    BY <1>1, <1>2, <1>3, <2>1, <2>2 DEF InHand, Truthful, RowsStay
<1>5. ASSUME NEW b \in Ids, Pays(b) \/ Declined(b) \/ Canceled(b) PROVE InHand' /\ Truthful'
  <2>1. UNCHANGED buyback
    BY <1>5 DEF Pays, Declined, Canceled, Provider, rows
  <2>2. InHand'
    BY <1>2, <1>3, <2>1 DEF InHand
  <2>3. /\ \A c \in Ids : intent[c] # "open" => intent'[c] = intent[c]
        /\ \A c \in Ids : intent'[c] # "none" <=> intent[c] # "none"
        /\ \A e \in events' : e \in events \/ e.type # "succeeded" \/ intent'[e.id] = "succeeded"
    BY <1>1, <1>5 DEF Pays, Declined, Canceled
  <2>4. Truthful'
    BY <1>1, <1>2, <1>3, <2>1, <2>3 DEF Truthful, InHand, Events
  <2> QED
    BY <2>2, <2>4
<1> QED
  BY <1>4, <1>5

\* Every step keeps the invariant.
LEMMA NextPayInv == PayInv /\ [Next]_vars => PayInv'
<1> SUFFICES ASSUME PayInv, [Next]_vars PROVE PayInv'
  OBVIOUS
<1>1. CASE UNCHANGED vars
  BY <1>1 DEF PayInv, TypeOK, InHand, Truthful, vars, rows, provider, player, cup, requests, hooks
<1>2. ASSUME NEW r \in Requests, CheckoutSteps(r) PROVE PayInv'
  BY <1>2, CheckoutKeepsTypes, CheckoutKeepsHands DEF PayInv
<1>3. ASSUME NEW h \in Handlers, Delivers(h) \/ HookDies(h) PROVE PayInv'
  BY <1>3, HookKeepsTypes, HookKeepsHands DEF PayInv
<1>4. CASE Administrator \/ Tournament \/ \E b \in Ids : Pays(b) \/ Declined(b) \/ Canceled(b)
  BY <1>4, RestKeepsTypes, RestKeepsHands DEF PayInv
<1> QED
  BY <1>1, <1>2, <1>3, <1>4 DEF Next

\* Rows, intents, events, checkouts and deliveries stay what they are meant to be,
\* through every delivery, refund and edit of an administrator's.
THEOREM BuybackTyped == Spec => []TypeOK
<1>1. PayInv => TypeOK
  BY DEF PayInv
<1> QED
  BY <1>1, InitPayInv, NextPayInv, PTL DEF Spec

----------------------------------------------------------------------------
(* One re-entry for one payment.                                           *)

\* No row is set back to pending by hand: whoever does it asks for the payment that
\* settled the row to be used again.
NoneReopened == "pending" \notin Edits

\* Then only a new row becomes pending, and a payment is never undone.
LEMMA RowsAndPayments ==
  ASSUME PayInv, NoneReopened, [Next]_vars
  PROVE  /\ \A b \in Ids : buyback'[b] = "pending" => buyback[b] \in {"none", "pending"}
         /\ \A b \in Ids : intent[b] = "succeeded" => intent'[b] = "succeeded"
<1>1. /\ buyback \in [Ids -> {"none", "pending", "completed", "failed"}]
      /\ intent \in [Ids -> {"none", "open", "succeeded", "canceled"}]
  BY DEF PayInv, TypeOK
<1>2. CASE UNCHANGED vars
  BY <1>1, <1>2 DEF vars, rows, provider
<1>3. ASSUME NEW r \in Requests, CheckoutSteps(r)
      PROVE  /\ \A b \in Ids : buyback'[b] = "pending" => buyback[b] \in {"none", "pending"}
             /\ \A b \in Ids : intent[b] = "succeeded" => intent'[b] = "succeeded"
  <2>1. CASE CheckoutCreates(r)
    <3>1. seen[r] \in Ids /\ intent[seen[r]] = "none"
      BY <2>1 DEF PayInv, InHand, Truthful, CheckoutCreates
    <3> QED
      BY <1>1, <2>1, <3>1 DEF CheckoutCreates
  <2>2. CASE ~CheckoutCreates(r)
    <3>1. UNCHANGED intent
      BY <1>3, <2>2 DEF CheckoutSteps, CheckoutBegins, CheckoutLooks, CheckoutRefused,
         CheckoutReuses, CheckoutGivesUp, CheckoutInserts, CheckoutDies, provider
    <3>2. \/ UNCHANGED buyback
          \/ \E b \in Ids : buyback[b] = "none" /\ buyback' = [buyback EXCEPT ![b] = "pending"]
          \/ buyback' = [buyback EXCEPT ![seen[r]] = IF @ = "pending" THEN "failed" ELSE @]
      BY <1>3, <2>2 DEF CheckoutSteps, CheckoutBegins, CheckoutLooks, CheckoutRefused,
         CheckoutReuses, CheckoutGivesUp, CheckoutInserts, CheckoutDies, rows
    <3> QED
      BY <1>1, <3>1, <3>2
  <2> QED
    BY <2>1, <2>2
<1>4. ASSUME NEW h \in Handlers, Delivers(h) \/ HookDies(h)
      PROVE  /\ UNCHANGED intent
             /\ \/ UNCHANGED buyback
                \/ \E s \in {"completed", "failed"} : buyback' = [buyback EXCEPT ![event[h].id] = s]
  BY <1>4 DEF Delivers, HookIgnores, HookClears, HookReadsFailure, HookGrants, HookStandsDown,
     HookFails, HookDies, Done, Hook, rows
<1>5. ASSUME Administrator \/ Tournament
      PROVE  /\ UNCHANGED intent
             /\ UNCHANGED buyback \/ \E b \in Ids : buyback' = [buyback EXCEPT ![b] = "failed"]
  BY <1>5, BuybacksAssumption DEF NoneReopened, Administrator, Tournament, RefundPays, RefundMarks,
     AdminSets, Admin, LosesMatch, RoundTimeEnds, RoundCloses, BracketStarts, CupEnds, Withdraws,
     JoinsElsewhere, Goes, rows, provider
<1>6. ASSUME NEW b \in Ids, Pays(b) \/ Declined(b) \/ Canceled(b)
      PROVE  /\ UNCHANGED buyback
             /\ \A c \in Ids : intent[c] = "succeeded" => intent'[c] = "succeeded"
  BY <1>1, <1>6 DEF Pays, Declined, Canceled, Provider, rows
<1> QED
  BY <1>1, <1>2, <1>3, <1>4, <1>5, <1>6 DEF Next

\* The rows whose payment was taken and that wait for nothing any more.
Settled == {b \in Ids : intent[b] = "succeeded" /\ buyback[b] # "pending"}

LEMMA SettledFinite ==
  /\ Settled \subseteq Ids /\ IsFiniteSet(Settled)
  /\ Settled' \subseteq Ids /\ IsFiniteSet(Settled')
<1>1. IsFiniteSet(Ids)
  BY FS_Interval, BuybacksAssumption DEF Ids
<1>2. Settled \subseteq Ids /\ Settled' \subseteq Ids
  BY DEF Settled
<1> QED
  BY <1>1, <1>2, FS_Subset

GrantInv == PayInv /\ count <= Cardinality(Settled)

LEMMA InitGrantInv == Init => GrantInv
<1> SUFFICES ASSUME Init PROVE GrantInv
  OBVIOUS
<1>1. count = 0 /\ PayInv
  BY InitPayInv DEF Init
<1>2. Cardinality(Settled) \in Nat
  BY SettledFinite, FS_CardinalityType
<1> QED
  BY <1>1, <1>2 DEF GrantInv

LEMMA NextGrantInv ==
  ASSUME NoneReopened, GrantInv, [Next]_vars
  PROVE  GrantInv'
<1>1. PayInv /\ PayInv' /\ count \in Nat
  BY NextPayInv DEF GrantInv, PayInv, TypeOK
<1>2. Settled \subseteq Settled'
  <2>1. \A b \in Settled : buyback[b] # "none"
    BY <1>1 DEF PayInv, Truthful, Settled
  <2> QED
    BY <1>1, <2>1, RowsAndPayments DEF Settled
<1>3. Cardinality(Settled) <= Cardinality(Settled') /\ Cardinality(Settled) \in Nat /\ Cardinality(Settled') \in Nat
  BY <1>2, SettledFinite, FS_Subset, FS_CardinalityType
<1>4. CASE UNCHANGED count
  BY <1>1, <1>3, <1>4 DEF GrantInv
<1>5. CASE \E h \in Handlers : HookGrants(h)
  <2>1. PICK h \in Handlers : HookGrants(h)
    BY <1>5
  <2> DEFINE b == event[h].id
  <2>2. /\ hook[h] = "cleared" /\ buyback[b] = "pending" /\ intent' = intent
        /\ buyback' = [buyback EXCEPT ![b] = "completed"] /\ count' = count + 1
    BY <2>1 DEF HookGrants, StillPending, Done, Hook
  <2>3. b \in Ids /\ intent[b] = "succeeded"
    BY <1>1, <2>2 DEF PayInv, TypeOK, InHand, Truthful
  <2>4. b \notin Settled /\ b \in Settled'
    BY <1>1, <2>2, <2>3 DEF PayInv, TypeOK, Settled
  <2>5. /\ Cardinality(Settled \cup {b}) = Cardinality(Settled) + 1
        /\ Settled \cup {b} \subseteq Settled'
    BY <1>2, <2>4, SettledFinite, FS_AddElement
  <2>6. Cardinality(Settled \cup {b}) <= Cardinality(Settled')
    BY <2>5, SettledFinite, FS_Subset
  <2> QED
    BY <1>1, <1>3, <2>2, <2>5, <2>6 DEF GrantInv
<1>6. UNCHANGED count \/ \E h \in Handlers : HookGrants(h)
  BY DEF Next, vars, player, CheckoutSteps, CheckoutBegins, CheckoutLooks, CheckoutRefused,
     CheckoutReuses, CheckoutGivesUp, CheckoutInserts, CheckoutCreates, CheckoutDies, Checkout,
     Pays, Declined, Canceled, Provider, Delivers, HookIgnores, HookClears, HookReadsFailure,
     HookStandsDown, HookFails, HookDies, Administrator, RefundPays, RefundMarks, AdminSets,
     Tournament, LosesMatch, RoundTimeEnds, RoundCloses, BracketStarts, CupEnds, Withdraws,
     JoinsElsewhere
<1> QED
  BY <1>4, <1>5, <1>6

\* A payment buys one re-entry and no second one, however often its event is delivered
\* and to however many handlers at once, as long as nobody reopens a settled row.
THEOREM GrantsArePaid ==
  ASSUME NoneReopened
  PROVE  Spec => []OneGrantPerPayment
<1>1. GrantInv /\ [Next]_vars => GrantInv'
  BY NextGrantInv
<1>2. GrantInv => OneGrantPerPayment
  <2> SUFFICES ASSUME GrantInv PROVE OneGrantPerPayment
    OBVIOUS
  <2> DEFINE Paid == {b \in Ids : intent[b] = "succeeded"}
  <2>0. IsFiniteSet(Ids)
    BY FS_Interval, BuybacksAssumption DEF Ids
  <2>1. Settled \subseteq Paid /\ IsFiniteSet(Paid)
    <3>1. Settled \subseteq Paid /\ Paid \subseteq Ids
      BY DEF Settled
    <3> QED
      BY <2>0, <3>1, FS_Subset
  <2>2. Cardinality(Settled) <= Cardinality(Paid) /\ Cardinality(Settled) \in Nat /\ Cardinality(Paid) \in Nat
    BY <2>1, SettledFinite, FS_Subset, FS_CardinalityType
  <2> QED
    BY <2>2 DEF GrantInv, PayInv, TypeOK, OneGrantPerPayment
<1> QED
  BY <1>1, <1>2, InitGrantInv, PTL DEF Spec

----------------------------------------------------------------------------
(* No payment is forgotten.                                                *)

\* An event is acknowledged only by who has nothing to do or has done it.
LEMMA TellingEnds ==
  ASSUME PayInv, Next, NEW b \in linked, [type |-> "succeeded", id |-> b] \in events \ events'
  PROVE  buyback[b] \in {"completed", "failed"} \/ buyback'[b] = "completed"
<1> DEFINE Succeeded == [type |-> "succeeded", id |-> b]
<1>1. /\ buyback \in [Ids -> {"none", "pending", "completed", "failed"}] /\ b \in Ids
      /\ \A h \in Handlers : hook[h] = "failing" => event[h] # Succeeded
  BY DEF PayInv, TypeOK, InHand
<1>2. PICK h \in Handlers : Delivers(h) \/ HookDies(h)
  BY DEF Next, CheckoutSteps, CheckoutBegins, CheckoutLooks, CheckoutRefused,
     CheckoutReuses, CheckoutGivesUp, CheckoutInserts, CheckoutCreates, CheckoutDies, provider,
     Pays, Declined, Canceled, Administrator, RefundPays, RefundMarks, AdminSets, Admin,
     Tournament, LosesMatch, RoundTimeEnds, RoundCloses, BracketStarts, CupEnds, Withdraws,
     JoinsElsewhere, Goes
<1>3. CASE \E e \in events : HookIgnores(h, e)
  <2>1. PICK e \in events : HookIgnores(h, e)
    BY <1>3
  <2>2. e = Succeeded
    BY <2>1 DEF HookIgnores, Acknowledge
  <2> QED
    BY <2>1, <2>2 DEF HookIgnores
<1>4. CASE HookGrants(h)
  <2>1. event[h] = Succeeded
    BY <1>4 DEF HookGrants, Done, Acknowledge
  <2> QED
    BY <1>1, <1>4, <2>1 DEF HookGrants
<1>5. CASE HookStandsDown(h)
  BY <1>5 DEF HookStandsDown, Done, Acknowledge
<1>6. CASE HookFails(h)
  BY <1>1, <1>6 DEF HookFails, Done, Acknowledge
<1>7. CASE (\E e \in events : HookClears(h, e) \/ HookReadsFailure(h, e)) \/ HookDies(h)
  BY <1>7 DEF HookClears, HookReadsFailure, HookDies, Kept
<1> QED
  BY <1>2, <1>3, <1>4, <1>5, <1>6, <1>7 DEF Delivers

LEMMA NextNotForgotten ==
  ASSUME NoneReopened, PayInv, PaymentNotForgotten, [Next]_vars
  PROVE  PaymentNotForgotten'
<1> SUFFICES ASSUME NEW b \in linked', buyback'[b] = "pending", intent'[b] = "succeeded"
             PROVE  [type |-> "succeeded", id |-> b] \in events'
  BY DEF PaymentNotForgotten
<1>1. /\ buyback \in [Ids -> {"none", "pending", "completed", "failed"}]
      /\ intent \in [Ids -> {"none", "open", "succeeded", "canceled"}] /\ b \in Ids
  BY NextPayInv DEF PayInv, TypeOK
<1>2. CASE intent[b] = "succeeded"
  <2>1. b \in linked /\ buyback[b] # "none"
    BY <1>1, <1>2 DEF PayInv, Truthful
  <2>2. buyback[b] = "pending"
    BY <1>1, <2>1, RowsAndPayments
  <2>3. [type |-> "succeeded", id |-> b] \in events
    BY <1>2, <2>1, <2>2 DEF PaymentNotForgotten
  <2>4. CASE Next
    BY <2>1, <2>2, <2>3, <2>4, TellingEnds
  <2>5. CASE UNCHANGED vars
    BY <2>3, <2>5 DEF vars, provider
  <2> QED
    BY <2>4, <2>5
<1>3. CASE intent[b] # "succeeded"
  <2>1. \A r \in Requests : CheckoutCreates(r) => seen[r] \in Ids
    BY DEF PayInv, InHand, CheckoutCreates
  <2>2. \E c \in Ids : Pays(c) /\ intent' = [intent EXCEPT ![c] = "succeeded"]
    BY <1>1, <1>3, <2>1 DEF Next, vars, provider, CheckoutSteps, CheckoutBegins, CheckoutLooks, CheckoutRefused,
     CheckoutReuses, CheckoutGivesUp, CheckoutInserts, CheckoutCreates, CheckoutDies,
     Pays, Declined, Canceled, Delivers, HookIgnores, HookClears, HookReadsFailure, HookGrants,
     HookStandsDown, HookFails, HookDies, Done, Hook, Administrator, RefundPays, RefundMarks,
     AdminSets, Admin, Tournament, LosesMatch, RoundTimeEnds, RoundCloses, BracketStarts, CupEnds,
     Withdraws, JoinsElsewhere, Goes
  <2>3. Pays(b)
    BY <1>1, <1>3, <2>2
  <2> QED
    BY <2>3 DEF Pays
<1> QED
  BY <1>2, <1>3

\* A payment that was taken and not settled is always still to be told, because a
\* delivery that grants nothing is not acknowledged; a row that nobody reopens.
THEOREM PaymentsAreTold ==
  ASSUME NoneReopened
  PROVE  Spec => []PaymentNotForgotten
<1>1. Init => PaymentNotForgotten
  BY DEF Init, PaymentNotForgotten
<1>2. PayInv /\ PaymentNotForgotten /\ [Next]_vars => PaymentNotForgotten'
  BY NextNotForgotten
<1> QED
  BY <1>1, <1>2, InitPayInv, NextPayInv, PTL DEF Spec

----------------------------------------------------------------------------
(* No second form to pay.                                                  *)

\* The player asks for one form at a time.
OneCheckout == \A r, q \in Requests : r = q

\* A form that can be paid, or was, and that the webhook will settle.
Live(b) == b \in linked /\ buyback[b] = "pending" /\ intent[b] \in {"open", "succeeded"}

\* Nothing was inserted after row b.
Last(b) == \A c \in Ids : b < c => buyback[c] = "none"

\* A live form is on the newest row, where the next checkout looks for it: a row is
\* inserted only when no form is live.
OneForm ==
  /\ \A b \in Ids : buyback[b] = "none" => Last(b)
  /\ \A b \in Ids : Live(b) => Last(b)
  /\ \A r \in Requests :
       /\ checkout[r] = "looking" => \A b \in Ids : Live(b) => b = seen[r]
       /\ checkout[r] \in {"inserting", "creating"} => \A b \in Ids : ~ Live(b)
       /\ checkout[r] = "creating" => Last(seen[r])

FormInv == PayInv /\ OneForm

LEMMA InitFormInv == Init => FormInv
BY InitPayInv DEF Init, FormInv, OneForm, Live, Last

\* A form becomes live only when its intent is put on the row.
FormsGoOn ==
  \A b \in Ids : Live(b)' => Live(b)

\* A step that makes no form live and inserts no row.
LEMMA FormsGone ==
  ASSUME FormInv, FormsGoOn,
         \A b \in Ids : buyback[b] = "none" <=> buyback'[b] = "none",
         \A r \in Requests : /\ checkout'[r] = "looking" => 
                                  \A b \in Ids : Live(b) => b = seen'[r]
                             /\ checkout'[r] = "inserting" => \A b \in Ids : ~ Live(b)'
                             /\ checkout'[r] = "creating" =>
                                  checkout[r] = "creating" /\ seen'[r] = seen[r]
  PROVE  OneForm'
<1>1. \A b \in Ids : Last(b) => Last(b)'
  BY DEF Last
<1>2. \A r \in Requests : checkout[r] = "creating" => seen[r] \in Ids
  BY DEF FormInv, PayInv, InHand
<1> QED
  BY <1>1, <1>2 DEF FormInv, OneForm, FormsGoOn

LEMMA CheckoutKeepsForm ==
  ASSUME OneCheckout, FormInv, NEW r \in Requests, CheckoutSteps(r)
  PROVE  OneForm'
<1>1. /\ checkout \in [Requests -> CheckoutStates] /\ seen \in [Requests -> 0..MaxBuybacks]
      /\ buyback \in [Ids -> {"none", "pending", "completed", "failed"}]
      /\ intent \in [Ids -> {"none", "open", "succeeded", "canceled"}]
      /\ linked \subseteq Ids
  BY DEF FormInv, PayInv, TypeOK, CheckoutStates
<1>2. InHand /\ Truthful /\ OneForm /\ Requests = {r}
  BY DEF FormInv, PayInv, OneCheckout
<1>3. \A at, b, n : Checkout(r, at, b, n) => checkout'[r] = at /\ seen'[r] = b
  BY <1>1 DEF Checkout
<1>4. UNCHANGED <<rows, provider>> =>
        FormsGoOn /\ \A b \in Ids : buyback[b] = "none" <=> buyback'[b] = "none"
  BY DEF rows, provider, FormsGoOn, Live
<1>5. CASE CheckoutBegins(r) \/ CheckoutRefused(r) \/ CheckoutReuses(r) \/ CheckoutDies(r)
  <2>1. checkout'[r] \in {"idle", "checked"} /\ UNCHANGED <<rows, provider>>
    BY <1>3, <1>5 DEF CheckoutBegins, CheckoutRefused, CheckoutReuses, CheckoutDies
  <2> QED
    BY <1>2, <1>4, <2>1, FormsGone
<1>6. CASE CheckoutLooks(r)
  <2>1. \A b \in Ids : Live(b) => Newest = b
    <3> SUFFICES ASSUME NEW b \in Ids, Live(b) PROVE Newest = b
      OBVIOUS
    <3>1. b \in Pending /\ \A c \in Pending : c <= b
      BY <1>2 DEF OneForm, Last, Live, Pending, Ids
    <3>2. \A d \in Pending : (\A c \in Pending : c <= d) => d = b
      BY <3>1 DEF Pending, Ids
    <3> QED
      BY <3>1, <3>2 DEF Newest
  <2>2. UNCHANGED <<rows, provider>> /\ UNCHANGED <<buyback, intent, linked>>
    BY <1>6 DEF CheckoutLooks, rows, provider
  <2>3. CASE WorthAsking(Newest)
    <3>1. checkout'[r] = "looking" /\ seen'[r] = Newest
      BY <1>3, <1>6, <2>3 DEF CheckoutLooks
    <3> QED
      BY <1>2, <1>4, <2>1, <2>2, <3>1, FormsGone
  <2>4. CASE ~ WorthAsking(Newest)
    <3>1. checkout'[r] = "inserting"
      BY <1>3, <1>6, <2>4 DEF CheckoutLooks
    <3>2. \A b \in Ids : ~ Live(b) /\ ~ Live(b)'
      BY <2>1, <2>2, <2>4 DEF Live, WorthAsking
    <3> QED
      BY <1>2, <1>4, <2>2, <3>1, <3>2, FormsGone
  <2> QED
    BY <2>3, <2>4
<1>7. CASE CheckoutGivesUp(r)
  <2>1. /\ checkout[r] = "looking" /\ intent[seen[r]] = "canceled" /\ checkout'[r] = "inserting"
        /\ buyback' = [buyback EXCEPT ![seen[r]] = IF @ = "pending" THEN "failed" ELSE @]
        /\ UNCHANGED <<intent, linked>>
    BY <1>3, <1>7 DEF CheckoutGivesUp, provider
  <2>2. \A b \in Ids : ~ Live(b)
    BY <1>2, <2>1 DEF OneForm, Live
  <2>3. \A b \in Ids : ~ Live(b)' /\ (buyback[b] = "none" <=> buyback'[b] = "none")
    BY <1>1, <2>1, <2>2 DEF Live
  <2> QED
    BY <1>2, <2>1, <2>3, FormsGone DEF FormsGoOn
<1>8. CASE CheckoutInserts(r)
  <2>1. PICK b \in Ids : /\ buyback[b] = "none" /\ \A c \in 1..(b - 1) : buyback[c] # "none"
                         /\ buyback' = [buyback EXCEPT ![b] = "pending"]
                         /\ Checkout(r, "creating", b, wanted[r])
    BY <1>8 DEF CheckoutInserts
  <2>2. checkout[r] = "inserting" /\ UNCHANGED <<intent, linked>> /\ b \notin linked
    BY <1>2, <1>8, <2>1 DEF CheckoutInserts, provider, Truthful
  <2>3. \A c \in Ids : ~ Live(c)'
    <3>1. \A c \in Ids : ~ Live(c)
      BY <1>2, <2>2 DEF OneForm
    <3> QED
      BY <1>1, <2>1, <2>2, <3>1 DEF Live
  <2>4. Last(b) /\ Last(b)'
    BY <1>1, <1>2, <2>1 DEF OneForm, Last, Ids
  <2>5. \A c \in Ids : buyback'[c] = "none" => Last(c)'
    BY <1>1, <1>2, <2>1, <2>4 DEF OneForm, Last, Ids
  <2>6. checkout'[r] = "creating" /\ seen'[r] = b
    BY <1>3, <2>1
  <2> QED
    BY <1>2, <2>3, <2>4, <2>5, <2>6 DEF OneForm
<1>9. CASE CheckoutCreates(r)
  <2>1. /\ checkout[r] = "creating" /\ seen[r] \in Ids \ linked /\ buyback[seen[r]] # "none"
        /\ linked' = linked \cup {seen[r]} /\ intent' = [intent EXCEPT ![seen[r]] = "open"]
        /\ UNCHANGED buyback /\ checkout'[r] = "idle"
    BY <1>2, <1>3, <1>9 DEF CheckoutCreates, InHand
  <2>2. \A b \in Ids : ~ Live(b)
    BY <1>2, <2>1 DEF OneForm
  <2>3. \A b \in Ids : Live(b)' => b = seen[r]
    BY <1>1, <2>1, <2>2 DEF Live
  <2>4. \A b \in Ids : Last(b) => Last(b)'
    BY <2>1 DEF Last
  <2>5. \A b \in Ids : b = seen[r] => Last(b)'
    BY <1>2, <2>1, <2>4 DEF OneForm
  <2> QED
    BY <1>2, <2>1, <2>3, <2>4, <2>5 DEF OneForm
<1> QED
  BY <1>5, <1>6, <1>7, <1>8, <1>9 DEF CheckoutSteps

\* Whoever else changes a row changes one that is there.
LEMMA OnlyCheckoutsInsert ==
  ASSUME PayInv, \/ \E h \in Handlers : Delivers(h) \/ HookDies(h)
                 \/ Administrator \/ Tournament
                 \/ \E b \in Ids : Pays(b) \/ Declined(b) \/ Canceled(b)
  PROVE  /\ \A b \in Ids : buyback[b] = "none" <=> buyback'[b] = "none"
         /\ UNCHANGED <<checkout, seen, linked>>
<1>1. buyback \in [Ids -> {"none", "pending", "completed", "failed"}] /\ linked \subseteq Ids
  BY DEF PayInv, TypeOK
<1>2. UNCHANGED <<checkout, seen, linked>>
  BY DEF Delivers, HookIgnores, HookClears, HookReadsFailure, HookGrants, HookStandsDown, HookFails,
     HookDies, Done, Hook, Administrator, RefundPays, RefundMarks, AdminSets, Admin, Tournament,
     LosesMatch, RoundTimeEnds, RoundCloses, BracketStarts, CupEnds, Withdraws, JoinsElsewhere,
     Goes, Pays, Declined, Canceled, Provider, rows, requests
<1>3. \/ UNCHANGED buyback
      \/ \E b \in Ids, s \in {"pending", "completed", "failed"} :
           buyback[b] # "none" /\ buyback' = [buyback EXCEPT ![b] = s]
  <2>1. ASSUME NEW h \in Handlers, Delivers(h) \/ HookDies(h)
        PROVE  \/ UNCHANGED buyback
               \/ \E b \in Ids, s \in {"pending", "completed", "failed"} :
                    buyback[b] # "none" /\ buyback' = [buyback EXCEPT ![b] = s]
    <3>1. hook[h] # "idle" => event[h].id \in Ids /\ buyback[event[h].id] # "none"
      BY <1>1 DEF PayInv, InHand, Truthful
    <3>2. \/ UNCHANGED buyback
          \/ hook[h] # "idle" /\ \E s \in {"completed", "failed"} : buyback' = [buyback EXCEPT ![event[h].id] = s]
      BY <2>1 DEF Delivers, HookIgnores, HookClears, HookReadsFailure, HookGrants, HookStandsDown,
         HookFails, HookDies, rows
    <3> QED
      BY <3>1, <3>2
  <2>2. ASSUME Administrator
        PROVE  \/ UNCHANGED buyback
               \/ \E b \in Ids, s \in {"pending", "completed", "failed"} :
                    buyback[b] # "none" /\ buyback' = [buyback EXCEPT ![b] = s]
    BY <2>2, BuybacksAssumption DEF Administrator, RefundPays, RefundMarks, AdminSets
  <2>3. ASSUME Tournament \/ \E b \in Ids : Pays(b) \/ Declined(b) \/ Canceled(b)
        PROVE  UNCHANGED buyback
    BY <2>3 DEF Tournament, LosesMatch, RoundTimeEnds, RoundCloses, BracketStarts, CupEnds, Withdraws,
       JoinsElsewhere, Goes, Pays, Declined, Canceled, Provider, rows
  <2> QED
    BY <2>1, <2>2, <2>3
<1> QED
  BY <1>1, <1>2, <1>3

LEMMA NextFormInv ==
  ASSUME NoneReopened, OneCheckout, FormInv, [Next]_vars
  PROVE  FormInv'
<1>1. PayInv /\ PayInv'
  BY NextPayInv DEF FormInv
<1>2. CASE UNCHANGED vars
  BY <1>1, <1>2 DEF FormInv, OneForm, Live, Last, vars, rows, provider, requests
<1>3. CASE \E r \in Requests : CheckoutSteps(r)
  BY <1>1, <1>3, CheckoutKeepsForm DEF FormInv
<1>4. CASE \/ \E h \in Handlers : Delivers(h) \/ HookDies(h)
           \/ Administrator \/ Tournament
           \/ \E b \in Ids : Pays(b) \/ Declined(b) \/ Canceled(b)
  <2>1. /\ \A b \in Ids : buyback[b] = "none" <=> buyback'[b] = "none"
        /\ UNCHANGED <<checkout, seen, linked>>
    BY <1>1, <1>4, OnlyCheckoutsInsert
  <2>2. \A b \in Ids : intent'[b] \in {"open", "succeeded"} => intent[b] \in {"open", "succeeded"}
    <3>1. intent \in [Ids -> {"none", "open", "succeeded", "canceled"}]
      BY <1>1 DEF PayInv, TypeOK
    <3> QED
      BY <1>4, <3>1 DEF Delivers, HookIgnores, HookClears, HookReadsFailure, HookGrants, HookStandsDown,
         HookFails, HookDies, Done, Hook, Administrator, RefundPays, RefundMarks, AdminSets, Admin,
         Tournament, LosesMatch, RoundTimeEnds, RoundCloses, BracketStarts, CupEnds, Withdraws,
         JoinsElsewhere, Goes, provider, Pays, Declined, Canceled
  <2>3. FormsGoOn
    <3>1. \A b \in linked : buyback[b] # "none" /\ b \in Ids
      BY <1>1 DEF PayInv, TypeOK, Truthful
    <3> QED
      BY <1>1, <2>1, <2>2, <3>1, RowsAndPayments DEF FormsGoOn, Live
  <2>4. OneForm
    BY DEF FormInv
  <2>5. \A r \in Requests : /\ checkout'[r] = "looking" => \A b \in Ids : Live(b) => b = seen'[r]
                            /\ checkout'[r] = "inserting" => \A b \in Ids : ~ Live(b)'
                            /\ checkout'[r] = "creating" => checkout[r] = "creating" /\ seen'[r] = seen[r]
    BY <2>1, <2>3, <2>4 DEF OneForm, FormsGoOn
  <2> QED
    BY <1>1, <2>1, <2>3, <2>5, FormsGone DEF FormInv
<1> QED
  BY <1>2, <1>3, <1>4 DEF Next

\* A player whose payment is taken and not settled gets no second form, if the player
\* asks for one form at a time and nobody reopens a settled row.
THEOREM NoSecondForm ==
  ASSUME NoneReopened, OneCheckout
  PROVE  Spec => NoSecondCharge
<1>1. FormInv /\ [Next]_vars => FormInv'
  BY NextFormInv
<1>2. FormInv /\ [Next]_vars =>
        [\A b \in Ids : intent[b] = "none" /\ intent'[b] = "open" =>
           ~ \E c \in linked : buyback[c] = "pending" /\ intent[c] = "succeeded"]_vars
  <2> SUFFICES ASSUME FormInv, Next, NEW b \in Ids, intent[b] = "none", intent'[b] = "open",
                      NEW c \in linked, buyback[c] = "pending", intent[c] = "succeeded"
               PROVE  FALSE
    OBVIOUS
  <2>1. \E r \in Requests : CheckoutCreates(r)
    <3>1. intent \in [Ids -> {"none", "open", "succeeded", "canceled"}]
      BY DEF FormInv, PayInv, TypeOK
    <3> QED
      BY <3>1 DEF Next, CheckoutSteps, CheckoutBegins, CheckoutLooks, CheckoutRefused, CheckoutReuses,
         CheckoutGivesUp, CheckoutInserts, CheckoutDies, provider, Pays, Declined, Canceled,
         Delivers, HookIgnores, HookClears, HookReadsFailure, HookGrants, HookStandsDown, HookFails,
         HookDies, Done, Hook, Administrator, RefundPays, RefundMarks, AdminSets, Admin,
         Tournament, LosesMatch, RoundTimeEnds, RoundCloses, BracketStarts, CupEnds, Withdraws,
         JoinsElsewhere, Goes
  <2>2. c \in Ids /\ Live(c)
    BY DEF FormInv, PayInv, TypeOK, Live
  <2> QED
    BY <2>1, <2>2 DEF CheckoutCreates, FormInv, OneForm
<1> QED
  BY <1>1, <1>2, InitFormInv, PTL DEF Spec, NoSecondCharge
=============================================================================
