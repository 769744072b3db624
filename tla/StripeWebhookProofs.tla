------------------------ MODULE StripeWebhookProofs ------------------------
(***************************************************************************)
(* The webhook, proved for any accounts, sessions, invoices and charges,   *)
(* any number of deliveries at a time, each event delivered as often as    *)
(* Stripe likes, and any number of failures between two statements.        *)
(*                                                                         *)
(* What carries the proof is what a delivery has established when it       *)
(* reaches each statement of its handler, which no other delivery can      *)
(* undo: payments stay paid, rows stay booked, and a customer, once        *)
(* linked, belongs to the account that will be looked up by it.            *)
(***************************************************************************)
EXTENDS StripeWebhook, CreditAccountProofs

Checkouts == {"checkout", "asyncPaid"}

\* Stripe never attached a customer of another account to a session, and a
\* session that was heard of had started.
CustomersAreTheirs ==
  /\ \A s \in Sessions : customer[s] \in Sessions => Buyer[customer[s]] = Buyer[s]
  /\ \A e \in emitted : e.type \in Checkouts => customer[e.of] # NotStarted

\* What delivery d of event e knows at the statement it executes next.
ChecksOut(d, e) ==
  /\ at[d] \in {"link", "subscribe"} => e.type \in Checkouts
  /\ at[d] = "subscribe" => e.of \in Plans
  /\ at[d] = "find" => e.type \notin Checkouts
  /\ at[d] = "grant" =>
       \/ e.type \in Checkouts /\ e.of \in Packs /\ e.as = "paid"
       \/ e.type = "invoice" /\ found[d] = Owner[e.of]
  /\ at[d] = "mirror" => e.type = "subscription" /\ found[d] \in Users
  /\ at[d] \in {"balance", "clear", "explain"} =>
       e.type = "refund" /\ found[d] = Owner[e.of]
  /\ at[d] = "record" /\ e.of \in Packs /\ Creditable(e.of) /\ e.as = "paid" =>
       Booked(ledger, "purchase", e.of)

HandlerOK(d) == IF event[d] = Idle THEN at[d] = "seen" ELSE ChecksOut(d, event[d])

\* A row that grants credit is for a payment, its payer and its amount.
RowIsPaidFor(u, row) ==
  row.reason \in GrantReasons =>
    Paid(row.reference) /\ u = Owner[row.reference] /\ row.delta = SkuCredits[row.reference]

RowsArePaidFor == \A u \in Users : \A i \in DOMAIN ledger[u] : RowIsPaidFor(u, ledger[u][i])

WebhookInv ==
  /\ TypeOK
  /\ LinksAreTheirs
  /\ CustomersAreTheirs
  /\ \A d \in Deliveries : HandlerOK(d)
  /\ RowsArePaidFor
  /\ OncePerReference
  /\ ProcessedIsCredited

-----------------------------------------------------------------------------
(* Events, payments and rows. *)

\* What the fields of an event say of each other.
LEMMA EventKinds ==
  ASSUME NEW e \in Event
  PROVE  /\ e = [type |-> e.type, of |-> e.of, as |-> e.as]
         /\ e.type \in Checkouts \cup {"invoice", "subscription", "refund"}
         /\ e.type \in Checkouts => e.of \in Sessions /\ e.as \in {"paid", "unpaid"}
         /\ e.type = "invoice" => e.of \in Invoices /\ e.as = "paid"
         /\ e.type = "subscription" => e.of \in Plans /\ e.as \in {"active", "canceled"}
         /\ e.type = "refund" => e.of \in Charges /\ e.as \in {"full", "partial"}
  BY DEF Event, Checkouts

\* Every payment has its account, its reason and its amount.
LEMMA Payments ==
  /\ \A r \in Refs : /\ Owner[r] \in Users /\ ReasonOf[r] \in GrantReasons
                      /\ SkuCredits[r] \in Amounts /\ SkuCredits[r] \in Nat /\ SkuCredits[r] > 0
                      /\ r \in References
  /\ \A s \in Packs : s \in Refs /\ s \in Sessions /\ ReasonOf[s] = "purchase" /\ Owner[s] = Buyer[s]
  /\ \A i \in Invoices : /\ i \in Refs /\ i \notin Packs /\ PlanOf[i] \in Plans
                          /\ Owner[i] = Buyer[PlanOf[i]]
  /\ \A c \in Charges : /\ Owner[c] \in Users /\ PaymentOf[c] \in Refs
                         /\ Owner[c] = Owner[PaymentOf[c]] /\ c \in References
  /\ GrantReasons \subseteq Reasons /\ "manual_adjustment" \in Reasons
  /\ \A s \in Sessions : Buyer[s] \in Users
<1>1. \A r \in Refs : /\ Owner[r] \in Users /\ ReasonOf[r] \in GrantReasons
                      /\ SkuCredits[r] \in Amounts /\ r \in References
  BY RowsAssumption, WebhookAssumption DEF References
<1>2. \A a \in Amounts : a \in Nat /\ a > 0
  BY RowsAssumption
<1>3. \A s \in Packs : s \in Refs /\ s \in Sessions /\ ReasonOf[s] = "purchase" /\ Owner[s] = Buyer[s]
  BY WebhookAssumption DEF Sessions
<1>4. \A i \in Invoices : i \in Refs /\ PlanOf[i] \in Plans /\ Owner[i] = Buyer[PlanOf[i]]
  BY WebhookAssumption
<1>5. \A i \in Invoices : ReasonOf[i] # "purchase"
  BY WebhookAssumption
<1>6. \A i \in Invoices : i \notin Packs
  BY <1>3, <1>5
<1>7. \A c \in Charges : /\ Owner[c] \in Users /\ PaymentOf[c] \in Refs
                         /\ Owner[c] = Owner[PaymentOf[c]] /\ c \in References
  BY RowsAssumption, WebhookAssumption DEF References
<1>8. \A s \in Sessions : Buyer[s] \in Users
  BY WebhookAssumption
<1>9. GrantReasons \subseteq Reasons /\ "manual_adjustment" \in Reasons
  BY DEF Reasons
<1>10. QED BY <1>1, <1>2, <1>3, <1>4, <1>6, <1>7, <1>8, <1>9

\* What was paid stays paid.
LEMMA PaidStays ==
  ASSUME emitted \subseteq emitted', NEW r, Paid(r)
  PROVE  Paid(r)'
  BY DEF Paid, Emitted

\* No row is ever taken back or changed.
RowsStay ==
  \A v \in Users : \A i \in DOMAIN ledger[v] :
    i \in DOMAIN ledger'[v] /\ ledger'[v][i] = ledger[v][i]

LEMMA BookedStays ==
  ASSUME RowsStay, NEW reason, NEW reference, Booked(ledger, reason, reference)
  PROVE  Booked(ledger', reason, reference)
  BY DEF RowsStay, Booked

\* One more row, for a payment or for anything but a payment.
LEMMA AppendPaidFor ==
  ASSUME TablesOK, RowsArePaidFor, emitted' = emitted, NEW u \in Users, NEW row \in Row,
         ledger' = [ledger EXCEPT ![u] = Append(ledger[u], row)], RowIsPaidFor(u, row)
  PROVE  /\ RowsStay /\ RowsArePaidFor'
         /\ ledger' \in [Users -> Seq(Row)]
         /\ Booked(ledger', row.reason, row.reference)
<1>1. /\ ledger'[u] = Append(ledger[u], row) /\ ledger[u] \in Seq(Row)
      /\ \A v \in Users \ {u} : ledger'[v] = ledger[v]
  BY DEF TablesOK
<1> DEFINE n == Len(ledger[u])
<1>2. /\ n \in Nat /\ DOMAIN ledger[u] = 1..n /\ DOMAIN ledger'[u] = 1..(n + 1)
      /\ \A j \in 1..n : ledger'[u][j] = ledger[u][j]
      /\ ledger'[u][n + 1] = row /\ ledger'[u] \in Seq(Row)
  BY <1>1, AppendedRow
<1>3. RowsStay
  BY <1>1, <1>2 DEF RowsStay
<1>4. \A v \in Users : \A i \in DOMAIN ledger'[v] :
        \/ i \in DOMAIN ledger[v] /\ ledger'[v][i] = ledger[v][i]
        \/ v = u /\ ledger'[v][i] = row
  BY <1>1, <1>2
<1>5. ASSUME NEW v \in Users, NEW i \in DOMAIN ledger'[v]
      PROVE  RowIsPaidFor(v, ledger'[v][i])
  BY <1>4, <1>5 DEF RowsArePaidFor
<1>6. RowsArePaidFor'
  BY <1>5 DEF RowsArePaidFor, RowIsPaidFor, Paid, Emitted
<1>7. ledger' \in [Users -> Seq(Row)]
  BY <1>1, <1>2 DEF TablesOK
<1>8. Booked(ledger', row.reason, row.reference)
  BY <1>2 DEF Booked
<1>9. QED BY <1>3, <1>6, <1>7, <1>8

\* The same of a movement.
LEMMA MovePaidFor ==
  ASSUME TablesOK, RowsArePaidFor, emitted' = emitted, NEW u \in Users, NEW delta \in Int,
         NEW reason \in Reasons, NEW reference \in References,
         Move(u, delta, reason, reference),
         reason \in GrantReasons =>
           Paid(reference) /\ u = Owner[reference] /\ delta = SkuCredits[reference]
  PROVE  /\ RowsStay /\ RowsArePaidFor' /\ Booked(ledger', reason, reference)
<1> DEFINE row == RowFor(credits[u], delta, reason, reference)
<1>1. row \in Row /\ row.reason = reason /\ row.reference = reference /\ row.delta = delta
  BY MoveAppends DEF RowFor
<1>2. ledger' = [ledger EXCEPT ![u] = Append(ledger[u], row)]
  BY DEF Move
<1> HIDE DEF row
<1>3. RowIsPaidFor(u, row)
  BY <1>1 DEF RowIsPaidFor
<1>4. QED BY <1>1, <1>2, <1>3, AppendPaidFor

\* And of a statement that touches no table.
LEMMA TablesStill ==
  ASSUME WebhookInv, UNCHANGED <<credits, ledger, jobs>>, emitted' = emitted
  PROVE  TablesOK' /\ RowsStay /\ RowsArePaidFor' /\ OncePerReference'
<1>1. TablesOK'
  BY DEF WebhookInv, TypeOK, TablesOK
<1>2. RowsArePaidFor'
  BY DEF WebhookInv, RowsArePaidFor, RowIsPaidFor, Paid, Emitted
<1>3. OncePerReference' /\ RowsStay
  BY DEF WebhookInv, OncePerReference, RowsStay
<1>4. QED BY <1>1, <1>2, <1>3

-----------------------------------------------------------------------------
(* One delivery moves, the others keep what they know. *)

Statements == {"seen", "link", "subscribe", "find", "grant", "mirror",
               "balance", "clear", "explain", "record"}

OnlyMoves(d) ==
  \A x \in Deliveries \ {d} :
    event'[x] = event[x] /\ at'[x] = at[x] /\ found'[x] = found[x]

LEMMA OtherKnows ==
  ASSUME WebhookInv, RowsStay, customer' = customer, NEW d \in Deliveries, OnlyMoves(d),
         NEW x \in Deliveries \ {d}
  PROVE  HandlerOK(x)'
<1>1. HandlerOK(x) /\ event'[x] = event[x] /\ at'[x] = at[x] /\ found'[x] = found[x]
  BY DEF WebhookInv, OnlyMoves
<1>2. Booked(ledger, "purchase", event[x].of) => Booked(ledger', "purchase", event[x].of)
  BY BookedStays
<1>3. QED BY <1>1, <1>2 DEF HandlerOK, ChecksOut, Creditable

\* A step of one delivery keeps the invariant if it leaves the delivery with
\* what its next statement relies on.
LEMMA DeliveryKeeps ==
  ASSUME WebhookInv, NEW d \in Deliveries, customer' = customer, emitted' = emitted,
         TypeOK', LinksAreTheirs', RowsStay, RowsArePaidFor', OncePerReference',
         OnlyMoves(d), HandlerOK(d)',
         \/ processed' = processed
         \/ /\ processed' = processed \cup {event[d]}
            /\ event[d] # Idle /\ at[d] = "record"
  PROVE  WebhookInv'
<1>1. CustomersAreTheirs'
  BY DEF WebhookInv, CustomersAreTheirs
<1>2. \A x \in Deliveries : HandlerOK(x)'
  BY OtherKnows
<1>3. ASSUME NEW e \in processed', e.of \in Packs, Creditable(e.of)', e.as = "paid"
      PROVE  Booked(ledger', "purchase", e.of)
  <2> Creditable(e.of)
    BY <1>3 DEF Creditable
  <2>1. CASE e \in processed
    <3>1. Booked(ledger, "purchase", e.of)
      BY <1>3, <2>1 DEF WebhookInv, ProcessedIsCredited
    <3>2. QED BY <3>1, BookedStays
  <2>2. CASE e = event[d] /\ event[d] # Idle /\ at[d] = "record"
    <3>1. HandlerOK(d)
      BY DEF WebhookInv
    <3>2. Booked(ledger, "purchase", e.of)
      BY <1>3, <2>2, <3>1 DEF HandlerOK, ChecksOut, Creditable
    <3>3. QED BY <3>2, BookedStays
  <2>3. QED BY <1>3, <2>1, <2>2
<1>4. ProcessedIsCredited'
  BY <1>3 DEF ProcessedIsCredited
<1>5. QED BY <1>1, <1>2, <1>4 DEF WebhookInv

\* A delivery that goes to its next statement, having looked somebody up or not.
LEMMA GoesTo ==
  ASSUME TypeOK, NEW d \in Deliveries, NEW statement \in Statements,
         Goto(d, statement), event' = event, UNCHANGED <<customer, emitted, processed, failures>>,
         \/ found' = found
         \/ \E u \in Users : found' = [found EXCEPT ![d] = u],
         TablesOK', linked' \in [Users -> Customers],
         status' \in [Users -> {"active", "canceled", NoStatus}],
         balance' \in [Deliveries -> Nat]
  PROVE  TypeOK' /\ OnlyMoves(d) /\ at'[d] = statement
<1>1. at' \in [Deliveries -> Statements] /\ at'[d] = statement
  BY DEF Goto, TypeOK, Statements
<1>2. found' \in [Deliveries -> Users \cup {Idle}]
  BY DEF TypeOK
<1>3. OnlyMoves(d)
  BY DEF OnlyMoves, Goto, TypeOK
<1>4. TypeOK'
  BY <1>1, <1>2 DEF TypeOK, Statements
<1>5. QED BY <1>1, <1>3, <1>4

\* A delivery that is over.
LEMMA Finishes ==
  ASSUME WebhookInv, NEW d \in Deliveries, Finish(d),
         UNCHANGED <<tables, customer, emitted, linked, status>>, failures' \in 0..MaxFailures,
         \/ processed' = processed
         \/ /\ processed' = processed \cup {event[d]}
            /\ event[d] # Idle /\ at[d] = "record"
  PROVE  WebhookInv'
<1>1. /\ TypeOK /\ UNCHANGED <<credits, ledger, jobs>>
      /\ event' = [event EXCEPT ![d] = Idle] /\ at' = [at EXCEPT ![d] = "seen"]
      /\ found' = [found EXCEPT ![d] = Idle] /\ balance' = [balance EXCEPT ![d] = 0]
  BY DEF WebhookInv, Finish, tables
<1>2. TablesOK' /\ RowsStay /\ RowsArePaidFor' /\ OncePerReference'
  BY <1>1, TablesStill
<1>3. /\ event' \in [Deliveries -> emitted' \cup {Idle}]
      /\ at' \in [Deliveries -> Statements] /\ found' \in [Deliveries -> Users \cup {Idle}]
      /\ balance' \in [Deliveries -> Nat] /\ event'[d] = Idle /\ at'[d] = "seen"
  BY <1>1 DEF TypeOK, Statements
<1>4. processed' \subseteq emitted'
  BY <1>1 DEF TypeOK
<1>5. TypeOK'
  BY <1>1, <1>2, <1>3, <1>4 DEF TypeOK, Statements
<1>6. OnlyMoves(d)
  BY <1>1 DEF OnlyMoves, TypeOK
<1>7. HandlerOK(d)'
  BY <1>3 DEF HandlerOK
<1>8. LinksAreTheirs'
  BY DEF WebhookInv, LinksAreTheirs
<1>9. QED BY <1>2, <1>5, <1>6, <1>7, <1>8, DeliveryKeeps

\* The event of a delivery under way is one Stripe created.
LEMMA Handled ==
  ASSUME WebhookInv, NEW d \in Deliveries, NEW statement, Reaches(d, statement)
  PROVE  /\ event[d] \in emitted /\ event[d] \in Event /\ event[d] # Idle
         /\ at[d] = statement /\ ChecksOut(d, event[d])
  BY DEF WebhookInv, TypeOK, Reaches, HandlerOK

-----------------------------------------------------------------------------
(* The statements of handleEvent. *)

LEMMA CheckSeenKeeps ==
  ASSUME WebhookInv, NEW d \in Deliveries, CheckSeen(d)
  PROVE  WebhookInv'
<1>1. CASE event[d] \in processed
  <2>1. Finish(d) /\ UNCHANGED <<tables, customer, emitted, linked, status, processed, failures>>
    BY <1>1 DEF CheckSeen
  <2>2. failures' \in 0..MaxFailures
    BY <2>1 DEF WebhookInv, TypeOK
  <2>3. QED BY <2>1, <2>2, Finishes
<1>2. CASE event[d] \notin processed
  <2> DEFINE statement == IF event[d].type \in Checkouts THEN "link" ELSE "find"
  <2>1. /\ Goto(d, statement) /\ UNCHANGED <<event, found, balance>>
        /\ UNCHANGED <<credits, ledger, jobs, customer, emitted, linked, status, processed, failures>>
    BY <1>2 DEF CheckSeen, tables, Checkouts
  <2>2. TablesOK' /\ RowsStay /\ RowsArePaidFor' /\ OncePerReference'
    BY <2>1, TablesStill
  <2>3. statement \in Statements
    BY DEF Statements
  <2>4. TypeOK' /\ OnlyMoves(d) /\ at'[d] = statement
    <3> HIDE DEF statement
    <3>1. QED BY <2>1, <2>2, <2>3, GoesTo DEF WebhookInv, TypeOK
  <2>5. HandlerOK(d)'
    BY <2>1, <2>4, Handled DEF CheckSeen, HandlerOK, ChecksOut
  <2>6. LinksAreTheirs'
    BY <2>1 DEF WebhookInv, LinksAreTheirs
  <2>7. QED BY <2>1, <2>2, <2>4, <2>5, <2>6, DeliveryKeeps
<1>3. QED BY <1>1, <1>2

LEMMA LinkCustomerKeeps ==
  ASSUME WebhookInv, NEW d \in Deliveries, LinkCustomer(d)
  PROVE  WebhookInv'
<1> DEFINE e == event[d]
           s == e.of
<1>1. /\ UNCHANGED <<event, found, balance>>
      /\ UNCHANGED <<credits, ledger, jobs, customer, emitted, status, processed, failures>>
      /\ linked' = IF customer[s] \in {NoAccount, NoCustomer} THEN linked
                   ELSE [linked EXCEPT ![Buyer[s]] = customer[s]]
      /\ IF customer[s] = NoAccount \/ e.as = "unpaid" THEN Goto(d, "record")
         ELSE IF s \in Plans THEN Goto(d, "subscribe") ELSE GrantFor(d, s)
  BY DEF LinkCustomer, Link, tables
<1>2. e \in emitted /\ e \in Event /\ e # Idle /\ at[d] = "link" /\ ChecksOut(d, e)
  BY Handled DEF LinkCustomer
<1>3. e.type \in Checkouts /\ s \in Sessions /\ e.as \in {"paid", "unpaid"}
  BY <1>2, EventKinds DEF ChecksOut
<1>4. customer[s] \in Customers \cup {NoAccount} /\ Buyer[s] \in Users
  BY <1>2, <1>3, Payments DEF WebhookInv, TypeOK, CustomersAreTheirs
<1>5. customer[s] \notin {NoAccount, NoCustomer} => Buyer[customer[s]] = Buyer[s]
  BY <1>3, <1>4 DEF WebhookInv, CustomersAreTheirs, Customers
<1>6. linked' \in [Users -> Customers]
  BY <1>1, <1>4 DEF WebhookInv, TypeOK
<1>7. LinksAreTheirs'
  BY <1>1, <1>4, <1>5 DEF WebhookInv, TypeOK, LinksAreTheirs
<1>8. TablesOK' /\ RowsStay /\ RowsArePaidFor' /\ OncePerReference'
  BY <1>1, TablesStill
<1>9. PICK statement \in {"subscribe", "grant", "record"} :
        /\ Goto(d, statement)
        /\ statement = "subscribe" => s \in Plans
        /\ statement = "grant" => s \notin Plans /\ e.as = "paid"
        /\ statement = "record" =>
             e.as # "paid" \/ customer[s] = NoAccount \/ (s \notin Plans /\ s \in Unlisted)
  BY <1>1, <1>3 DEF GrantFor
<1>10. TypeOK' /\ OnlyMoves(d) /\ at'[d] = statement
  BY <1>1, <1>6, <1>8, <1>9, GoesTo DEF WebhookInv, TypeOK, Statements
<1>11. (s \notin Plans => s \in Packs) /\ (s \in Packs => SessionOf(s) = s)
  BY <1>3 DEF Sessions, SessionOf
<1>12. HandlerOK(d)'
  BY <1>1, <1>2, <1>3, <1>9, <1>10, <1>11 DEF HandlerOK, ChecksOut, Creditable
<1>13. QED BY <1>1, <1>7, <1>8, <1>10, <1>12, DeliveryKeeps

LEMMA SetActiveKeeps ==
  ASSUME WebhookInv, NEW d \in Deliveries, SetActive(d)
  PROVE  WebhookInv'
<1> DEFINE e == event[d]
<1>1. /\ Goto(d, "record") /\ UNCHANGED <<event, found, balance>>
      /\ UNCHANGED <<credits, ledger, jobs, customer, emitted, linked, processed, failures>>
      /\ status' = [status EXCEPT ![Buyer[e.of]] = "active"]
  BY DEF SetActive, tables
<1>2. e \in emitted /\ e \in Event /\ e # Idle /\ at[d] = "subscribe" /\ ChecksOut(d, e)
  BY Handled DEF SetActive
<1>3. e.of \notin Packs
  BY <1>2, WebhookAssumption DEF ChecksOut
<1>4. TablesOK' /\ RowsStay /\ RowsArePaidFor' /\ OncePerReference'
  BY <1>1, TablesStill
<1>5. status' \in [Users -> {"active", "canceled", NoStatus}]
  BY <1>1 DEF WebhookInv, TypeOK
<1>6. "record" \in Statements
  BY DEF Statements
<1>7. TypeOK' /\ OnlyMoves(d) /\ at'[d] = "record"
  BY <1>1, <1>4, <1>5, <1>6, GoesTo DEF WebhookInv, TypeOK
<1>8. HandlerOK(d)'
  BY <1>1, <1>2, <1>3, <1>7 DEF HandlerOK, ChecksOut, Creditable
<1>9. LinksAreTheirs'
  BY <1>1 DEF WebhookInv, LinksAreTheirs
<1>10. QED BY <1>1, <1>4, <1>7, <1>8, <1>9, DeliveryKeeps

\* Whoever is linked to the customer of an event is the account it is about.
LEMMA FindsOwner ==
  ASSUME WebhookInv, NEW e \in Event, e.type \in {"invoice", "refund"}, NEW u \in Users,
         linked[u] # NoCustomer, linked[u] = CustomerOf(e)
  PROVE  u = Owner[e.of]
<1> DEFINE s == IF e.type = "invoice" THEN PlanOf[e.of] ELSE SessionOf(PaymentOf[e.of])
<1>1. CustomerOf(e) = customer[s]
  BY DEF CustomerOf
<1>2. CASE e.type = "invoice"
  <2>1. s \in Sessions /\ Owner[e.of] = Buyer[s]
    BY <1>2, EventKinds, Payments DEF Sessions
  <2>2. QED BY <1>1, <2>1 DEF WebhookInv, TypeOK, LinksAreTheirs, CustomersAreTheirs, Customers
<1>3. CASE e.type = "refund"
  <2> DEFINE r == PaymentOf[e.of]
  <2>1. e.of \in Charges /\ r \in Refs /\ Owner[e.of] = Owner[r] /\ s = SessionOf(r)
    BY <1>3, EventKinds, Payments
  <2>2. r \in Packs \/ r \in Invoices
    BY <2>1, WebhookAssumption
  <2>3. s \in Sessions /\ Owner[r] = Buyer[s]
    BY <2>1, <2>2, Payments DEF SessionOf, Sessions
  <2> HIDE DEF s, r
  <2>4. QED
    BY <1>1, <2>1, <2>3 DEF WebhookInv, TypeOK, LinksAreTheirs, CustomersAreTheirs, Customers
<1>4. QED BY <1>2, <1>3

LEMMA FindUserKeeps ==
  ASSUME WebhookInv, NEW d \in Deliveries, FindUser(d)
  PROVE  WebhookInv'
<1> DEFINE e == event[d]
           users == {u \in Users : linked[u] # NoCustomer /\ linked[u] = CustomerOf(e)}
           Chosen == IF e.type = "invoice" THEN GrantFor(d, e.of)
                     ELSE Goto(d, IF e.type = "subscription" THEN "mirror"
                                  ELSE IF e.as = "full" THEN "balance" ELSE "record")
<1>1. /\ UNCHANGED <<event, balance>>
      /\ UNCHANGED <<credits, ledger, jobs, customer, emitted, linked, status, processed, failures>>
      /\ \/ Goto(d, "record") /\ found' = found
         \/ \E u \in users : found' = [found EXCEPT ![d] = u] /\ Chosen
  BY DEF FindUser, tables
<1>2. e \in emitted /\ e \in Event /\ e # Idle /\ at[d] = "find" /\ ChecksOut(d, e)
  BY Handled DEF FindUser
<1>3. e.type \in {"invoice", "subscription", "refund"} /\ ~(e.of \in Packs /\ e.as = "paid")
  BY <1>2, EventKinds, Payments DEF ChecksOut
<1>4. TablesOK' /\ RowsStay /\ RowsArePaidFor' /\ OncePerReference'
  BY <1>1, TablesStill
<1>5. LinksAreTheirs'
  BY <1>1 DEF WebhookInv, LinksAreTheirs
<1>6. CASE Goto(d, "record") /\ found' = found
  <2>1. "record" \in Statements
    BY DEF Statements
  <2>2. TypeOK' /\ OnlyMoves(d) /\ at'[d] = "record"
    BY <1>1, <1>4, <1>6, <2>1, GoesTo DEF WebhookInv, TypeOK
  <2>3. HandlerOK(d)'
    BY <1>1, <1>2, <1>3, <2>2 DEF HandlerOK, ChecksOut, Creditable
  <2>4. QED BY <1>1, <1>4, <1>5, <2>2, <2>3, DeliveryKeeps
<1>7. CASE \E u \in users : found' = [found EXCEPT ![d] = u] /\ Chosen
  <2>1. PICK u \in users : found' = [found EXCEPT ![d] = u] /\ Chosen
    BY <1>7
  <2>2. u \in Users /\ found'[d] = u
    BY <2>1 DEF WebhookInv, TypeOK
  <2>3. e.type \in {"invoice", "refund"} => u = Owner[e.of]
    BY <1>2, <2>1, FindsOwner
  <2> DEFINE Leads(statement) == /\ Goto(d, statement)
                                 /\ statement = "grant" => e.type = "invoice"
                                 /\ statement = "mirror" => e.type = "subscription"
                                 /\ statement = "balance" => e.type = "refund"
  <2>4. PICK statement \in {"grant", "mirror", "balance", "record"} : Leads(statement)
    <3>1. Chosen
      BY <2>1
    <3>2. CASE e.type = "invoice"
      <4>1. Goto(d, "grant") \/ Goto(d, "record")
        BY <3>1, <3>2 DEF GrantFor
      <4>2. Leads("grant") \/ Leads("record")
        BY <3>2, <4>1
      <4> HIDE DEF Leads
      <4>3. QED BY <4>2
    <3>3. CASE e.type = "subscription"
      <4>1. Leads("mirror")
        BY <3>1, <3>3
      <4> HIDE DEF Leads
      <4>2. QED BY <4>1
    <3>4. CASE e.type = "refund"
      <4>1. Goto(d, "balance") \/ Goto(d, "record")
        BY <3>1, <3>4
      <4>2. Leads("balance") \/ Leads("record")
        BY <3>4, <4>1
      <4> HIDE DEF Leads
      <4>3. QED BY <4>2
    <3>5. QED BY <1>3, <3>2, <3>3, <3>4
  <2> HIDE DEF Chosen, users
  <2>5. TypeOK' /\ OnlyMoves(d) /\ at'[d] = statement
    <3>1. statement \in Statements /\ Goto(d, statement)
      BY <2>4 DEF Leads, Statements
    <3>2. QED BY <1>1, <1>4, <2>1, <2>2, <3>1, GoesTo DEF WebhookInv, TypeOK
  <2>6. HandlerOK(d)'
    BY <1>1, <1>2, <1>3, <2>2, <2>3, <2>4, <2>5
       DEF Leads, HandlerOK, ChecksOut, Creditable
  <2>7. QED BY <1>1, <1>4, <1>5, <2>5, <2>6, DeliveryKeeps
<1>8. QED BY <1>1, <1>6, <1>7

LEMMA GrantCreditsKeeps ==
  ASSUME WebhookInv, NEW d \in Deliveries, GrantCredits(d)
  PROVE  /\ WebhookInv'
         /\ \/ credits' = credits /\ ledger' = ledger
            \/ \E r \in Refs : Move(Owner[r], SkuCredits[r], ReasonOf[r], r)
         /\ jobs' = jobs
<1> DEFINE e == event[d]
           r == e.of
           u == IF e.type = "invoice" THEN found[d] ELSE Buyer[r]
<1>1. /\ Goto(d, "record") /\ UNCHANGED <<event, found, balance>>
      /\ UNCHANGED <<jobs, customer, emitted, linked, status, processed, failures>>
      /\ IF Booked(ledger, ReasonOf[r], r)
         THEN UNCHANGED <<credits, ledger>>
         ELSE Move(u, SkuCredits[r], ReasonOf[r], r)
  BY DEF GrantCredits
<1>2. e \in emitted /\ e \in Event /\ e # Idle /\ at[d] = "grant" /\ ChecksOut(d, e)
  BY Handled DEF GrantCredits
<1>3. r \in Refs /\ u = Owner[r] /\ e.as = "paid" /\ e.type \in Checkouts \cup {"invoice"}
  <2>1. CASE e.type \in Checkouts /\ r \in Packs /\ e.as = "paid"
    BY <2>1, Payments DEF Checkouts
  <2>2. CASE e.type = "invoice" /\ found[d] = Owner[r]
    BY <1>2, <2>2, EventKinds, Payments
  <2>3. QED BY <1>2, <2>1, <2>2 DEF ChecksOut
<1>4. Paid(r)
  BY <1>2, <1>3, EventKinds DEF Paid, Emitted, Checkouts
<1>5. /\ u \in Users /\ SkuCredits[r] \in Int /\ ReasonOf[r] \in Reasons /\ r \in References
      /\ (r \in Packs => ReasonOf[r] = "purchase")
  BY <1>3, Payments
<1> HIDE DEF e, r, u
<1>6. /\ TablesOK' /\ RowsStay /\ RowsArePaidFor' /\ OncePerReference'
      /\ Booked(ledger', ReasonOf[r], r)
  <2>1. CASE Booked(ledger, ReasonOf[r], r)
    <3>1. UNCHANGED <<credits, ledger, jobs>>
      BY <1>1, <2>1
    <3>2. QED BY <1>1, <2>1, <3>1, TablesStill
  <2>2. CASE ~Booked(ledger, ReasonOf[r], r)
    <3>1. Move(u, SkuCredits[r], ReasonOf[r], r)
      BY <1>1, <2>2
    <3>2. TablesOK /\ OncePerReference /\ RowsArePaidFor
      BY DEF WebhookInv, TypeOK
    <3>3. OncePerReference'
      BY <1>5, <3>1, <3>2, MoveOnce
    <3>4. TablesOK'
      BY <1>1, <1>5, <3>1, <3>2, MoveAppends DEF TablesOK
    <3>5. QED BY <1>1, <1>3, <1>4, <1>5, <3>1, <3>2, <3>3, <3>4, MovePaidFor
  <2>3. QED BY <2>1, <2>2
<1>7. "record" \in Statements
  BY DEF Statements
<1>8. TypeOK' /\ OnlyMoves(d) /\ at'[d] = "record"
  BY <1>1, <1>6, <1>7, GoesTo DEF WebhookInv, TypeOK
<1>9. r \in Packs => Booked(ledger', "purchase", r)
  BY <1>5, <1>6
<1>10. HandlerOK(d)'
  BY <1>1, <1>2, <1>8, <1>9 DEF HandlerOK, ChecksOut, Creditable, e, r
<1>11. LinksAreTheirs'
  BY <1>1 DEF WebhookInv, LinksAreTheirs
<1>12. WebhookInv'
  BY <1>1, <1>6, <1>8, <1>10, <1>11, DeliveryKeeps
<1>13. QED BY <1>1, <1>3, <1>12

LEMMA MirrorStatusKeeps ==
  ASSUME WebhookInv, NEW d \in Deliveries, MirrorStatus(d)
  PROVE  WebhookInv'
<1> DEFINE e == event[d]
<1>1. /\ Goto(d, "record") /\ UNCHANGED <<event, found, balance>>
      /\ UNCHANGED <<credits, ledger, jobs, customer, emitted, linked, processed, failures>>
      /\ status' = [status EXCEPT ![found[d]] = e.as]
  BY DEF MirrorStatus, tables
<1>2. e \in emitted /\ e \in Event /\ e # Idle /\ at[d] = "mirror" /\ ChecksOut(d, e)
  BY Handled DEF MirrorStatus
<1>3. e.type = "subscription" /\ e.as \in {"active", "canceled"} /\ e.as # "paid"
  BY <1>2, EventKinds DEF ChecksOut
<1>4. TablesOK' /\ RowsStay /\ RowsArePaidFor' /\ OncePerReference'
  BY <1>1, TablesStill
<1>5. status' \in [Users -> {"active", "canceled", NoStatus}]
  BY <1>1, <1>3 DEF WebhookInv, TypeOK
<1>6. "record" \in Statements
  BY DEF Statements
<1>7. TypeOK' /\ OnlyMoves(d) /\ at'[d] = "record"
  BY <1>1, <1>4, <1>5, <1>6, GoesTo DEF WebhookInv, TypeOK
<1>8. HandlerOK(d)'
  BY <1>1, <1>2, <1>3, <1>7 DEF HandlerOK, ChecksOut, Creditable
<1>9. LinksAreTheirs'
  BY <1>1 DEF WebhookInv, LinksAreTheirs
<1>10. QED BY <1>1, <1>4, <1>7, <1>8, <1>9, DeliveryKeeps

\* The three statements of onChargeRefunded know whose charge it was.
LEMMA RefundOf ==
  ASSUME WebhookInv, NEW d \in Deliveries, NEW statement \in {"balance", "clear", "explain"},
         Reaches(d, statement)
  PROVE  /\ event[d] \in emitted /\ event[d] # Idle /\ event[d].type = "refund"
         /\ event[d].as # "paid" /\ event[d].of \in Charges /\ event[d].of \in References
         /\ found[d] = Owner[event[d].of] /\ found[d] \in Users
<1>1. event[d] \in emitted /\ event[d] \in Event /\ event[d] # Idle /\ ChecksOut(d, event[d])
      /\ at[d] = statement
  BY Handled
<1>2. event[d].type = "refund" /\ found[d] = Owner[event[d].of]
  BY <1>1 DEF ChecksOut
<1>3. event[d].of \in Charges /\ event[d].as # "paid"
  BY <1>1, <1>2, EventKinds
<1>4. QED BY <1>1, <1>2, <1>3, Payments

LEMMA ReadBalanceKeeps ==
  ASSUME WebhookInv, NEW d \in Deliveries, ReadBalance(d)
  PROVE  WebhookInv'
<1> DEFINE statement == IF credits[found[d]] <= 0 THEN "record" ELSE "clear"
<1>1. /\ Goto(d, statement) /\ UNCHANGED <<event, found>>
      /\ UNCHANGED <<credits, ledger, jobs, customer, emitted, linked, status, processed, failures>>
      /\ balance' = [balance EXCEPT ![d] = credits[found[d]]]
  BY DEF ReadBalance, tables
<1>2. /\ event[d] \in emitted /\ event[d] # Idle /\ event[d].type = "refund"
      /\ event[d].as # "paid" /\ found[d] = Owner[event[d].of] /\ found[d] \in Users
  BY RefundOf DEF ReadBalance
<1>3. TablesOK' /\ RowsStay /\ RowsArePaidFor' /\ OncePerReference'
  BY <1>1, TablesStill
<1>4. balance' \in [Deliveries -> Nat]
  BY <1>1, <1>2 DEF WebhookInv, TypeOK, TablesOK
<1>5. statement \in {"record", "clear"} /\ statement \in Statements
  BY DEF Statements
<1> HIDE DEF statement
<1>6. TypeOK' /\ OnlyMoves(d) /\ at'[d] = statement
  BY <1>1, <1>3, <1>4, <1>5, GoesTo DEF WebhookInv, TypeOK
<1>7. HandlerOK(d)'
  BY <1>1, <1>2, <1>5, <1>6 DEF HandlerOK, ChecksOut, Creditable
<1>8. LinksAreTheirs'
  BY <1>1 DEF WebhookInv, LinksAreTheirs
<1>9. QED BY <1>1, <1>3, <1>6, <1>7, <1>8, DeliveryKeeps

LEMMA ClearBalanceKeeps ==
  ASSUME WebhookInv, NEW d \in Deliveries, ClearBalance(d)
  PROVE  WebhookInv'
<1>1. /\ Goto(d, "explain") /\ UNCHANGED <<event, found, balance>>
      /\ UNCHANGED <<ledger, jobs, customer, emitted, linked, status, processed, failures>>
      /\ credits' = [credits EXCEPT ![found[d]] = 0]
  BY DEF ClearBalance
<1>2. /\ event[d] \in emitted /\ event[d] # Idle /\ event[d].type = "refund"
      /\ event[d].as # "paid" /\ found[d] = Owner[event[d].of] /\ found[d] \in Users
  BY RefundOf DEF ClearBalance
<1>3. TablesOK'
  BY <1>1, <1>2 DEF WebhookInv, TypeOK, TablesOK
<1>4. RowsArePaidFor' /\ OncePerReference' /\ RowsStay
  BY <1>1 DEF WebhookInv, RowsArePaidFor, RowIsPaidFor, Paid, Emitted, OncePerReference, RowsStay
<1>5. "explain" \in Statements
  BY DEF Statements
<1>6. TypeOK' /\ OnlyMoves(d) /\ at'[d] = "explain"
  BY <1>1, <1>3, <1>5, GoesTo DEF WebhookInv, TypeOK
<1>7. HandlerOK(d)'
  BY <1>1, <1>2, <1>6 DEF HandlerOK, ChecksOut, Creditable
<1>8. LinksAreTheirs'
  BY <1>1 DEF WebhookInv, LinksAreTheirs
<1>9. QED BY <1>1, <1>4, <1>6, <1>7, <1>8, DeliveryKeeps

LEMMA ExplainClearKeeps ==
  ASSUME WebhookInv, NEW d \in Deliveries, ExplainClear(d)
  PROVE  WebhookInv'
<1> DEFINE u == found[d]
           row == [delta |-> -balance[d], after |-> 0,
                   reason |-> "manual_adjustment", reference |-> event[d].of]
<1>1. /\ Goto(d, "record") /\ UNCHANGED <<event, found, balance>>
      /\ UNCHANGED <<credits, jobs, customer, emitted, linked, status, processed, failures>>
      /\ ledger' = IF Booked(ledger, row.reason, row.reference) THEN ledger
                   ELSE [ledger EXCEPT ![u] = Append(ledger[u], row)]
  BY DEF ExplainClear
<1>2. /\ event[d] \in emitted /\ event[d] # Idle /\ event[d].type = "refund"
      /\ event[d].as # "paid" /\ event[d].of \in References /\ u \in Users
  BY RefundOf DEF ExplainClear
<1>3. row \in Row /\ row.reason \notin GrantReasons
  BY <1>2, Payments DEF WebhookInv, TypeOK, Row, GrantReasons
<1> HIDE DEF row, u
<1>4. TablesOK' /\ RowsStay /\ RowsArePaidFor' /\ OncePerReference'
  <2>1. CASE Booked(ledger, row.reason, row.reference)
    <3>1. UNCHANGED <<credits, ledger, jobs>>
      BY <1>1, <2>1
    <3>2. QED BY <1>1, <3>1, TablesStill
  <2>2. CASE ~Booked(ledger, row.reason, row.reference)
    <3>1. ledger' = [ledger EXCEPT ![u] = Append(ledger[u], row)]
      BY <1>1, <2>2
    <3>2. TablesOK /\ OncePerReference /\ RowsArePaidFor
      BY DEF WebhookInv, TypeOK
    <3>3. OncePerReference'
      BY <1>2, <1>3, <2>2, <3>1, <3>2, AppendOnce
    <3>4. RowIsPaidFor(u, row)
      BY <1>3 DEF RowIsPaidFor
    <3>5. RowsStay /\ RowsArePaidFor' /\ ledger' \in [Users -> Seq(Row)]
      BY <1>1, <1>2, <1>3, <3>1, <3>2, <3>4, AppendPaidFor
    <3>6. TablesOK'
      BY <1>1, <3>2, <3>5 DEF TablesOK
    <3>7. QED BY <3>3, <3>5, <3>6
  <2>3. QED BY <2>1, <2>2
<1>5. "record" \in Statements
  BY DEF Statements
<1>6. TypeOK' /\ OnlyMoves(d) /\ at'[d] = "record"
  BY <1>1, <1>4, <1>5, GoesTo DEF WebhookInv, TypeOK
<1>7. HandlerOK(d)'
  BY <1>1, <1>2, <1>6 DEF HandlerOK, ChecksOut, Creditable
<1>8. LinksAreTheirs'
  BY <1>1 DEF WebhookInv, LinksAreTheirs
<1>9. QED BY <1>1, <1>4, <1>6, <1>7, <1>8, DeliveryKeeps

LEMMA EndingKeeps ==
  ASSUME WebhookInv, NEW d \in Deliveries, Record(d) \/ Fail(d)
  PROVE  WebhookInv'
<1>1. CASE Record(d)
  <2>1. event[d] # Idle /\ at[d] = "record" /\ failures' \in 0..MaxFailures
    BY <1>1 DEF Record, Reaches, WebhookInv, TypeOK
  <2>2. QED BY <1>1, <2>1, Finishes DEF Record
<1>2. CASE Fail(d)
  <2>1. failures' \in 0..MaxFailures
    BY <1>2, WebhookAssumption DEF Fail, WebhookInv, TypeOK
  <2>2. QED BY <1>2, <2>1, Finishes DEF Fail
<1>3. QED BY <1>1, <1>2

LEMMA DeliverKeeps ==
  ASSUME WebhookInv, NEW d \in Deliveries, NEW e \in emitted, Deliver(d, e)
  PROVE  WebhookInv'
<1>1. /\ event[d] = Idle /\ event' = [event EXCEPT ![d] = e] /\ UNCHANGED <<at, found, balance>>
      /\ UNCHANGED <<credits, ledger, jobs, customer, emitted, linked, status, processed, failures>>
  BY DEF Deliver, tables
<1>2. at[d] = "seen"
  BY <1>1 DEF WebhookInv, HandlerOK
<1>3. TablesOK' /\ RowsStay /\ RowsArePaidFor' /\ OncePerReference'
  BY <1>1, TablesStill
<1>4. TypeOK'
  BY <1>1, <1>3 DEF WebhookInv, TypeOK
<1>5. OnlyMoves(d)
  BY <1>1 DEF OnlyMoves, WebhookInv, TypeOK
<1>6. HandlerOK(d)'
  BY <1>1, <1>2 DEF HandlerOK, ChecksOut, Creditable
<1>7. LinksAreTheirs'
  BY <1>1 DEF WebhookInv, LinksAreTheirs
<1>8. QED BY <1>1, <1>3, <1>4, <1>5, <1>6, <1>7, DeliveryKeeps

-----------------------------------------------------------------------------
(* Stripe, the browser and the jobs. *)

\* A step that moves no delivery and records no event.
Elsewhere == UNCHANGED <<linked, status, processed, requests, failures>>

LEMMA ElsewhereKeeps ==
  ASSUME WebhookInv, Elsewhere, emitted \subseteq emitted', emitted' \subseteq Event,
         customer' \in [Sessions -> Customers \cup {NotStarted, NoAccount}], CustomersAreTheirs',
         \A s \in Sessions : customer[s] # NotStarted => customer'[s] = customer[s],
         TablesOK', RowsStay, RowsArePaidFor', OncePerReference'
  PROVE  WebhookInv'
<1>1. /\ linked' = linked /\ status' = status /\ processed' = processed /\ event' = event
      /\ at' = at /\ found' = found /\ balance' = balance /\ failures' = failures
  BY DEF Elsewhere, requests
<1>2. TypeOK'
  BY <1>1 DEF WebhookInv, TypeOK
<1>3. LinksAreTheirs'
  BY <1>1 DEF WebhookInv, LinksAreTheirs
<1>20. ASSUME NEW e \in emitted, e.of \in Packs, e.as = "paid", Creditable(e.of)'
      PROVE  Creditable(e.of)
  <2>1. e \in Event /\ e.type \in Checkouts
    BY <1>20, EventKinds, Payments DEF WebhookInv, TypeOK
  <2>2. SessionOf(e.of) = e.of /\ e.of \in Sessions
    BY <1>20 DEF SessionOf, Sessions
  <2>3. QED BY <1>20, <2>1, <2>2 DEF WebhookInv, CustomersAreTheirs, Creditable
<1>4. ASSUME NEW d \in Deliveries PROVE HandlerOK(d)'
  <2>1. HandlerOK(d) /\ event[d] \in emitted \cup {Idle}
    BY DEF WebhookInv, TypeOK
  <2>2. Booked(ledger, "purchase", event[d].of) => Booked(ledger', "purchase", event[d].of)
    BY BookedStays
  <2>3. QED BY <1>1, <1>20, <2>1, <2>2 DEF HandlerOK, ChecksOut
<1>5. ASSUME NEW e \in processed', e.of \in Packs, Creditable(e.of)', e.as = "paid"
      PROVE  Booked(ledger', "purchase", e.of)
  <2>1. Booked(ledger, "purchase", e.of)
    BY <1>1, <1>20, <1>5 DEF WebhookInv, TypeOK, ProcessedIsCredited
  <2>2. QED BY <2>1, BookedStays
<1>6. ProcessedIsCredited'
  BY <1>5 DEF ProcessedIsCredited
<1>7. QED BY <1>2, <1>3, <1>4, <1>6 DEF WebhookInv

LEMMA EmitKeeps ==
  ASSUME WebhookInv, NEW type, NEW of, NEW as, Emit(type, of, as),
         [type |-> type, of |-> of, as |-> as] \in Event,
         type \in Checkouts => customer[of] # NotStarted
  PROVE  WebhookInv'
<1> DEFINE e == [type |-> type, of |-> of, as |-> as]
<1>1. /\ emitted' = emitted \cup {e} /\ Elsewhere
      /\ UNCHANGED <<credits, ledger, jobs>> /\ customer' = customer
  BY DEF Emit, Elsewhere, tables
<1>2. emitted' \subseteq Event /\ emitted \subseteq emitted'
  BY <1>1 DEF WebhookInv, TypeOK
<1>3. e.type = type /\ e.of = of
  OBVIOUS
<1> HIDE DEF e
<1>4. CustomersAreTheirs'
  BY <1>1, <1>3 DEF WebhookInv, CustomersAreTheirs
<1>5. TablesOK' /\ OncePerReference' /\ RowsStay
  BY <1>1 DEF WebhookInv, TypeOK, TablesOK, OncePerReference, RowsStay
<1>6. RowsArePaidFor'
  BY <1>1, <1>2 DEF WebhookInv, RowsArePaidFor, RowIsPaidFor, Paid, Emitted
<1>7. customer' \in [Sessions -> Customers \cup {NotStarted, NoAccount}]
  BY <1>1 DEF WebhookInv, TypeOK
<1>8. QED BY <1>1, <1>2, <1>4, <1>5, <1>6, <1>7, ElsewhereKeeps

LEMMA StartKeeps ==
  ASSUME WebhookInv, NEW s \in Sessions, NEW c \in Customers \cup {NoAccount},
         StartCheckout(s, c) \/ (c = NoAccount /\ StartOutside(s))
  PROVE  WebhookInv'
<1>1. /\ customer[s] = NotStarted /\ customer' = [customer EXCEPT ![s] = c] /\ Elsewhere
      /\ UNCHANGED <<credits, ledger, jobs>> /\ emitted' = emitted
  BY DEF StartCheckout, StartOutside, Elsewhere, tables
<1>2. c \in Sessions => Buyer[c] = Buyer[s]
  <2>1. Buyer[s] \in Users
    BY Payments
  <2>2. linked[Buyer[s]] # NoCustomer => Buyer[linked[Buyer[s]]] = Buyer[s]
    BY <2>1 DEF WebhookInv, LinksAreTheirs
  <2>3. \/ linked[Buyer[s]] # NoCustomer /\ c = linked[Buyer[s]]
        \/ c = s \/ c = NoCustomer \/ c = NoAccount
    BY DEF StartCheckout
  <2>4. NoCustomer \notin Sessions /\ NoAccount \notin Sessions
    BY WebhookAssumption DEF Customers
  <2>5. QED BY <2>2, <2>3, <2>4
<1>3. c # NotStarted
  BY WebhookAssumption DEF NotStarted, NoAccount
<1>4. /\ customer \in [Sessions -> Customers \cup {NotStarted, NoAccount}]
      /\ customer' \in [Sessions -> Customers \cup {NotStarted, NoAccount}]
  BY <1>1 DEF WebhookInv, TypeOK
<1>5. ASSUME NEW t \in Sessions, customer'[t] \in Sessions
      PROVE  Buyer[customer'[t]] = Buyer[t]
  BY <1>1, <1>2, <1>4, <1>5 DEF WebhookInv, CustomersAreTheirs
<1>6. ASSUME NEW e \in emitted, e.type \in Checkouts PROVE customer'[e.of] # NotStarted
  <2>1. e.of \in Sessions /\ customer[e.of] # NotStarted
    BY <1>6, EventKinds DEF WebhookInv, TypeOK, CustomersAreTheirs
  <2>2. QED BY <1>1, <1>3, <1>4, <2>1
<1>7. CustomersAreTheirs'
  BY <1>1, <1>5, <1>6 DEF CustomersAreTheirs
<1>8. TablesOK' /\ RowsStay /\ RowsArePaidFor' /\ OncePerReference'
  BY <1>1, TablesStill
<1>9. /\ emitted \subseteq emitted' /\ emitted' \subseteq Event
      /\ \A t \in Sessions : customer[t] # NotStarted => customer'[t] = customer[t]
  BY <1>1, <1>4 DEF WebhookInv, TypeOK
<1>10. QED BY <1>1, <1>4, <1>7, <1>8, <1>9, ElsewhereKeeps

LEMMA StripeKeeps == WebhookInv /\ Stripe => WebhookInv'
<1> SUFFICES ASSUME WebhookInv, Stripe PROVE WebhookInv'
  OBVIOUS
<1>1. ASSUME NEW s \in Sessions, StartOutside(s) \/ \E c \in Customers : StartCheckout(s, c)
      PROVE  WebhookInv'
  BY <1>1, StartKeeps
<1>2. ASSUME NEW s \in Sessions, NEW as \in {"paid", "unpaid"}, CompleteCheckout(s, as)
      PROVE  WebhookInv'
  <2>1. [type |-> "checkout", of |-> s, as |-> as] \in Event
    BY DEF Event
  <2>2. Emit("checkout", s, as) /\ customer[s] # NotStarted
    BY <1>2 DEF CompleteCheckout
  <2>3. QED BY <2>1, <2>2, EmitKeeps
<1>3. ASSUME NEW s \in Packs, SettlePayment(s) PROVE WebhookInv'
  <2>1. [type |-> "asyncPaid", of |-> s, as |-> "paid"] \in Event
    BY DEF Event, Sessions
  <2>2. Emit("asyncPaid", s, "paid") /\ [type |-> "checkout", of |-> s, as |-> "unpaid"] \in emitted
    BY <1>3 DEF SettlePayment, Emitted
  <2>3. customer[s] # NotStarted
    BY <2>2 DEF WebhookInv, CustomersAreTheirs, Checkouts
  <2>4. QED BY <2>1, <2>2, <2>3, EmitKeeps
<1>4. ASSUME NEW i \in Invoices, PayInvoice(i) PROVE WebhookInv'
  <2>1. [type |-> "invoice", of |-> i, as |-> "paid"] \in Event /\ "invoice" \notin Checkouts
    BY DEF Event, Checkouts
  <2>2. Emit("invoice", i, "paid")
    BY <1>4 DEF PayInvoice
  <2>3. QED BY <2>1, <2>2, EmitKeeps
<1>5. ASSUME NEW p \in Plans, NEW as \in {"active", "canceled"}, ChangeSubscription(p, as)
      PROVE  WebhookInv'
  <2>1. [type |-> "subscription", of |-> p, as |-> as] \in Event /\ "subscription" \notin Checkouts
    BY DEF Event, Checkouts
  <2>2. Emit("subscription", p, as)
    BY <1>5 DEF ChangeSubscription
  <2>3. QED BY <2>1, <2>2, EmitKeeps
<1>6. ASSUME NEW c \in Charges, NEW as \in {"full", "partial"}, RefundCharge(c, as)
      PROVE  WebhookInv'
  <2>1. [type |-> "refund", of |-> c, as |-> as] \in Event /\ "refund" \notin Checkouts
    BY DEF Event, Checkouts
  <2>2. Emit("refund", c, as)
    BY <1>6 DEF RefundCharge
  <2>3. QED BY <2>1, <2>2, EmitKeeps
<1>7. QED BY <1>1, <1>2, <1>3, <1>4, <1>5, <1>6 DEF Stripe

LEMMA SpendKeeps == WebhookInv /\ Spend => WebhookInv'
<1> SUFFICES ASSUME WebhookInv, Spend PROVE WebhookInv'
  OBVIOUS
<1>1. customer' = customer /\ emitted' = emitted /\ Elsewhere
  BY DEF Spend, Elsewhere
<1>2. TypeOK /\ TablesOK /\ RowsArePaidFor /\ OncePerReference
  BY DEF WebhookInv, TypeOK
<1>3. {"job_reserve", "job_refund"} \subseteq Reasons \ GrantReasons
  BY DEF Reasons, GrantReasons
<1>4. ASSUME NEW u \in Users, NEW j \in JobIds, NEW cost \in Costs, Reserve(u, j, cost)
      PROVE  TablesOK' /\ RowsStay /\ RowsArePaidFor' /\ OncePerReference'
  <2>1. cost \in Nat /\ j \in References /\ -cost \in Int
    BY RowsAssumption DEF References
  <2>2. jobs' \in [JobIds -> JobRow \cup {NoJob}]
    BY <1>2, <1>4, <2>1 DEF Reserve, TablesOK, JobRow
  <2>3. CASE cost = 0
    <3>1. credits' = credits /\ ledger' = ledger
      BY <1>4, <2>3 DEF Reserve
    <3>2. QED
      BY <1>1, <1>2, <2>2, <3>1 DEF TablesOK, RowsStay, RowsArePaidFor, RowIsPaidFor, Paid, Emitted,
                                    OncePerReference
  <2>4. CASE cost # 0
    <3>1. Move(u, -cost, "job_reserve", j)
      BY <1>4, <2>4 DEF Reserve
    <3>2. OncePerReference'
      BY <1>2, <1>3, <2>1, <3>1, MoveOnce
    <3>3. TablesOK'
      BY <1>2, <1>3, <2>1, <2>2, <3>1, MoveAppends DEF TablesOK
    <3>4. RowsStay /\ RowsArePaidFor'
      BY <1>1, <1>2, <1>3, <2>1, <3>1, MovePaidFor
    <3>5. QED BY <3>2, <3>3, <3>4
  <2>5. QED BY <2>3, <2>4
<1>5. ASSUME NEW j \in JobIds, Refund(j)
      PROVE  TablesOK' /\ RowsStay /\ RowsArePaidFor' /\ OncePerReference'
  <2> DEFINE u == jobs[j].user
             delta == jobs[j].spent
  <2>1. u \in Users /\ delta \in Int /\ j \in References
    BY <1>2, <1>5 DEF Refund, TablesOK, JobRow, References
  <2>2. Move(u, delta, "job_refund", j) /\ jobs' = jobs
    BY <1>5 DEF Refund
  <2> HIDE DEF u, delta
  <2>3. OncePerReference'
    BY <1>2, <1>3, <2>1, <2>2, MoveOnce
  <2>4. TablesOK'
    BY <1>2, <1>3, <2>1, <2>2, MoveAppends DEF TablesOK
  <2>5. RowsStay /\ RowsArePaidFor'
    BY <1>1, <1>2, <1>3, <2>1, <2>2, MovePaidFor
  <2>6. QED BY <2>3, <2>4, <2>5
<1>6. TablesOK' /\ RowsStay /\ RowsArePaidFor' /\ OncePerReference'
  BY <1>4, <1>5 DEF Spend
<1>7. /\ emitted \subseteq emitted' /\ emitted' \subseteq Event
      /\ customer' \in [Sessions -> Customers \cup {NotStarted, NoAccount}]
  BY <1>1, <1>2 DEF TypeOK
<1>8. CustomersAreTheirs'
  BY <1>1 DEF WebhookInv, CustomersAreTheirs
<1>9. QED BY <1>1, <1>6, <1>7, <1>8, ElsewhereKeeps

-----------------------------------------------------------------------------
LEMMA WebhookInitInv == Init => WebhookInv
<1> SUFFICES ASSUME Init PROVE WebhookInv
  OBVIOUS
<1>1. TablesOK /\ OncePerReference /\ RowsArePaidFor
  BY DEF Init, AccountInit, TablesOK, OncePerReference, RowsArePaidFor
<1>2. TypeOK
  BY <1>1, WebhookAssumption DEF Init, TypeOK, Customers
<1>3. CustomersAreTheirs /\ LinksAreTheirs /\ ProcessedIsCredited
  BY WebhookAssumption DEF Init, CustomersAreTheirs, LinksAreTheirs, ProcessedIsCredited, Customers
<1>4. \A d \in Deliveries : HandlerOK(d)
  BY DEF Init, HandlerOK
<1>5. QED BY <1>1, <1>2, <1>3, <1>4 DEF WebhookInv

LEMMA WebhookNextInv == WebhookInv /\ [Next]_vars => WebhookInv'
<1> SUFFICES ASSUME WebhookInv, [Next]_vars PROVE WebhookInv'
  OBVIOUS
<1>1. CASE UNCHANGED vars
  <2>1. /\ UNCHANGED <<credits, ledger, jobs>> /\ Elsewhere
        /\ customer' = customer /\ emitted' = emitted
    BY <1>1 DEF vars, tables, Elsewhere
  <2>2. TablesOK' /\ RowsStay /\ RowsArePaidFor' /\ OncePerReference'
    BY <2>1, TablesStill
  <2>3. /\ emitted \subseteq emitted' /\ emitted' \subseteq Event /\ CustomersAreTheirs'
        /\ customer' \in [Sessions -> Customers \cup {NotStarted, NoAccount}]
    BY <2>1 DEF WebhookInv, TypeOK, CustomersAreTheirs
  <2>4. QED BY <2>1, <2>2, <2>3, ElsewhereKeeps
<1>2. ASSUME NEW d \in Deliveries, Handle(d) PROVE WebhookInv'
  BY <1>2, CheckSeenKeeps, LinkCustomerKeeps, SetActiveKeeps, FindUserKeeps, GrantCreditsKeeps,
     MirrorStatusKeeps, ReadBalanceKeeps, ClearBalanceKeeps, ExplainClearKeeps, EndingKeeps
  DEF Handle
<1>3. ASSUME NEW d \in Deliveries,
             (\E e \in emitted : Deliver(d, e)) \/ Handle(d) \/ Fail(d)
      PROVE  WebhookInv'
  BY <1>2, <1>3, DeliverKeeps, EndingKeeps
<1>4. QED BY <1>1, <1>3, StripeKeeps, SpendKeeps DEF Next

\* What every request relies on holds whatever Stripe, the accounts and the
\* other requests do (webhook.ts, handleEvent and its handlers).
THEOREM WebhookInvariant == Spec => []WebhookInv
  BY WebhookInitInv, WebhookNextInv, PTL DEF Spec

\* webhook.ts:4-8, grantCredits under its unique index: every row that grants
\* credit is for a payment Stripe reported, went to the account that paid, in
\* the amount of what it bought, and no customer is linked to another account.
THEOREM GrantsAreForPayments == Spec => []GrantsArePaidFor
<1>1. WebhookInv => GrantsArePaidFor
  BY DEF WebhookInv, GrantsArePaidFor, RowsArePaidFor, RowIsPaidFor
<1>2. QED BY <1>1, WebhookInvariant, PTL

\* handleEvent's order, effect first and stripe_events last: the event of a pack of a
\* known SKU that an account paid, if it will be skipped from now on, has had its
\* effect, however often it failed before (webhook.ts:76 and 98-100 are the exceptions).
THEOREM NoPaidPackIsSkipped == Spec => []ProcessedIsCredited
<1>1. WebhookInv => ProcessedIsCredited
  BY DEF WebhookInv
<1>2. QED BY <1>1, WebhookInvariant, PTL

\* The (reason, reference) index under at-least-once, concurrent deliveries:
\* no payment is granted twice and no charge is clawed back twice.
THEOREM DeliveredOftenGrantedOnce == Spec => []OncePerReference
<1>1. WebhookInv => OncePerReference
  BY DEF WebhookInv
<1>2. QED BY <1>1, WebhookInvariant, PTL

\* What a step of the webhook does to the tables when no charge is refunded.
LEMMA WebhookStepMoves ==
  ASSUME WebhookInv, [Next]_vars, Charges = {}
  PROVE  [AccountNext]_tables
<1>1. ASSUME NEW d \in Deliveries, Handle(d) PROVE [AccountNext]_tables
  <2>1. CASE GrantCredits(d)
    <3>1. CASE \E r \in Refs : Move(Owner[r], SkuCredits[r], ReasonOf[r], r)
      BY <2>1, <3>1, GrantCreditsKeeps, Payments DEF AccountNext, Grant
    <3>2. CASE credits' = credits /\ ledger' = ledger
      BY <2>1, <3>2, GrantCreditsKeeps DEF tables
    <3>3. QED BY <2>1, <3>1, <3>2, GrantCreditsKeeps
  <2>2. CASE ClearBalance(d) \/ ExplainClear(d)
    <3>1. event[d].of \in Charges
      BY <2>2, RefundOf DEF ClearBalance, ExplainClear
    <3>2. QED BY <3>1
  <2>3. CASE CheckSeen(d) \/ LinkCustomer(d) \/ SetActive(d) \/ FindUser(d)
               \/ MirrorStatus(d) \/ ReadBalance(d) \/ Record(d)
    BY <2>3 DEF CheckSeen, LinkCustomer, SetActive, FindUser, MirrorStatus, ReadBalance, Record
  <2>4. QED BY <1>1, <2>1, <2>2, <2>3 DEF Handle
<1>2. ASSUME NEW d \in Deliveries, Fail(d) \/ \E e \in emitted : Deliver(d, e)
      PROVE  UNCHANGED tables
  BY <1>2 DEF Fail, Deliver
<1>3. CASE Spend
  BY <1>3 DEF Spend, AccountNext
<1>4. CASE Stripe
  BY <1>4 DEF Stripe, StartCheckout, CompleteCheckout, SettlePayment, PayInvoice,
              ChangeSubscription, RefundCharge, Emit, StartOutside
<1>5. CASE UNCHANGED vars
  BY <1>5 DEF vars
<1>6. QED BY <1>1, <1>2, <1>3, <1>4, <1>5 DEF Next

\* credits.ts, rule 1 of its header, for the webhook: as long as no charge is
\* refunded, everything it does to the tables, with any jobs running
\* meanwhile, is the account's own movements.  (With refunds it is not:
\* onChargeRefunded opens no transaction.)
THEOREM WebhookImplementsAccount ==
  ASSUME Charges = {}
  PROVE  Spec => ImplementsAccount
<1>1. Init => AccountInit
  BY DEF Init
<1>2. WebhookInv /\ [Next]_vars => [AccountNext]_tables
  BY WebhookStepMoves
<1>3. QED
  BY <1>1, <1>2, WebhookInvariant, PTL DEF Spec, ImplementsAccount, AccountSpec
=============================================================================
