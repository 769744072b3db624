---------------------------- MODULE StripeWebhook ----------------------------
(***************************************************************************)
(* billing/webhook.ts: Stripe tells the server, at least once and in any   *)
(* order, what was paid, subscribed to or refunded; handleEvent turns each *)
(* event into credit.  Deliveries run concurrently, one SQL statement at a *)
(* time, and any of them may be cut off between two statements.            *)
(*                                                                         *)
(* grantCredits is one step here: CreditLedgerProofs shows its transaction *)
(* to be one.  onChargeRefunded opens no transaction, so its statements    *)
(* are steps of their own.                                                 *)
(***************************************************************************)
EXTENDS CreditAccount, FiniteSets

CONSTANTS
  Packs,        \* Checkout sessions that buy a pack
  Plans,        \* Checkout sessions that start a plan
  Invoices,     \* invoices of plans, first periods and renewals
  Buyer,        \* the account (client_reference_id) of each session that has one
  PlanOf,       \* the plan each invoice is for
  PaymentOf,    \* the pack or invoice each charge paid
  SkuCredits,   \* what each pack or invoice is worth
  Unlisted,     \* those of them whose SKU not every deployed build lists
  NoCustomer,   \* users.stripe_customer_id IS NULL
  NoStatus,     \* a subscription_status no subscription has written
  Deliveries,   \* slots for concurrent requests to the endpoint
  Idle,         \* an idle slot
  MaxFailures   \* how many requests may fail before the trouble is over

VARIABLES
  customer,     \* Stripe: the customer of each Checkout session, once started
  emitted,      \* Stripe: every event it has ever created
  linked,       \* users.stripe_customer_id
  status,       \* users.subscription_status
  processed,    \* stripe_events
  event,        \* what each slot is handling
  at,           \* the statement of its handler it executes next
  found,        \* the user its handler looked up
  balance,      \* the balance onChargeRefunded read
  failures      \* requests that have failed so far

requests == <<event, at, found, balance>>
vars == <<tables, customer, emitted, linked, status, processed, requests, failures>>

Sessions == Packs \cup Plans
Event == [type: {"checkout", "asyncPaid"}, of: Sessions, as: {"paid", "unpaid"}]
    \cup [type: {"invoice"}, of: Invoices, as: {"paid"}]
    \cup [type: {"subscription"}, of: Plans, as: {"active", "canceled"}]
    \cup [type: {"refund"}, of: Charges, as: {"full", "partial"}]

\* A customer is named after the session that created it.  A session may also
\* be made outside the app, for nobody's account: no client_reference_id.
NotStarted == "notStarted"
NoAccount == "noAccount"
Customers == Sessions \cup {NoCustomer}

ASSUME WebhookAssumption ==
  /\ Refs = Packs \cup Invoices /\ Packs \cap Plans = {}
  /\ Buyer \in [Sessions -> Users]
  /\ PlanOf \in [Invoices -> Plans]
  /\ PaymentOf \in [Charges -> Refs]
  /\ SkuCredits \in [Refs -> Amounts] /\ Unlisted \subseteq Refs
  /\ \A s \in Packs : Owner[s] = Buyer[s] /\ ReasonOf[s] = "purchase"
  /\ \A i \in Invoices : Owner[i] = Buyer[PlanOf[i]] /\ ReasonOf[i] = "subscription_renewal"
  /\ \A c \in Charges : Owner[c] = Owner[PaymentOf[c]]
  /\ NoCustomer \notin Sessions /\ {NotStarted, NoAccount} \cap Customers = {}
  /\ Idle \notin Event
  /\ MaxFailures \in Nat

Init ==
  /\ AccountInit
  /\ customer = [s \in Sessions |-> NotStarted]
  /\ emitted = {} /\ processed = {}
  /\ linked = [u \in Users |-> NoCustomer]
  /\ status = [u \in Users |-> NoStatus]
  /\ event = [d \in Deliveries |-> Idle]
  /\ at = [d \in Deliveries |-> "seen"]
  /\ found = [d \in Deliveries |-> Idle]
  /\ balance = [d \in Deliveries |-> 0]
  /\ failures = 0

-----------------------------------------------------------------------------
(* Stripe and the browser. *)

Emitted(type, of, as) == [type |-> type, of |-> of, as |-> as] \in emitted

\* The session behind a payment, and the customer an event is about.
SessionOf(r) == IF r \in Packs THEN r ELSE PlanOf[r]
CustomerOf(e) ==
  customer[CASE e.type = "invoice"      -> PlanOf[e.of]
             [] e.type = "refund"       -> SessionOf(PaymentOf[e.of])
             [] OTHER                   -> e.of]

Paid(r) ==
  \/ Emitted("checkout", r, "paid")
  \/ Emitted("asyncPaid", r, "paid")
  \/ Emitted("invoice", r, "paid")

Emit(type, of, as) ==
  /\ ~Emitted(type, of, as)
  /\ emitted' = emitted \cup {[type |-> type, of |-> of, as |-> as]}
  /\ UNCHANGED <<tables, customer, linked, status, processed, requests, failures>>

\* POST /billing/checkout reuses the linked customer.  Otherwise Stripe makes
\* one, which for a one-off payment it may leave out.
StartCheckout(s, c) ==
  /\ customer[s] = NotStarted
  /\ c \in IF linked[Buyer[s]] # NoCustomer THEN {linked[Buyer[s]]}
           ELSE IF s \in Plans THEN {s} ELSE {s, NoCustomer}
  /\ customer' = [customer EXCEPT ![s] = c]
  /\ UNCHANGED <<tables, emitted, linked, status, processed, requests, failures>>

StartOutside(s) ==
  /\ customer[s] = NotStarted
  /\ customer' = [customer EXCEPT ![s] = NoAccount]
  /\ UNCHANGED <<tables, emitted, linked, status, processed, requests, failures>>

\* Checkout completes, paid or with an asynchronous payment still pending.
CompleteCheckout(s, as) ==
  /\ customer[s] # NotStarted
  /\ s \in Plans => as = "paid"
  /\ ~\E paid \in {"paid", "unpaid"} : Emitted("checkout", s, paid)
  /\ Emit("checkout", s, as)

SettlePayment(s) == Emitted("checkout", s, "unpaid") /\ Emit("asyncPaid", s, "paid")
PayInvoice(i) == Emitted("checkout", PlanOf[i], "paid") /\ Emit("invoice", i, "paid")

\* A subscription is announced active, and canceled after that for good.
ChangeSubscription(p, as) ==
  /\ Emitted("checkout", p, "paid")
  /\ ~Emitted("subscription", p, "canceled")
  /\ as = "canceled" => Emitted("subscription", p, "active")
  /\ Emit("subscription", p, as)

\* Partly refunded, then perhaps fully: each is a charge.refunded.
RefundCharge(c, as) ==
  /\ Paid(PaymentOf[c])
  /\ ~Emitted("refund", c, "full")
  /\ Emit("refund", c, as)

Stripe ==
  \/ \E s \in Sessions : StartOutside(s) \/ \E c \in Customers : StartCheckout(s, c)
  \/ \E s \in Sessions, as \in {"paid", "unpaid"} : CompleteCheckout(s, as)
  \/ \E s \in Packs : SettlePayment(s)
  \/ \E i \in Invoices : PayInvoice(i)
  \/ \E p \in Plans, as \in {"active", "canceled"} : ChangeSubscription(p, as)
  \/ \E c \in Charges, as \in {"full", "partial"} : RefundCharge(c, as)

\* Meanwhile the accounts buy jobs with what they have.
Spend ==
  /\ \/ \E u \in Users, j \in JobIds, cost \in Costs : Reserve(u, j, cost)
     \/ \E j \in JobIds : Refund(j)
  /\ UNCHANGED <<customer, emitted, linked, status, processed, requests, failures>>

-----------------------------------------------------------------------------
(* handleEvent, one statement at a time. *)

\* A signed request arrives: the first for this event, or one more.
Deliver(d, e) ==
  /\ event[d] = Idle
  /\ e \in emitted
  /\ event' = [event EXCEPT ![d] = e]
  /\ UNCHANGED <<tables, customer, emitted, linked, status, processed, at, found, balance, failures>>

Reaches(d, statement) == event[d] # Idle /\ at[d] = statement
Goto(d, statement) == at' = [at EXCEPT ![d] = statement]

\* The request is answered, or its connection or its process is gone.
Finish(d) ==
  /\ event' = [event EXCEPT ![d] = Idle]
  /\ at' = [at EXCEPT ![d] = "seen"]
  /\ found' = [found EXCEPT ![d] = Idle]
  /\ balance' = [balance EXCEPT ![d] = 0]

\* Mutants: the event is recorded before its effect; asyncPaid has no handler.
CheckSeenAndRecord(d) ==
  /\ Reaches(d, "seen")
  /\ processed' = processed \cup {event[d]}
  /\ IF event[d] \in processed
     THEN Finish(d)
     ELSE /\ Goto(d, IF event[d].type \in {"checkout", "asyncPaid"} THEN "link" ELSE "find")
          /\ UNCHANGED <<event, found, balance>>
  /\ UNCHANGED <<tables, customer, emitted, linked, status, failures>>

CheckSeenNoAsync(d) ==
  /\ Reaches(d, "seen")
  /\ IF event[d] \in processed
     THEN Finish(d)
     ELSE /\ Goto(d, CASE event[d].type = "checkout"  -> "link"
                       [] event[d].type = "asyncPaid" -> "record"
                       [] OTHER                       -> "find")
          /\ UNCHANGED <<event, found, balance>>
  /\ UNCHANGED <<tables, customer, emitted, linked, status, processed, failures>>

\* SELECT 1 FROM stripe_events: the fast path, else the handler of the type.
CheckSeen(d) ==
  /\ Reaches(d, "seen")
  /\ IF event[d] \in processed
     THEN Finish(d)
     ELSE /\ Goto(d, IF event[d].type \in {"checkout", "asyncPaid"} THEN "link" ELSE "find")
          /\ UNCHANGED <<event, found, balance>>
  /\ UNCHANGED <<tables, customer, emitted, linked, status, processed, failures>>

\* linkCustomer, for the account and the customer the session names.
Link(s) ==
  linked' = IF customer[s] \in {NoAccount, NoCustomer} THEN linked
            ELSE [linked EXCEPT ![Buyer[s]] = customer[s]]

\* findSku, skuForPriceId: what is paid gets its grant, unless the build that is
\* running (a deploy was rolled back) does not list what it is.
GrantFor(d, r) == Goto(d, "grant") \/ (r \in Unlisted /\ Goto(d, "record"))

\* Mutant: payment_status is not looked at.
LinkAndGrant(d) ==
  LET s == event[d].of IN
  /\ Reaches(d, "link")
  /\ Link(s)
  /\ IF customer[s] = NoAccount THEN Goto(d, "record")
     ELSE IF s \in Plans THEN Goto(d, "subscribe") ELSE GrantFor(d, s)
  /\ UNCHANGED <<tables, customer, emitted, status, processed, event, found, balance, failures>>

\* onCheckoutCompleted: nothing for a session of no account; else linkCustomer,
\* then by mode, payment_status and sku_id.
LinkCustomer(d) ==
  LET s == event[d].of IN
  /\ Reaches(d, "link")
  /\ Link(s)
  /\ IF customer[s] = NoAccount \/ event[d].as = "unpaid" THEN Goto(d, "record")
     ELSE IF s \in Plans THEN Goto(d, "subscribe") ELSE GrantFor(d, s)
  /\ UNCHANGED <<tables, customer, emitted, status, processed, event, found, balance, failures>>

SetActive(d) ==
  /\ Reaches(d, "subscribe")
  /\ status' = [status EXCEPT ![Buyer[event[d].of]] = "active"]
  /\ Goto(d, "record")
  /\ UNCHANGED <<tables, customer, emitted, linked, processed, event, found, balance, failures>>

\* findUserByCustomerId: nobody linked means the event is ignored.  Then, of an
\* invoice, the plan its price names.
FindUser(d) ==
  LET e == event[d]
      users == {u \in Users : linked[u] # NoCustomer /\ linked[u] = CustomerOf(e)}
  IN
  /\ Reaches(d, "find")
  /\ \/ /\ users = {}
        /\ Goto(d, "record")
        /\ UNCHANGED found
     \/ \E u \in users :
          /\ found' = [found EXCEPT ![d] = u]
          /\ IF e.type = "invoice"
             THEN GrantFor(d, e.of)
             ELSE Goto(d, IF e.type = "subscription" THEN "mirror"
                          ELSE IF e.as = "full" THEN "balance" ELSE "record")
  /\ UNCHANGED <<tables, customer, emitted, linked, status, processed, event, balance, failures>>

\* Mutant: a grant that is not keyed on the payment.
GrantAgain(d) ==
  LET r == event[d].of
      u == IF event[d].type = "invoice" THEN found[d] ELSE Buyer[r]
  IN
  /\ Reaches(d, "grant")
  /\ credits' = [credits EXCEPT ![u] = @ + SkuCredits[r]]
  /\ ledger' = [ledger EXCEPT ![u] =
                  Append(@, RowFor(credits[u], SkuCredits[r], ReasonOf[r], r))]
  /\ Goto(d, "record")
  /\ UNCHANGED <<jobs, customer, emitted, linked, status, processed, event, found, balance, failures>>

\* grantCredits against the session or the invoice; a no-op when it is booked.
GrantCredits(d) ==
  LET r == event[d].of
      u == IF event[d].type = "invoice" THEN found[d] ELSE Buyer[r]
  IN
  /\ Reaches(d, "grant")
  /\ IF Booked(ledger, ReasonOf[r], r)
     THEN UNCHANGED <<credits, ledger>>
     ELSE Move(u, SkuCredits[r], ReasonOf[r], r)
  /\ Goto(d, "record")
  /\ UNCHANGED <<jobs, customer, emitted, linked, status, processed, event, found, balance, failures>>

\* onSubscriptionChanged.
MirrorStatus(d) ==
  /\ Reaches(d, "mirror")
  /\ status' = [status EXCEPT ![found[d]] = event[d].as]
  /\ Goto(d, "record")
  /\ UNCHANGED <<tables, customer, emitted, linked, processed, event, found, balance, failures>>

\* onChargeRefunded: SELECT credits, with nothing to do when it is zero ...
ReadBalance(d) ==
  /\ Reaches(d, "balance")
  /\ balance' = [balance EXCEPT ![d] = credits[found[d]]]
  /\ Goto(d, IF credits[found[d]] <= 0 THEN "record" ELSE "clear")
  /\ UNCHANGED <<tables, customer, emitted, linked, status, processed, event, found, failures>>

\* ... UPDATE users SET credits = 0, whatever they are by now ...
ClearBalance(d) ==
  /\ Reaches(d, "clear")
  /\ credits' = [credits EXCEPT ![found[d]] = 0]
  /\ Goto(d, "explain")
  /\ UNCHANGED <<ledger, jobs, customer, emitted, linked, status, processed, event, found,
                 balance, failures>>

\* Mutant: without ON CONFLICT and its index.
ExplainAgain(d) ==
  /\ Reaches(d, "explain")
  /\ ledger' = [ledger EXCEPT ![found[d]] =
                  Append(@, [delta |-> -balance[d], after |-> 0,
                             reason |-> "manual_adjustment", reference |-> event[d].of])]
  /\ Goto(d, "record")
  /\ UNCHANGED <<credits, jobs, customer, emitted, linked, status, processed, event, found,
                 balance, failures>>

\* ... INSERT INTO credit_ledger the balance read, unless the charge has a row.
ExplainClear(d) ==
  LET u == found[d]
      row == [delta |-> -balance[d], after |-> 0,
              reason |-> "manual_adjustment", reference |-> event[d].of]
  IN
  /\ Reaches(d, "explain")
  /\ ledger' = IF Booked(ledger, row.reason, row.reference) THEN ledger
               ELSE [ledger EXCEPT ![u] = Append(@, row)]
  /\ Goto(d, "record")
  /\ UNCHANGED <<credits, jobs, customer, emitted, linked, status, processed, event, found,
                 balance, failures>>

\* INSERT INTO stripe_events, and 200.
Record(d) ==
  /\ Reaches(d, "record")
  /\ processed' = processed \cup {event[d]}
  /\ Finish(d)
  /\ UNCHANGED <<tables, customer, emitted, linked, status, failures>>

\* A statement throws (500), or the process dies: the statements done so far
\* stay done, and Stripe will ask again.
Fail(d) ==
  /\ event[d] # Idle
  /\ failures < MaxFailures
  /\ failures' = failures + 1
  /\ Finish(d)
  /\ UNCHANGED <<tables, customer, emitted, linked, status, processed>>

Handle(d) ==
  CheckSeen(d) \/ LinkCustomer(d) \/ SetActive(d) \/ FindUser(d) \/ GrantCredits(d)
    \/ MirrorStatus(d) \/ ReadBalance(d) \/ ClearBalance(d) \/ ExplainClear(d) \/ Record(d)

Next ==
  \/ Stripe
  \/ Spend
  \/ \E d \in Deliveries :
       (\E e \in emitted : Deliver(d, e)) \/ Handle(d) \/ Fail(d)

Spec == Init /\ [][Next]_vars

\* The server executes the requests it has, and Stripe delivers an event again
\* until it is told that it was processed.  Nobody has to buy anything.
Fairness ==
  /\ \A d \in Deliveries : WF_vars(Handle(d))
  /\ \A e \in Event : SF_vars(e \notin processed /\ \E d \in Deliveries : Deliver(d, e))

FairSpec == Spec /\ Fairness

-----------------------------------------------------------------------------
TypeOK ==
  /\ TablesOK
  /\ customer \in [Sessions -> Customers \cup {NotStarted, NoAccount}]
  /\ emitted \subseteq Event /\ processed \subseteq emitted
  /\ linked \in [Users -> Customers]
  /\ status \in [Users -> {"active", "canceled", NoStatus}]
  /\ event \in [Deliveries -> emitted \cup {Idle}]
  /\ at \in [Deliveries -> {"seen", "link", "subscribe", "find", "grant", "mirror",
                            "balance", "clear", "explain", "record"}]
  /\ found \in [Deliveries -> Users \cup {Idle}]
  /\ balance \in [Deliveries -> Nat]
  /\ failures \in 0..MaxFailures

LinksAreTheirs ==
  \A u \in Users : linked[u] # NoCustomer => Buyer[linked[u]] = u

\* webhook.ts:4-8: credit is created only by a payment Stripe reports, for the
\* account that paid, in the amount of what it bought; and every later lookup by
\* customer finds that account, since no customer is linked to another.
GrantsArePaidFor ==
  /\ TypeOK /\ LinksAreTheirs
  /\ \A u \in Users : \A i \in DOMAIN ledger[u] :
       LET row == ledger[u][i] IN
       row.reason \in GrantReasons =>
         Paid(row.reference) /\ u = Owner[row.reference] /\ row.delta = SkuCredits[row.reference]

\* webhook.ts:76, 98-100: a payment is worth credit when it has an account and
\* a SKU every build knows.
Creditable(r) == customer[SessionOf(r)] # NoAccount /\ r \notin Unlisted

\* handleEvent records an event only after its effect: one that is skipped as
\* already processed, for a pack of a known SKU that an account paid, has been
\* credited.
ProcessedIsCredited ==
  \A e \in processed :
    e.of \in Packs /\ Creditable(e.of) /\ e.as = "paid" => Booked(ledger, "purchase", e.of)

\* Without card refunds, everything webhooks and jobs do to the tables is a
\* movement of the account.
ImplementsAccount == AccountSpec

\* webhook.ts:10-15: a pack of a known SKU that an account paid for is credited,
\* however often its events fail, and (OncePerReference) once however often they
\* are delivered.
PaidPackIsCredited ==
  \A s \in Packs : Paid(s) /\ Creditable(s) ~> Booked(ledger, "purchase", s)

-----------------------------------------------------------------------------
(* What the repository says of the program and the program does not do. *)

\* onInvoicePaid (webhook.ts:111-112): "Keyed on the invoice, so the month's
\* credits land exactly once however many events describe that invoice."
PaidInvoiceIsCredited ==
  \A i \in Invoices : Paid(i) /\ Creditable(i) ~> Booked(ledger, "subscription_renewal", i)

\* credits.ts:6-9 and reconcile(): credit never moves without its ledger row.
\* Even once every event was processed and every request answered, the balance
\* of each account is what its rows explain.
SettledBooksBalance ==
  emitted = processed /\ (\A d \in Deliveries : event[d] = Idle) => BalanceExplained
=============================================================================
