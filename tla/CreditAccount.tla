--------------------------- MODULE CreditAccount ---------------------------
(***************************************************************************)
(* What billing/credits.ts promises: every movement of credit is one       *)
(* indivisible step that changes a balance, writes the ledger row          *)
(* explaining it, and is applied at most once per (reason, reference).     *)
(* The modules that extend this one say how the code does it.              *)
(***************************************************************************)
EXTENDS CreditRows

VARIABLES
  credits,   \* users.credits
  ledger,    \* credit_ledger, the rows of each user oldest first
  jobs       \* jobs: who was charged for it and how much

tables == <<credits, ledger, jobs>>

AccountInit ==
  /\ credits = [u \in Users |-> 0]
  /\ ledger = [u \in Users |-> <<>>]
  /\ jobs = [j \in JobIds |-> NoJob]

-----------------------------------------------------------------------------
\* Money and the reason it moved, together.
Move(u, delta, reason, reference) ==
  /\ credits[u] + delta >= 0
  /\ ~Booked(ledger, reason, reference)
  /\ credits' = [credits EXCEPT ![u] = @ + delta]
  /\ ledger' = [ledger EXCEPT ![u] = Append(@, RowFor(credits[u], delta, reason, reference))]

\* A signup, a purchase or a renewal pays in.
Grant(r, amount) ==
  /\ Move(Owner[r], amount, ReasonOf[r], r)
  /\ UNCHANGED jobs

\* The job row and its charge appear together, or neither does.
Reserve(u, j, cost) ==
  /\ jobs[j] = NoJob
  /\ cost <= credits[u]
  /\ jobs' = [jobs EXCEPT ![j] = [user |-> u, spent |-> cost]]
  /\ IF cost = 0 THEN UNCHANGED <<credits, ledger>>
                 ELSE Move(u, -cost, "job_reserve", j)

\* A job that did not deliver is paid back what its row says it was charged.
Refund(j) ==
  /\ jobs[j] # NoJob
  /\ jobs[j].spent > 0
  /\ Move(jobs[j].user, jobs[j].spent, "job_refund", j)
  /\ UNCHANGED jobs

\* A refunded card payment takes the balance down to zero, never below.
ClawBack(c) ==
  /\ credits[Owner[c]] > 0
  /\ Move(Owner[c], -credits[Owner[c]], "manual_adjustment", c)
  /\ UNCHANGED jobs

AccountNext ==
  \/ \E r \in Refs, amount \in Amounts : Grant(r, amount)
  \/ \E u \in Users, j \in JobIds, cost \in Costs : Reserve(u, j, cost)
  \/ \E j \in JobIds : Refund(j)
  \/ \E c \in Charges : ClawBack(c)

AccountSpec == AccountInit /\ [][AccountNext]_tables

-----------------------------------------------------------------------------
TablesOK ==
  /\ credits \in [Users -> Nat]
  /\ ledger \in [Users -> Seq(Row)]
  /\ jobs \in [JobIds -> JobRow \cup {NoJob}]

\* What a user's ledger says the balance is.
LedgerBalance(u) ==
  IF ledger[u] = <<>> THEN 0 ELSE ledger[u][Len(ledger[u])].after

\* Each row continues where the one before it stopped.
RowsChain(u) ==
  \A i \in DOMAIN ledger[u] :
    ledger[u][i].after = ledger[u][i].delta + (IF i = 1 THEN 0 ELSE ledger[u][i - 1].after)

\* reconcile() (billing/credits.ts): the cached balance is what the ledger
\* adds up to.  The rows telescope, so the last balance_after is their sum.
BalanceExplained == \A u \in Users : credits[u] = LedgerBalance(u) /\ RowsChain(u)

\* The (reason, reference) index: no movement is ever applied twice, neither
\* to one account nor to two (credits.ts, rule 2 of its header).
OncePerReference ==
  \A u, v \in Users : \A i \in DOMAIN ledger[u], k \in DOMAIN ledger[v] :
    /\ ledger[u][i].reason = ledger[v][k].reason
    /\ ledger[u][i].reference = ledger[v][k].reference
    => u = v /\ i = k

\* createJobReservingCredits: an account is charged exactly for the jobs that
\* exist, each at the price on its row, and a refund pays back that price to
\* the account that paid it, after it paid.
ChargesMatchJobs ==
  \A u \in Users : \A i \in DOMAIN ledger[u] :
    LET row == ledger[u][i] IN
    /\ row.reason = "job_reserve" =>
         /\ row.delta < 0
         /\ jobs[row.reference] = [user |-> u, spent |-> -row.delta]
    /\ row.reason = "job_refund" =>
         /\ row.delta > 0
         /\ jobs[row.reference] = [user |-> u, spent |-> row.delta]
         /\ \E k \in 1..(i - 1) :
              ledger[u][k].reason = "job_reserve" /\ ledger[u][k].reference = row.reference

\* The other direction: no job is worked on for free unless its price was 0.
JobsAreCharged ==
  \A j \in JobIds :
    jobs[j] # NoJob /\ jobs[j].spent > 0 =>
      \E i \in DOMAIN ledger[jobs[j].user] :
        /\ ledger[jobs[j].user][i].reason = "job_reserve"
        /\ ledger[jobs[j].user][i].reference = j

\* ChargesMatchJobs and JobsAreCharged need each other: a refund follows the
\* charge JobsAreCharged provides, and a fresh job has no charge because
\* ChargesMatchJobs gives every charge a job.
AccountInv ==
  TablesOK /\ BalanceExplained /\ OncePerReference /\ ChargesMatchJobs /\ JobsAreCharged
=============================================================================
