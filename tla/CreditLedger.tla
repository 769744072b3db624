---------------------------- MODULE CreditLedger ----------------------------
(***************************************************************************)
(* billing/credits.ts as Postgres runs it: concurrent calls, each a        *)
(* transaction of several statements under a row lock on users, any of     *)
(* which may fail or be cut off by a crash before it commits.              *)
(*                                                                         *)
(* A call executes Script[op] statement by statement.  What it has written *)
(* stays invisible until COMMIT; a throw, a lost connection or a crash     *)
(* rolls it back.  The variables of CreditAccount are the committed        *)
(* tables, so implementing the account is AccountSpec itself.              *)
(***************************************************************************)
EXTENDS CreditAccount

CONSTANTS
  Calls,     \* slots for concurrent calls, each one pooled connection
  NoCall     \* an idle slot

VARIABLES
  call,    \* what each slot is executing: operation and arguments
  at,      \* index in its script of the statement it executes next
  held,    \* the lock each slot holds on its user's row
  read,    \* the balance lockUserCredits returned to it
  wrote    \* the statements whose uncommitted effect it carries

vars == <<credits, ledger, jobs, call, at, held, read, wrote>>

Ops == {"grant", "reserve", "refund"}
Call == [op: Ops, user: Users, delta: Int, reason: Reasons, reference: References]

ASSUME CallsAssumption == NoCall \notin Call

\* Mutant: the INSERT into jobs before the lock, as credits.ts:181-183 warns.
ScriptJobFirst ==
  [grant   |-> <<"lock", "insertLedger", "updateUser", "commit">>,
   refund  |-> <<"lock", "insertLedger", "updateUser", "commit">>,
   reserve |-> <<"insertJob", "lock", "insertLedger", "updateUser", "commit">>]

\* The statements of each transaction, in order (credits.ts:162, 173, 225).
\* Reserve locks before its INSERT INTO jobs, whose foreign key takes a
\* weaker lock on the same row.
Script ==
  [grant   |-> <<"lock", "insertLedger", "updateUser", "commit">>,
   refund  |-> <<"lock", "insertLedger", "updateUser", "commit">>,
   reserve |-> <<"lock", "insertJob", "insertLedger", "updateUser", "commit">>]

Init ==
  /\ AccountInit
  /\ call = [p \in Calls |-> NoCall]
  /\ at = [p \in Calls |-> 1]
  /\ held = [p \in Calls |-> "none"]
  /\ read = [p \in Calls |-> 0]
  /\ wrote = [p \in Calls |-> {}]

-----------------------------------------------------------------------------
Begin(p, c) ==
  /\ call[p] = NoCall
  /\ call' = [call EXCEPT ![p] = c]
  /\ at' = [at EXCEPT ![p] = 1]
  /\ UNCHANGED <<tables, held, read, wrote>>

\* grantCredits: a signup, a purchase or a renewal, as often as it is asked.
BeginGrant(p, r, amount) ==
  Begin(p, [op |-> "grant", user |-> Owner[r], delta |-> amount,
            reason |-> ReasonOf[r], reference |-> r])

\* createJobReservingCredits; j is the fresh uuid its INSERT will generate.
BeginReserve(p, u, j, cost) ==
  /\ jobs[j] = NoJob
  /\ \A q \in Calls : call[q] # NoCall => call[q].reference # j
  /\ Begin(p, [op |-> "reserve", user |-> u, delta |-> -cost,
               reason |-> "job_reserve", reference |-> j])

\* Mutant: a refund of what the job would cost today.
BeginRefundToday(p, j) ==
  /\ jobs[j] # NoJob
  /\ \E cost \in Costs \ {0} :
       Begin(p, [op |-> "refund", user |-> jobs[j].user, delta |-> cost,
                 reason |-> "job_refund", reference |-> j])

\* refundJobCredits reads the job row before it takes any lock.  It returns
\* at once for a job that does not exist or was free.
BeginRefund(p, j) ==
  /\ jobs[j] # NoJob
  /\ jobs[j].spent > 0
  /\ Begin(p, [op |-> "refund", user |-> jobs[j].user, delta |-> jobs[j].spent,
               reason |-> "job_refund", reference |-> j])

-----------------------------------------------------------------------------
At(p, statement) ==
  /\ call[p] # NoCall
  /\ Script[call[p].op][at[p]] = statement

Rivals(p) == {q \in Calls \ {p} : call[q] # NoCall /\ call[q].user = call[p].user}

\* Mutant: SELECT without FOR UPDATE.
CanLockAlways(p) == TRUE

\* FOR UPDATE conflicts with every lock another transaction holds on the row,
\* the KEY SHARE a foreign key takes only with FOR UPDATE.
CanLock(p) == \A q \in Rivals(p) : held[q] = "none"
CanShare(p) == \A q \in Rivals(p) : held[q] # "update"

Share(p) == held' = [held EXCEPT ![p] = IF @ = "none" THEN "keyShare" ELSE @]

\* Moving to a later statement, after which the transaction carries `effect`.
Advance(p, effect) ==
  /\ at' = [at EXCEPT ![p] = @ + 1]
  /\ wrote' = [wrote EXCEPT ![p] = @ \cup effect]

\* The function returns early: nothing is left to do but COMMIT.
SkipToCommit(p, effect) ==
  /\ at' = [at EXCEPT ![p] = Len(Script[call[p].op])]
  /\ wrote' = [wrote EXCEPT ![p] = @ \cup effect]

\* The transaction is over, whatever its outcome; its slot and lock are free.
End(p) ==
  /\ call' = [call EXCEPT ![p] = NoCall]
  /\ at' = [at EXCEPT ![p] = 1]
  /\ held' = [held EXCEPT ![p] = "none"]
  /\ read' = [read EXCEPT ![p] = 0]
  /\ wrote' = [wrote EXCEPT ![p] = {}]

\* Mutant: the job row is inserted on a connection of its own.
RollbackKeepsJob(p) ==
  /\ call[p] # NoCall
  /\ End(p)
  /\ jobs' = IF "job" \in wrote[p]
             THEN [jobs EXCEPT ![call[p].reference] =
                     [user |-> call[p].user, spent |-> -call[p].delta]]
             ELSE jobs
  /\ UNCHANGED <<credits, ledger>>

\* ROLLBACK: a throw, a failed statement, a lost connection or a crash.
Rollback(p) ==
  /\ call[p] # NoCall
  /\ End(p)
  /\ UNCHANGED tables

\* A price above the balance throws before anything is written.
Affordable(p) == call[p].op = "reserve" => credits[call[p].user] + call[p].delta >= 0

\* lockUserCredits, and for a reserve the check made on what it read.
Lock(p) ==
  /\ At(p, "lock")
  /\ CanLock(p)
  /\ Affordable(p)
  /\ held' = [held EXCEPT ![p] = "update"]
  /\ read' = [read EXCEPT ![p] = credits[call[p].user]]
  /\ Advance(p, {})
  /\ UNCHANGED <<tables, call>>

LockRefused(p) ==
  /\ At(p, "lock")
  /\ CanLock(p)
  /\ ~Affordable(p)
  /\ Rollback(p)

InsertJob(p) ==
  /\ At(p, "insertJob")
  /\ CanShare(p)
  /\ Share(p)
  /\ IF call[p].delta = 0 THEN SkipToCommit(p, {"job"}) ELSE Advance(p, {"job"})
  /\ UNCHANGED <<tables, call, read>>

\* Mutant: there is no unique index.
InsertLedgerTwice(p) ==
  /\ At(p, "insertLedger")
  /\ CanShare(p)
  /\ read[p] + call[p].delta >= 0
  /\ Share(p)
  /\ Advance(p, {"row"})
  /\ UNCHANGED <<tables, call, read>>

\* applyDeltaLocked: next < 0 throws; the INSERT is ON CONFLICT DO NOTHING,
\* and the balance is left alone when it inserted nothing.
InsertLedger(p) ==
  /\ At(p, "insertLedger")
  /\ CanShare(p)
  /\ read[p] + call[p].delta >= 0
  /\ Share(p)
  /\ IF Booked(ledger, call[p].reason, call[p].reference)
     THEN SkipToCommit(p, {})
     ELSE Advance(p, {"row"})
  /\ UNCHANGED <<tables, call, read>>

\* Mutant: the balance is written through the pool, outside the transaction.
UpdateUserOutside(p) ==
  /\ At(p, "updateUser")
  /\ CanShare(p)
  /\ credits' = [credits EXCEPT ![call[p].user] = read[p] + call[p].delta]
  /\ Advance(p, {"balance"})
  /\ UNCHANGED <<ledger, jobs, call, held, read>>

UpdateUser(p) ==
  /\ At(p, "updateUser")
  /\ CanShare(p)
  /\ Advance(p, {"balance"})
  /\ UNCHANGED <<tables, call, held, read>>

\* COMMIT makes everything the transaction wrote visible at once.
Commit(p) ==
  LET c == call[p]
      next == read[p] + c.delta
  IN
  /\ At(p, "commit")
  /\ jobs' = IF "job" \in wrote[p]
             THEN [jobs EXCEPT ![c.reference] = [user |-> c.user, spent |-> -c.delta]]
             ELSE jobs
  /\ ledger' = IF "row" \in wrote[p]
               THEN [ledger EXCEPT ![c.user] =
                       Append(@, RowFor(read[p], c.delta, c.reason, c.reference))]
               ELSE ledger
  /\ credits' = IF "balance" \in wrote[p]
                THEN [credits EXCEPT ![c.user] = next]
                ELSE credits
  /\ End(p)

-----------------------------------------------------------------------------
Start(p) ==
  \/ \E r \in Refs, amount \in Amounts : BeginGrant(p, r, amount)
  \/ \E u \in Users, j \in JobIds, cost \in Costs : BeginReserve(p, u, j, cost)
  \/ \E j \in JobIds : BeginRefund(p, j)

Statement(p) ==
  InsertJob(p) \/ InsertLedger(p) \/ UpdateUser(p) \/ Commit(p)

Next ==
  \E p \in Calls :
    Start(p) \/ Lock(p) \/ LockRefused(p) \/ Statement(p) \/ Rollback(p)

Spec == Init /\ [][Next]_vars

\* Postgres executes the statements it is sent, and serves the waiters of a
\* row lock in turn.  Nothing obliges anyone to call, or a call to fail.
Fairness ==
  \A p \in Calls : WF_vars(Statement(p)) /\ SF_vars(Lock(p) \/ LockRefused(p))

FairSpec == Spec /\ Fairness

-----------------------------------------------------------------------------
TypeOK ==
  /\ TablesOK
  /\ call \in [Calls -> Call \cup {NoCall}]
  /\ at \in [Calls -> 1..5]
  /\ held \in [Calls -> {"none", "keyShare", "update"}]
  /\ read \in [Calls -> Nat]
  /\ wrote \in [Calls -> SUBSET {"job", "row", "balance"}]

\* Two transactions never hold the balance of one account at once, and what
\* the holder read is still what the account has: no update is lost.
HolderIsCurrent ==
  \A p \in Calls : call[p] # NoCall /\ held[p] = "update" =>
    /\ read[p] = credits[call[p].user]
    /\ \A q \in Rivals(p) : held[q] = "none"

\* What is known of the arguments of a call in progress.
Args(p) ==
  LET c == call[p] IN
  /\ c.op = "grant" =>
       /\ c.reference \in Refs /\ c.user = Owner[c.reference]
       /\ c.reason = ReasonOf[c.reference] /\ c.delta \in Amounts
  /\ c.op = "refund" =>
       /\ c.reference \in JobIds /\ c.reason = "job_refund" /\ c.delta > 0
       /\ jobs[c.reference] = [user |-> c.user, spent |-> c.delta]
  /\ c.op = "reserve" =>
       /\ c.reference \in JobIds /\ c.reason = "job_reserve" /\ -c.delta \in Costs
       /\ jobs[c.reference] = NoJob
       /\ \A q \in Calls \ {p} :
            call[q] # NoCall /\ call[q].op = "reserve" => call[q].reference # c.reference

\* What a call has done when it has reached a statement of its script.
Progress(p) ==
  LET c == call[p]
      n == Len(Script[c.op])
  IN
  /\ at[p] \in 1..n
  /\ at[p] = 1 => held[p] = "none"
  /\ at[p] > 1 =>
       /\ held[p] = "update" /\ read[p] = credits[c.user]
       /\ read[p] + c.delta >= 0
       /\ \A q \in Rivals(p) : held[q] = "none"
  /\ "job" \in wrote[p] <=> c.op = "reserve" /\ at[p] > 2
  /\ "row" \in wrote[p] => at[p] >= n - 1 /\ ~Booked(ledger, c.reason, c.reference)
  /\ "balance" \in wrote[p] => at[p] = n
  /\ at[p] = n - 1 => "row" \in wrote[p]
  /\ at[p] = n => ("row" \in wrote[p] <=> "balance" \in wrote[p])
  /\ at[p] = n /\ c.op = "reserve" => ("row" \in wrote[p] <=> c.delta # 0)
  /\ c.op = "reserve" /\ at[p] \in {3, 4} => c.delta # 0

CallOK(p) ==
  IF call[p] = NoCall THEN held[p] = "none" /\ wrote[p] = {} /\ at[p] = 1
                      ELSE Args(p) /\ Progress(p)

\* The books are in order and every call is where its script says it is.
LedgerInv == TypeOK /\ AccountInv /\ \A p \in Calls : CallOK(p)

\* Every committed state is one the indivisible account can be in, and every
\* commit one of its movements.
ImplementsAccount == AccountSpec

\* Every call is answered: none waits forever on a lock another one holds
\* (the lock-upgrade deadlock lockUserCredits is documented to avoid).
EveryCallReturns == \A p \in Calls : call[p] # NoCall ~> call[p] = NoCall
=============================================================================
