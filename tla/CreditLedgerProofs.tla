------------------------- MODULE CreditLedgerProofs -------------------------
(***************************************************************************)
(* Concurrent, interruptible transactions implement the indivisible        *)
(* account, for any number of calls, accounts, jobs and references, so     *)
(* every bookkeeping invariant of CreditAccount holds of them.             *)
(***************************************************************************)
EXTENDS CreditLedger, CreditAccountProofs

\* Where each statement stands in the script of an operation.
LEMMA ScriptAt ==
  ASSUME NEW op \in Ops
  PROVE  LET n == Len(Script[op]) IN
         /\ n = (IF op = "reserve" THEN 5 ELSE 4)
         /\ \A i \in 1..n :
              /\ Script[op][i] = "lock" <=> i = 1
              /\ Script[op][i] = "insertJob" <=> op = "reserve" /\ i = 2
              /\ Script[op][i] = "insertLedger" <=> i = n - 2
              /\ Script[op][i] = "updateUser" <=> i = n - 1
              /\ Script[op][i] = "commit" <=> i = n
<1>1. CASE op = "grant"
  BY <1>1 DEF Script
<1>2. CASE op = "refund"
  BY <1>2 DEF Script
<1>3. CASE op = "reserve"
  BY <1>3 DEF Script
<1>4. QED BY <1>1, <1>2, <1>3 DEF Ops

\* A statement that is not the COMMIT has one after it.
LEMMA ScriptGoesOn ==
  ASSUME NEW op \in Ops, NEW i \in 1..Len(Script[op])
  PROVE  /\ Len(Script[op]) \in {4, 5}
         /\ Script[op][i] # "commit" => i + 1 \in 1..5
<1> DEFINE n == Len(Script[op])
<1>1. n = (IF op = "reserve" THEN 5 ELSE 4)
  BY ScriptAt
<1>2. Script[op][i] = "commit" <=> i = n
  BY ScriptAt
<1> HIDE DEF n
<1>3. i \in 1..n
  BY DEF n
<1>4. n \in {4, 5} /\ (i # n => i + 1 \in 1..5)
  BY <1>1, <1>3
<1>5. QED BY <1>2, <1>4 DEF n

\* What LedgerInv says of a call in progress, with its arguments typed.
LEMMA CallFacts ==
  ASSUME LedgerInv, NEW p \in Calls, call[p] # NoCall
  PROVE  /\ call[p] \in Call /\ call[p].op \in Ops /\ call[p].user \in Users
         /\ call[p].delta \in Int /\ call[p].reason \in Reasons
         /\ call[p].reference \in References
         /\ Args(p) /\ Progress(p)
         /\ read[p] \in Nat /\ at[p] \in 1..5
         /\ credits[call[p].user] \in Nat
<1>1. call[p] \in Call
  BY DEF LedgerInv, TypeOK
<1>2. QED BY <1>1 DEF LedgerInv, CallOK, TypeOK, TablesOK, Call

\* A charge for a job is never in the ledger before the job exists.
LEMMA FreshJobUncharged ==
  ASSUME AccountInv, NEW j \in JobIds, jobs[j] = NoJob
  PROVE  ~Booked(ledger, "job_reserve", j)
  BY ChargedJobExists DEF AccountInv, Booked

-----------------------------------------------------------------------------
\* The commit of a call is the movement it was made for, or changes nothing.
LEMMA CommitMoves ==
  ASSUME LedgerInv, NEW p \in Calls, Commit(p)
  PROVE  AccountNext \/ UNCHANGED tables
<1> DEFINE c == call[p]
           n == Len(Script[c.op])
<1>1. /\ c \in Call /\ c.op \in Ops /\ c.user \in Users /\ c.delta \in Int
      /\ Args(p) /\ Progress(p) /\ read[p] \in Nat
  BY CallFacts DEF Commit, At
<1>2. at[p] = n /\ (n = IF c.op = "reserve" THEN 5 ELSE 4)
  <2>1. at[p] \in 1..n
    BY <1>1 DEF Progress
  <2>2. QED BY <1>1, <2>1, ScriptAt DEF Commit, At
<1>3. /\ read[p] = credits[c.user] /\ read[p] + c.delta >= 0
      /\ "job" \in wrote[p] <=> c.op = "reserve"
      /\ "row" \in wrote[p] <=> "balance" \in wrote[p]
      /\ c.op = "reserve" => ("row" \in wrote[p] <=> c.delta # 0)
      /\ "row" \in wrote[p] => ~Booked(ledger, c.reason, c.reference)
  BY <1>1, <1>2 DEF Progress
<1>4. "row" \in wrote[p] => Move(c.user, c.delta, c.reason, c.reference)
  BY <1>1, <1>3 DEF Commit, Move, TablesOK
<1>5. "row" \notin wrote[p] => credits' = credits /\ ledger' = ledger
  BY <1>3 DEF Commit
<1>6. CASE c.op = "grant"
  <2>1. c.reference \in Refs /\ c.delta \in Amounts /\ jobs' = jobs
    BY <1>1, <1>3, <1>6 DEF Args, Commit
  <2>2. "row" \in wrote[p] => Grant(c.reference, c.delta)
    BY <1>1, <1>4, <1>6, <2>1 DEF Args, Grant
  <2>3. QED BY <1>5, <2>1, <2>2 DEF AccountNext, tables
<1>7. CASE c.op = "refund"
  <2>1. /\ c.reference \in JobIds /\ c.delta > 0 /\ jobs' = jobs
        /\ c.reason = "job_refund"
        /\ jobs[c.reference] = [user |-> c.user, spent |-> c.delta]
    BY <1>1, <1>3, <1>7 DEF Args, Commit
  <2>2. jobs[c.reference] # NoJob
    BY <1>1, <2>1, RowsAssumption DEF JobRow
  <2>3. "row" \in wrote[p] => Refund(c.reference)
    BY <1>4, <2>1, <2>2 DEF Refund
  <2>4. QED BY <1>5, <2>1, <2>3 DEF AccountNext, tables
<1>8. CASE c.op = "reserve"
  <2>1. /\ c.reference \in JobIds /\ -c.delta \in Costs /\ c.reason = "job_reserve"
        /\ jobs[c.reference] = NoJob
        /\ jobs' = [jobs EXCEPT ![c.reference] = [user |-> c.user, spent |-> -c.delta]]
    BY <1>1, <1>3, <1>8 DEF Args, Commit
  <2>2. -c.delta <= credits[c.user] /\ -(-c.delta) = c.delta
        /\ (-c.delta = 0 <=> c.delta = 0)
    BY <1>1, <1>3
  <2>3. Reserve(c.user, c.reference, -c.delta)
    <3>1. CASE c.delta = 0
      BY <1>3, <1>5, <1>8, <2>1, <2>2, <3>1 DEF Reserve
    <3>2. CASE c.delta # 0
      BY <1>3, <1>4, <1>8, <2>1, <2>2, <3>2 DEF Reserve
    <3>3. QED BY <3>1, <3>2
  <2>4. QED BY <1>1, <2>1, <2>3 DEF AccountNext
<1>9. QED BY <1>1, <1>6, <1>7, <1>8 DEF Ops

\* Every step is a movement of the account or leaves its tables alone.
LEMMA StepMoves == LedgerInv /\ [Next]_vars => [AccountNext]_tables
<1> SUFFICES ASSUME LedgerInv, [Next]_vars PROVE [AccountNext]_tables
  OBVIOUS
<1>1. ASSUME NEW p \in Calls, Commit(p) PROVE [AccountNext]_tables
  BY <1>1, CommitMoves
<1>2. ASSUME NEW p \in Calls, Start(p) PROVE UNCHANGED tables
  BY <1>2 DEF Start, BeginGrant, BeginReserve, BeginRefund, Begin
<1>3. ASSUME NEW p \in Calls,
             Lock(p) \/ LockRefused(p) \/ InsertJob(p) \/ InsertLedger(p)
               \/ UpdateUser(p) \/ Rollback(p)
      PROVE  UNCHANGED tables
  BY <1>3 DEF Lock, LockRefused, InsertJob, InsertLedger, UpdateUser, Rollback
<1>4. CASE UNCHANGED vars
  BY <1>4 DEF vars, tables
<1>5. QED BY <1>1, <1>2, <1>3, <1>4 DEF Next, Statement

-----------------------------------------------------------------------------
\* TypeOK is kept by every step.
LEMMA StepTyped == LedgerInv /\ [Next]_vars => TypeOK'
<1> SUFFICES ASSUME LedgerInv, [Next]_vars PROVE TypeOK'
  OBVIOUS
<1>1. TypeOK /\ AccountInv' /\ TablesOK'
  BY StepMoves, AccountNextInv DEF LedgerInv, AccountInv
<1>2. ASSUME NEW p \in Calls, Start(p) PROVE TypeOK'
  <2>1. ASSUME NEW c \in Call, Begin(p, c) PROVE TypeOK'
    BY <1>1, <2>1 DEF Begin, TypeOK
  <2>2. ASSUME NEW r \in Refs, NEW amount \in Amounts, BeginGrant(p, r, amount)
        PROVE TypeOK'
    BY <2>1, <2>2, RowsAssumption DEF BeginGrant, Call, Ops, Reasons, References
  <2>3. ASSUME NEW u \in Users, NEW j \in JobIds, NEW cost \in Costs,
               BeginReserve(p, u, j, cost)
        PROVE TypeOK'
    BY <2>1, <2>3, RowsAssumption DEF BeginReserve, Call, Ops, Reasons, References
  <2>4. ASSUME NEW j \in JobIds, BeginRefund(p, j) PROVE TypeOK'
    <3>1. jobs[j] \in JobRow
      BY <1>1, <2>4 DEF BeginRefund, TypeOK, TablesOK
    <3>2. QED
      BY <2>1, <2>4, <3>1 DEF BeginRefund, Call, Ops, Reasons, References, JobRow
  <2>5. QED BY <1>2, <2>2, <2>3, <2>4 DEF Start
<1>3. ASSUME NEW p \in Calls, End(p) PROVE TypeOK'
  BY <1>1, <1>3 DEF End, TypeOK
<1>4. ASSUME NEW p \in Calls, call[p] # NoCall
      PROVE  /\ call[p].op \in Ops /\ call[p].user \in Users /\ credits[call[p].user] \in Nat
             /\ at[p] \in 1..Len(Script[call[p].op])
             /\ Len(Script[call[p].op]) \in {4, 5}
             /\ Script[call[p].op][at[p]] # "commit" => at[p] + 1 \in 1..5
  <2>1. /\ call[p].op \in Ops /\ call[p].user \in Users /\ credits[call[p].user] \in Nat
        /\ at[p] \in 1..Len(Script[call[p].op])
    BY <1>4, CallFacts DEF Progress
  <2>2. QED BY <2>1, ScriptGoesOn
<1>5. ASSUME NEW p \in Calls, Lock(p) PROVE TypeOK'
  <2>1. at[p] + 1 \in 1..5 /\ credits[call[p].user] \in Nat
    BY <1>4, <1>5 DEF Lock, At
  <2>2. QED BY <1>1, <1>5, <2>1 DEF Lock, Advance, TypeOK
<1>6. ASSUME NEW p \in Calls, InsertJob(p) \/ InsertLedger(p) \/ UpdateUser(p)
      PROVE  TypeOK'
  <2>1. at[p] + 1 \in 1..5 /\ Len(Script[call[p].op]) \in 1..5
    BY <1>4, <1>6 DEF InsertJob, InsertLedger, UpdateUser, At
  <2>2. at' \in [Calls -> 1..5] /\ wrote' \in [Calls -> SUBSET {"job", "row", "balance"}]
    <3>1. ASSUME NEW effect \in SUBSET {"job", "row", "balance"},
                 Advance(p, effect) \/ SkipToCommit(p, effect)
          PROVE  at' \in [Calls -> 1..5] /\ wrote' \in [Calls -> SUBSET {"job", "row", "balance"}]
      <4>1. PICK i \in 1..5 : at' = [at EXCEPT ![p] = i]
        BY <2>1, <3>1 DEF Advance, SkipToCommit
      <4>2. at' \in [Calls -> 1..5]
        BY <1>1, <4>1 DEF TypeOK
      <4>3. wrote' = [wrote EXCEPT ![p] = @ \cup effect]
        BY <3>1 DEF Advance, SkipToCommit
      <4>4. wrote' \in [Calls -> SUBSET {"job", "row", "balance"}]
        BY <1>1, <3>1, <4>3 DEF TypeOK
      <4>5. QED BY <4>2, <4>4
    <3>2. CASE InsertJob(p)
      <4>1. Advance(p, {"job"}) \/ SkipToCommit(p, {"job"})
        BY <3>2 DEF InsertJob
      <4>2. {"job"} \in SUBSET {"job", "row", "balance"}
        OBVIOUS
      <4>3. QED BY <3>1, <4>1, <4>2
    <3>3. CASE InsertLedger(p)
      <4>1. SkipToCommit(p, {}) \/ Advance(p, {"row"})
        BY <3>3 DEF InsertLedger
      <4>2. {} \in SUBSET {"job", "row", "balance"} /\ {"row"} \in SUBSET {"job", "row", "balance"}
        OBVIOUS
      <4>3. QED BY <3>1, <4>1, <4>2
    <3>4. CASE UpdateUser(p)
      <4>1. Advance(p, {"balance"})
        BY <3>4 DEF UpdateUser
      <4>2. {"balance"} \in SUBSET {"job", "row", "balance"}
        OBVIOUS
      <4>3. QED BY <3>1, <4>1, <4>2
    <3>5. QED BY <1>6, <3>2, <3>3, <3>4
  <2>3. held' \in [Calls -> {"none", "keyShare", "update"}]
    BY <1>1, <1>6 DEF InsertJob, InsertLedger, UpdateUser, Share, TypeOK
  <2>4. call' = call /\ read' = read
    BY <1>6 DEF InsertJob, InsertLedger, UpdateUser
  <2>5. QED BY <1>1, <2>2, <2>3, <2>4 DEF TypeOK
<1>7. CASE UNCHANGED vars
  BY <1>1, <1>7 DEF vars, TypeOK
<1>8. QED
  BY <1>2, <1>3, <1>5, <1>6, <1>7 DEF Next, Statement, Commit, Rollback, LockRefused

\* A call q other than the one taking the step stays where its script says,
\* if the step leaves alone what q depends on: its job, the balance it holds
\* and the uniqueness of the row it wrote, its lock and its fresh job id.
LEMMA BystanderOK ==
  ASSUME LedgerInv, NEW p \in Calls, NEW q \in Calls \ {p},
         \A x \in Calls \ {p} :
           /\ call'[x] = call[x] /\ at'[x] = at[x] /\ held'[x] = held[x]
           /\ read'[x] = read[x] /\ wrote'[x] = wrote[x],
         call[q] # NoCall /\ call[q].op # "grant" =>
           jobs'[call[q].reference] = jobs[call[q].reference],
         call[q] # NoCall /\ at[q] > 1 => credits'[call[q].user] = credits[call[q].user],
         call[q] # NoCall /\ "row" \in wrote[q] =>
           ~Booked(ledger', call[q].reason, call[q].reference),
         call[q] # NoCall /\ at[q] > 1 /\ call'[p] # NoCall
           /\ call'[p].user = call[q].user => held'[p] = "none",
         call[q] # NoCall /\ call[q].op = "reserve" /\ call'[p] # NoCall
           /\ call'[p].op = "reserve" => call'[p].reference # call[q].reference
  PROVE  CallOK(q)'
<1>1. CASE call[q] = NoCall
  BY <1>1 DEF LedgerInv, CallOK
<1>2. CASE call[q] # NoCall
  <2>1. Args(q) /\ Progress(q) /\ call[q].op \in Ops
    BY <1>2, CallFacts
  <2>2. ASSUME NEW x \in Calls \ {q}, call[q].op = "reserve",
               call'[x] # NoCall, call'[x].op = "reserve"
        PROVE  call'[x].reference # call[q].reference
    <3>1. CASE x = p
      BY <1>2, <2>2, <3>1
    <3>2. CASE x # p
      BY <1>2, <2>1, <2>2, <3>2 DEF Args
    <3>3. QED BY <3>1, <3>2
  <2>3. Args(q)'
    BY <1>2, <2>1, <2>2 DEF Args, Ops
  <2>4. at[q] > 1 => \A x \in Rivals(q)' : held'[x] = "none"
    <3> SUFFICES ASSUME at[q] > 1, NEW x \in Calls \ {q}, call'[x] # NoCall,
                        call'[x].user = call[q].user
                 PROVE  held'[x] = "none"
      BY DEF Rivals
    <3>1. \A y \in Rivals(q) : held[y] = "none"
      BY <2>1 DEF Progress
    <3>2. CASE x # p
      BY <3>1, <3>2 DEF Rivals
    <3>3. CASE x = p
      BY <1>2, <3>3
    <3>4. QED BY <3>2, <3>3
  <2>5. Progress(q)'
    BY <2>1, <2>4, <1>2 DEF Progress
  <2>6. QED BY <1>2, <2>3, <2>5 DEF CallOK
<1>3. QED BY <1>1, <1>2

-----------------------------------------------------------------------------
\* Beginning a call disturbs no other: it holds no lock and names no job that
\* another reserve is creating.
LEMMA BeginInv ==
  ASSUME LedgerInv, NEW p \in Calls, Start(p), TypeOK'
  PROVE  \A q \in Calls : CallOK(q)'
<1>1. PICK c \in Call :
        /\ Begin(p, c)
        /\ c.op = "grant" => /\ c.reference \in Refs /\ c.user = Owner[c.reference]
                             /\ c.reason = ReasonOf[c.reference] /\ c.delta \in Amounts
        /\ c.op = "refund" =>
             /\ c.reference \in JobIds /\ c.reason = "job_refund" /\ c.delta > 0
             /\ jobs[c.reference] = [user |-> c.user, spent |-> c.delta]
        /\ c.op = "reserve" =>
             /\ c.reference \in JobIds /\ c.reason = "job_reserve" /\ -c.delta \in Costs
             /\ jobs[c.reference] = NoJob
             /\ \A q \in Calls : call[q] # NoCall => call[q].reference # c.reference
  <2>1. ASSUME NEW r \in Refs, NEW amount \in Amounts
        PROVE  [op |-> "grant", user |-> Owner[r], delta |-> amount,
                reason |-> ReasonOf[r], reference |-> r] \in Call
    BY RowsAssumption DEF Call, Ops, Reasons, References
  <2>2. ASSUME NEW u \in Users, NEW j \in JobIds, NEW cost \in Costs
        PROVE  /\ [op |-> "reserve", user |-> u, delta |-> -cost,
                   reason |-> "job_reserve", reference |-> j] \in Call
               /\ -(-cost) = cost
    BY RowsAssumption DEF Call, Ops, Reasons, References
  <2>3. ASSUME NEW j \in JobIds, BeginRefund(p, j)
        PROVE  /\ [op |-> "refund", user |-> jobs[j].user, delta |-> jobs[j].spent,
                   reason |-> "job_refund", reference |-> j] \in Call
               /\ jobs[j] = [user |-> jobs[j].user, spent |-> jobs[j].spent]
    <3>1. jobs[j] \in JobRow
      BY <2>3 DEF BeginRefund, LedgerInv, TypeOK, TablesOK
    <3>2. QED BY <3>1 DEF Call, Ops, Reasons, References, JobRow
  <2>4. CASE \E r \in Refs, amount \in Amounts : BeginGrant(p, r, amount)
    BY <2>1, <2>4 DEF BeginGrant
  <2>5. CASE \E u \in Users, j \in JobIds, cost \in Costs : BeginReserve(p, u, j, cost)
    BY <2>2, <2>5 DEF BeginReserve
  <2>6. CASE \E j \in JobIds : BeginRefund(p, j)
    BY <2>3, <2>6 DEF BeginRefund
  <2>7. QED BY <2>4, <2>5, <2>6 DEF Start
<1>2. /\ UNCHANGED tables /\ call[p] = NoCall /\ call'[p] = c /\ c # NoCall
      /\ at'[p] = 1 /\ held'[p] = "none" /\ wrote'[p] = {}
      /\ \A x \in Calls \ {p} :
           /\ call'[x] = call[x] /\ at'[x] = at[x] /\ held'[x] = held[x]
           /\ read'[x] = read[x] /\ wrote'[x] = wrote[x]
  BY <1>1, CallsAssumption DEF Begin, LedgerInv, TypeOK, CallOK
<1>3. ASSUME NEW q \in Calls \ {p} PROVE CallOK(q)'
  <2>1. credits' = credits /\ ledger' = ledger /\ jobs' = jobs
    BY <1>2 DEF tables
  <2>2. call[q] # NoCall /\ "row" \in wrote[q] =>
          ~Booked(ledger, call[q].reason, call[q].reference)
    BY CallFacts DEF Progress
  <2>3. QED BY <1>1, <1>2, <2>1, <2>2, BystanderOK
<1>4. CallOK(p)'
  <2>1. c.op \in Ops
    BY DEF Call
  <2>2. Args(p)'
    BY <1>1, <1>2, <2>1 DEF Args, tables, Ops
  <2>3. Progress(p)'
    BY <1>2, <2>1, ScriptAt DEF Progress
  <2>4. QED BY <1>2, <2>2, <2>3 DEF CallOK
<1>5. QED BY <1>3, <1>4

\* A statement before COMMIT touches no table and no lock but its own, and a
\* lock is only granted when no rival has one.
LEMMA StatementInv ==
  ASSUME LedgerInv, NEW p \in Calls, TypeOK',
         Lock(p) \/ InsertJob(p) \/ InsertLedger(p) \/ UpdateUser(p)
  PROVE  \A q \in Calls : CallOK(q)'
<1> DEFINE c == call[p]
           n == Len(Script[c.op])
<1>1. /\ c # NoCall /\ UNCHANGED tables /\ call' = call
      /\ \A x \in Calls \ {p} :
           /\ at'[x] = at[x] /\ held'[x] = held[x]
           /\ read'[x] = read[x] /\ wrote'[x] = wrote[x]
  BY DEF Lock, InsertJob, InsertLedger, UpdateUser, At, Advance, SkipToCommit, Share,
         LedgerInv, TypeOK
<1>2. /\ c \in Call /\ c.op \in Ops /\ c.user \in Users /\ c.delta \in Int
      /\ Args(p) /\ Progress(p) /\ read[p] \in Nat
      /\ credits[c.user] \in Nat /\ at[p] \in 1..n
  BY <1>1, CallFacts DEF Progress
<1>3. credits' = credits /\ ledger' = ledger /\ jobs' = jobs
  BY <1>1 DEF tables
<1>4. /\ n = (IF c.op = "reserve" THEN 5 ELSE 4)
      /\ Lock(p) => at[p] = 1
      /\ InsertJob(p) => c.op = "reserve" /\ at[p] = 2
      /\ InsertLedger(p) => at[p] = n - 2
      /\ UpdateUser(p) => at[p] = n - 1
  BY <1>2, ScriptAt DEF Lock, InsertJob, InsertLedger, UpdateUser, At
<1>5. ASSUME NEW q \in Calls \ {p} PROVE CallOK(q)'
  <2>1. call[q] # NoCall => Args(q) /\ Progress(q)
    BY CallFacts
  <2>2. ASSUME call[q] # NoCall, at[q] > 1, c.user = call[q].user
        PROVE  held'[p] = "none"
    <3>1. p \in Rivals(q) /\ q \in Rivals(p) /\ held[q] = "update" /\ held[p] = "none"
      BY <1>1, <2>1, <2>2 DEF Rivals, Progress
    <3>2. ~Lock(p)
      BY <3>1 DEF Lock, CanLock
    <3>3. at[p] = 1
      BY <1>2, <3>1 DEF Progress
    <3>4. QED BY <1>4, <1>2, <3>2, <3>3
  <2>3. call[q] # NoCall /\ "row" \in wrote[q] =>
          ~Booked(ledger, call[q].reason, call[q].reference)
    BY <2>1 DEF Progress
  <2>4. call[q] # NoCall /\ call[q].op = "reserve" /\ c.op = "reserve" =>
          c.reference # call[q].reference
    BY <1>1, <1>2 DEF Args
  <2>5. QED BY <1>1, <1>3, <2>2, <2>3, <2>4, BystanderOK
<1>6. Args(p)'
  BY <1>1, <1>2, <1>3 DEF Args
<1>7. Progress(p)'
  <2>1. CASE Lock(p)
    <3>1. /\ at'[p] = 2 /\ held'[p] = "update" /\ read'[p] = credits[c.user]
          /\ wrote'[p] = wrote[p] /\ \A x \in Rivals(p) : held[x] = "none"
      BY <1>4, <2>1 DEF Lock, Advance, CanLock, LedgerInv, TypeOK
    <3>2. "job" \notin wrote[p] /\ "row" \notin wrote[p] /\ "balance" \notin wrote[p]
      BY <1>2, <1>4, <2>1 DEF Progress
    <3>3. credits[c.user] + c.delta >= 0
      <4>1. c.op # "reserve" => c.delta \in Nat
        BY <1>2, RowsAssumption DEF Args, Ops
      <4>2. QED BY <1>2, <2>1, <4>1 DEF Lock, Affordable
    <3>4. \A x \in Rivals(p)' : held'[x] = "none"
      BY <1>1, <3>1 DEF Rivals
    <3>5. QED BY <1>1, <1>2, <1>3, <1>4, <3>1, <3>2, <3>3, <3>4 DEF Progress
  <2>2. CASE InsertJob(p) \/ InsertLedger(p) \/ UpdateUser(p)
    <3>1. /\ at[p] > 1 /\ held[p] = "update" /\ read[p] = credits[c.user]
          /\ read[p] + c.delta >= 0 /\ \A x \in Rivals(p) : held[x] = "none"
      BY <1>2, <1>4, <2>2 DEF Progress
    <3>2. held'[p] = "update" /\ read'[p] = read[p]
      BY <2>2, <3>1 DEF InsertJob, InsertLedger, UpdateUser, Share, LedgerInv, TypeOK
    <3>3. \A x \in Rivals(p)' : held'[x] = "none"
      BY <1>1, <3>1 DEF Rivals
    <3>4. CASE InsertJob(p)
      <4>1. /\ at[p] = 2 /\ wrote'[p] = wrote[p] \cup {"job"}
            /\ at'[p] = (IF c.delta = 0 THEN 5 ELSE 3)
            /\ "row" \notin wrote[p] /\ "balance" \notin wrote[p]
        BY <1>2, <1>4, <3>4 DEF InsertJob, Advance, SkipToCommit, Progress, LedgerInv, TypeOK
      <4>2. QED BY <1>1, <1>2, <1>3, <1>4, <3>1, <3>2, <3>3, <3>4, <4>1 DEF Progress
    <3>5. CASE InsertLedger(p)
      <4>1. /\ at[p] = n - 2 /\ "row" \notin wrote[p] /\ "balance" \notin wrote[p]
            /\ "job" \in wrote[p] <=> c.op = "reserve"
        BY <1>2, <1>4, <3>5 DEF Progress
      <4>2. CASE Booked(ledger, c.reason, c.reference)
        <5>1. c.op # "reserve"
          BY <1>2, <4>2, FreshJobUncharged DEF Args, LedgerInv
        <5>2. at'[p] = n /\ wrote'[p] = wrote[p]
          BY <3>5, <4>2 DEF InsertLedger, SkipToCommit, LedgerInv, TypeOK
        <5>3. QED BY <1>1, <1>2, <1>3, <1>4, <3>1, <3>2, <3>3, <4>1, <5>1, <5>2 DEF Progress
      <4>3. CASE ~Booked(ledger, c.reason, c.reference)
        <5>1. at'[p] = n - 1 /\ wrote'[p] = wrote[p] \cup {"row"}
          BY <1>2, <1>4, <3>5, <4>1, <4>3 DEF InsertLedger, Advance, LedgerInv, TypeOK
        <5>2. c.op = "reserve" => c.delta # 0
          BY <1>2, <1>4, <4>1 DEF Progress
        <5>3. QED
          BY <1>1, <1>2, <1>3, <1>4, <3>1, <3>2, <3>3, <4>1, <4>3, <5>1, <5>2 DEF Progress
      <4>4. QED BY <4>2, <4>3
    <3>6. CASE UpdateUser(p)
      <4>1. at[p] = n - 1 /\ at'[p] = n /\ wrote'[p] = wrote[p] \cup {"balance"}
        BY <1>2, <1>4, <3>6 DEF UpdateUser, Advance, LedgerInv, TypeOK
      <4>2. /\ "row" \in wrote[p] /\ ~Booked(ledger, c.reason, c.reference)
            /\ "job" \in wrote[p] <=> c.op = "reserve"
            /\ c.op = "reserve" => c.delta # 0
        BY <1>2, <1>4, <4>1 DEF Progress
      <4>3. QED BY <1>1, <1>2, <1>3, <1>4, <3>1, <3>2, <3>3, <4>1, <4>2 DEF Progress
    <3>7. QED BY <2>2, <3>4, <3>5, <3>6
  <2>3. QED BY <2>1, <2>2
<1>8. QED BY <1>1, <1>5, <1>6, <1>7 DEF CallOK

-----------------------------------------------------------------------------
\* Two calls that would write the same (reason, reference) are calls for the
\* same account, so one lock serialises them.
LEMMA SameReferenceSameUser ==
  ASSUME LedgerInv, NEW p \in Calls, NEW q \in Calls \ {p},
         call[p] # NoCall, call[q] # NoCall,
         call[p].reason = call[q].reason, call[p].reference = call[q].reference
  PROVE  call[p].user = call[q].user
<1>1. Args(p) /\ Args(q) /\ call[p].op \in Ops /\ call[q].op \in Ops
  BY CallFacts
<1>2. \A r \in Refs : ReasonOf[r] # "job_reserve" /\ ReasonOf[r] # "job_refund"
  BY RowsAssumption DEF GrantReasons
<1>3. CASE call[p].op = "grant"
  BY <1>1, <1>2, <1>3 DEF Args, Ops
<1>4. CASE call[p].op = "reserve"
  BY <1>1, <1>2, <1>4 DEF Args, Ops
<1>5. CASE call[p].op = "refund"
  <2>1. call[q].op = "refund"
    BY <1>1, <1>2, <1>5 DEF Args, Ops
  <2>2. /\ jobs[call[p].reference].user = call[p].user
        /\ jobs[call[q].reference].user = call[q].user
    BY <1>1, <1>5, <2>1 DEF Args
  <2>3. QED BY <2>2
<1>6. QED BY <1>1, <1>3, <1>4, <1>5 DEF Ops

\* What a COMMIT makes visible is confined to its own account, job and row.
LEMMA CommitConfined ==
  ASSUME LedgerInv, NEW p \in Calls, Commit(p)
  PROVE  /\ call[p] # NoCall
         /\ \A u \in Users \ {call[p].user} :
              credits'[u] = credits[u] /\ ledger'[u] = ledger[u]
         /\ \A j \in JobIds : jobs'[j] # jobs[j] =>
              call[p].op = "reserve" /\ j = call[p].reference
         /\ \A reason, reference :
              Booked(ledger', reason, reference) /\ ~Booked(ledger, reason, reference)
                => reason = call[p].reason /\ reference = call[p].reference
         /\ held[p] = "update"
<1> DEFINE c == call[p]
           row == RowFor(read[p], c.delta, c.reason, c.reference)
<1>1. /\ c # NoCall /\ c \in Call /\ c.op \in Ops /\ c.user \in Users /\ c.delta \in Int
      /\ c.reason \in Reasons /\ c.reference \in References
      /\ Args(p) /\ Progress(p) /\ read[p] \in Nat /\ at[p] \in 1..Len(Script[c.op])
  BY CallFacts DEF Commit, At, Progress
<1>2. at[p] = Len(Script[c.op]) /\ Len(Script[c.op]) \in {4, 5}
  BY <1>1, ScriptAt DEF Commit, At
<1>3. held[p] = "update" /\ ("job" \in wrote[p] => c.op = "reserve")
  <2> DEFINE n == Len(Script[c.op])
  <2>1. at[p] = n /\ n \in {4, 5}
    BY <1>2
  <2> HIDE DEF n
  <2>2. at[p] > 1
    BY <2>1
  <2>3. QED BY <1>1, <2>2 DEF Progress
<1>4. \A u \in Users \ {c.user} : credits'[u] = credits[u] /\ ledger'[u] = ledger[u]
  BY <1>1 DEF Commit, LedgerInv, TypeOK, TablesOK
<1>5. \A j \in JobIds : jobs'[j] # jobs[j] => c.op = "reserve" /\ j = c.reference
  BY <1>1, <1>3 DEF Commit, LedgerInv, TypeOK, TablesOK
<1>6. ASSUME NEW reason, NEW reference,
             Booked(ledger', reason, reference), ~Booked(ledger, reason, reference)
      PROVE  reason = c.reason /\ reference = c.reference
  <2>1. PICK u \in Users : \E i \in DOMAIN ledger'[u] :
          ledger'[u][i].reason = reason /\ ledger'[u][i].reference = reference
    BY <1>6 DEF Booked
  <2>2. ~\E i \in DOMAIN ledger[u] :
          ledger[u][i].reason = reason /\ ledger[u][i].reference = reference
    BY <1>6 DEF Booked
  <2>3. u = c.user /\ ledger'[u] = Append(ledger[u], row)
    <3>1. ledger'[u] # ledger[u]
      BY <2>1, <2>2
    <3>2. QED BY <1>1, <1>4, <3>1 DEF Commit, LedgerInv, TypeOK, TablesOK
  <2>4. ledger[u] \in Seq(Row) /\ row \in Row
    <3>1. read[p] + c.delta \in Int
      BY <1>1
    <3>2. row \in Row
      BY <1>1, <3>1 DEF Row, RowFor
    <3>3. QED BY <3>2 DEF LedgerInv, TypeOK, TablesOK
  <2>5. row.reason = c.reason /\ row.reference = c.reference
    BY DEF RowFor
  <2> HIDE DEF row, c
  <2>6. PICK i \in DOMAIN ledger'[u] :
          ledger'[u][i].reason = reason /\ ledger'[u][i].reference = reference
    BY <2>1
  <2>7. \/ i \in DOMAIN ledger[u] /\ ledger'[u][i] = ledger[u][i]
        \/ ledger'[u][i] = row
    BY <2>3, <2>4, <2>6, AppendedRow
  <2>8. QED BY <2>2, <2>5, <2>6, <2>7
<1>7. QED BY <1>1, <1>3, <1>4, <1>5, <1>6

\* The end of a call, committed or rolled back, disturbs no other.
LEMMA EndInv ==
  ASSUME LedgerInv, NEW p \in Calls, Commit(p) \/ Rollback(p)
  PROVE  \A q \in Calls : CallOK(q)'
<1>1. /\ call'[p] = NoCall /\ at'[p] = 1 /\ held'[p] = "none" /\ wrote'[p] = {}
      /\ \A x \in Calls \ {p} :
           /\ call'[x] = call[x] /\ at'[x] = at[x] /\ held'[x] = held[x]
           /\ read'[x] = read[x] /\ wrote'[x] = wrote[x]
  BY DEF Commit, Rollback, End, LedgerInv, TypeOK
<1>2. CallOK(p)'
  BY <1>1 DEF CallOK
<1>3. ASSUME NEW q \in Calls \ {p}, call[q] # NoCall PROVE CallOK(q)'
  <2>1. Args(q) /\ Progress(q) /\ call[q].user \in Users /\ call[q].op \in Ops
    BY <1>3, CallFacts
  <2>2. "row" \in wrote[q] => at[q] > 1 /\ ~Booked(ledger, call[q].reason, call[q].reference)
    <3> DEFINE n == Len(Script[call[q].op])
    <3>1. n \in {4, 5}
      BY <2>1, ScriptAt
    <3>2. "row" \in wrote[q] =>
            at[q] >= n - 1 /\ ~Booked(ledger, call[q].reason, call[q].reference)
      BY <2>1 DEF Progress
    <3>3. at[q] \in 1..n
      BY <2>1 DEF Progress
    <3> HIDE DEF n
    <3>4. QED BY <3>1, <3>2, <3>3
  <2>3. CASE Rollback(p)
    <3>1. credits' = credits /\ ledger' = ledger /\ jobs' = jobs
      BY <2>3 DEF Rollback, tables
    <3>2. QED BY <1>1, <1>3, <2>2, <3>1, BystanderOK
  <2>4. CASE Commit(p)
    <3>1. call[p] # NoCall /\ held[p] = "update"
      BY <2>4, CommitConfined
    <3>2. at[q] > 1 => call[p].user # call[q].user
      BY <1>3, <2>1, <3>1 DEF Progress, Rivals
    <3>3. at[q] > 1 => credits'[call[q].user] = credits[call[q].user]
      BY <2>1, <2>4, <3>2, CommitConfined
    <3>4. "row" \in wrote[q] => ~Booked(ledger', call[q].reason, call[q].reference)
      BY <1>3, <2>2, <2>4, <3>1, <3>2, CommitConfined, SameReferenceSameUser
    <3>5. call[q].op # "grant" =>
            jobs'[call[q].reference] = jobs[call[q].reference]
      <4> SUFFICES ASSUME call[q].op # "grant"
                   PROVE  jobs'[call[q].reference] = jobs[call[q].reference]
        OBVIOUS
      <4>1. call[q].reference \in JobIds
        BY <2>1 DEF Args, Ops
      <4>2. CASE call[q].op = "reserve"
        <5>1. call[p].op = "reserve" => call[p].reference # call[q].reference
          BY <2>1, <3>1, <4>2 DEF Args
        <5>2. QED BY <2>4, <4>1, <5>1, CommitConfined
      <4>3. CASE call[q].op = "refund"
        <5>1. jobs[call[q].reference] # NoJob
          BY <2>1, <4>3, RowsAssumption, CallFacts, <1>3 DEF Args, JobRow
        <5>2. call[p].op = "reserve" => call[p].reference # call[q].reference
          BY <3>1, <5>1, CallFacts DEF Args
        <5>3. QED BY <2>4, <4>1, <5>2, CommitConfined
      <4>4. QED BY <2>1, <4>2, <4>3 DEF Ops
    <3>6. QED BY <1>1, <1>3, <3>3, <3>4, <3>5, BystanderOK
  <2>5. QED BY <2>3, <2>4
<1>4. ASSUME NEW q \in Calls \ {p}, call[q] = NoCall PROVE CallOK(q)'
  BY <1>1, <1>4 DEF LedgerInv, CallOK
<1>5. QED BY <1>2, <1>3, <1>4

-----------------------------------------------------------------------------
\* An empty ledger and idle slots satisfy the invariant.
LEMMA InitInv == Init => LedgerInv
  BY AccountInitInv DEF Init, LedgerInv, TypeOK, CallOK, AccountInv

\* Every step of every call keeps the invariant.
LEMMA NextInv == LedgerInv /\ [Next]_vars => LedgerInv'
<1> SUFFICES ASSUME LedgerInv, [Next]_vars PROVE LedgerInv'
  OBVIOUS
<1>1. TypeOK' /\ AccountInv'
  BY StepTyped, StepMoves, AccountNextInv DEF LedgerInv
<1>2. ASSUME NEW p \in Calls, Start(p) PROVE \A q \in Calls : CallOK(q)'
  BY <1>1, <1>2, BeginInv
<1>3. ASSUME NEW p \in Calls, Lock(p) \/ InsertJob(p) \/ InsertLedger(p) \/ UpdateUser(p)
      PROVE  \A q \in Calls : CallOK(q)'
  BY <1>1, <1>3, StatementInv
<1>4. ASSUME NEW p \in Calls, Commit(p) \/ LockRefused(p) \/ Rollback(p)
      PROVE  \A q \in Calls : CallOK(q)'
  BY <1>4, EndInv DEF LockRefused
<1>5. ASSUME UNCHANGED vars PROVE \A q \in Calls : CallOK(q)'
  <2>1. /\ credits' = credits /\ ledger' = ledger /\ jobs' = jobs /\ call' = call
        /\ at' = at /\ held' = held /\ read' = read /\ wrote' = wrote
    BY <1>5 DEF vars
  <2>2. ASSUME NEW q \in Calls, call[q] = NoCall PROVE CallOK(q)'
    BY <2>1, <2>2 DEF LedgerInv, CallOK
  <2>3. ASSUME NEW q \in Calls, call[q] # NoCall PROVE CallOK(q)'
    <3>1. Args(q)' /\ Progress(q)'
      BY <2>1, <2>3, CallFacts DEF Args, Progress, Rivals
    <3>2. QED BY <2>1, <2>3, <3>1 DEF CallOK
  <2>4. QED BY <2>2, <2>3
<1>6. \A q \in Calls : CallOK(q)'
  <2>1. CASE Next
    <3>1. PICK p \in Calls :
            Start(p) \/ Lock(p) \/ LockRefused(p) \/ Statement(p) \/ Rollback(p)
      BY <2>1 DEF Next
    <3>2. QED BY <3>1, <1>2, <1>3, <1>4 DEF Statement
  <2>2. QED BY <1>5, <2>1
<1>7. QED BY <1>1, <1>6 DEF LedgerInv

\* The inductive invariant of the transactions holds of every behaviour: the
\* books are in order in every committed state, and each call in progress is
\* where its script, its lock and what it read say it is.
THEOREM LedgerHolds == Spec => []LedgerInv
  BY InitInv, NextInv, PTL DEF Spec

\* No call goes beyond the statements, locks and values it is made of.
THEOREM LedgerTyped == Spec => []TypeOK
<1>1. LedgerInv => TypeOK
  BY DEF LedgerInv
<1>2. QED BY LedgerHolds, <1>1, PTL

\* lockUserCredits (credits.ts:73): the balance a transaction read under its
\* lock is the balance until it ends, and no other transaction holds a lock.
THEOREM LockedBalanceIsCurrent == Spec => []HolderIsCurrent
<1>1. LedgerInv => HolderIsCurrent
  <2>1. ASSUME LedgerInv, NEW p \in Calls, call[p] # NoCall, held[p] = "update"
        PROVE  read[p] = credits[call[p].user] /\ \A q \in Rivals(p) : held[q] = "none"
    <3>1. Progress(p) /\ at[p] \in 1..5
      BY <2>1, CallFacts
    <3>2. at[p] > 1
      BY <2>1, <3>1 DEF Progress
    <3>3. QED BY <3>1, <3>2 DEF Progress
  <2>2. QED BY <2>1 DEF HolderIsCurrent
<1>2. QED BY LedgerHolds, <1>1, PTL

\* credits.ts, rules 1 to 3 of its header: however calls interleave, fail or
\* are cut off, what is committed is what an account moved in indivisible steps,
\* each changing a balance together with the row that explains it.
THEOREM LedgerImplementsAccount == Spec => ImplementsAccount
<1>1. Init => AccountInit
  BY DEF Init
<1>2. QED BY LedgerHolds, <1>1, StepMoves, PTL DEF Spec, AccountSpec, ImplementsAccount

\* The balance shown to a user is always what the ledger explains.
THEOREM LedgerExplainsBalance == Spec => []BalanceExplained
<1>1. LedgerInv => BalanceExplained
  BY DEF LedgerInv, AccountInv
<1>2. QED BY LedgerHolds, <1>1, PTL

\* A retried or duplicated call moves credit once.
THEOREM LedgerOncePerReference == Spec => []OncePerReference
<1>1. LedgerInv => OncePerReference
  BY DEF LedgerInv, AccountInv
<1>2. QED BY LedgerHolds, <1>1, PTL

\* Jobs and charges appear together, and a refund returns what was charged.
THEOREM LedgerChargesJobs == Spec => [](ChargesMatchJobs /\ JobsAreCharged)
<1>1. LedgerInv => ChargesMatchJobs /\ JobsAreCharged
  BY DEF LedgerInv, AccountInv
<1>2. QED BY LedgerHolds, <1>1, PTL
=============================================================================
