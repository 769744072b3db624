------------------------ MODULE CreditAccountProofs ------------------------
(***************************************************************************)
(* The account keeps its books for any users, prices, grants and jobs:     *)
(* every reachable state satisfies AccountInv, the conjunction of the type *)
(* invariant and the four bookkeeping invariants of CreditAccount.         *)
(***************************************************************************)
EXTENDS CreditAccount, TLAPS

\* Appending a row keeps what was there and adds the row at the end.
LEMMA AppendedRow ==
  ASSUME NEW s \in Seq(Row), NEW row \in Row
  PROVE  /\ Append(s, row) \in Seq(Row)
         /\ DOMAIN s = 1..Len(s)
         /\ Len(s) \in Nat
         /\ DOMAIN Append(s, row) = 1..(Len(s) + 1)
         /\ Len(Append(s, row)) = Len(s) + 1
         /\ \A i \in 1..Len(s) : Append(s, row)[i] = s[i] /\ s[i] \in Row
         /\ Append(s, row)[Len(s) + 1] = row
         /\ Append(s, row) # <<>>
  OBVIOUS

\* What one movement does to the books: one row at the end of one ledger.
LEMMA MoveAppends ==
  ASSUME TablesOK, NEW u \in Users, NEW delta \in Int, NEW reason \in Reasons,
         NEW reference \in References, Move(u, delta, reason, reference)
  PROVE  LET row == RowFor(credits[u], delta, reason, reference)
             n == Len(ledger[u])
         IN
         /\ credits' \in [Users -> Nat]
         /\ ledger' \in [Users -> Seq(Row)]
         /\ credits'[u] = credits[u] + delta
         /\ row \in Row
         /\ n \in Nat
         /\ DOMAIN ledger[u] = 1..n
         /\ DOMAIN ledger'[u] = 1..(n + 1)
         /\ Len(ledger'[u]) = n + 1
         /\ ledger'[u] # <<>>
         /\ ledger'[u][n + 1] = row
         /\ \A i \in 1..n : ledger'[u][i] = ledger[u][i] /\ ledger[u][i] \in Row
         /\ \A v \in Users \ {u} : credits'[v] = credits[v] /\ ledger'[v] = ledger[v]
<1> DEFINE row == RowFor(credits[u], delta, reason, reference)
<1>1. credits[u] \in Nat /\ ledger[u] \in Seq(Row)
  BY DEF TablesOK
<1>2. row \in Row
  BY <1>1 DEF Row, RowFor
<1>3. ledger' = [ledger EXCEPT ![u] = Append(ledger[u], row)]
  BY DEF Move
<1>4. ledger'[u] = Append(ledger[u], row) /\ ledger' \in [Users -> Seq(Row)]
  BY <1>1, <1>2, <1>3, AppendedRow DEF TablesOK
<1>5. credits' = [credits EXCEPT ![u] = credits[u] + delta] /\ credits[u] + delta \in Nat
  BY <1>1 DEF Move
<1>6. credits' \in [Users -> Nat] /\ credits'[u] = credits[u] + delta
  BY <1>1, <1>5 DEF TablesOK
<1>7. \A v \in Users \ {u} : credits'[v] = credits[v] /\ ledger'[v] = ledger[v]
  BY <1>3, <1>5 DEF TablesOK
<1> HIDE DEF row
<1>8. QED
  BY <1>1, <1>2, <1>4, <1>6, <1>7, AppendedRow DEF row

-----------------------------------------------------------------------------
\* A movement keeps balance and ledger in step.
LEMMA MoveExplained ==
  ASSUME TablesOK, BalanceExplained, NEW u \in Users, NEW delta \in Int,
         NEW reason \in Reasons, NEW reference \in References,
         Move(u, delta, reason, reference)
  PROVE  BalanceExplained'
<1>1. SUFFICES ASSUME NEW v \in Users
               PROVE  (credits[v] = LedgerBalance(v) /\ RowsChain(v))'
  BY DEF BalanceExplained
<1>2. CASE v # u
  <2>1. credits'[v] = credits[v] /\ ledger'[v] = ledger[v]
    BY <1>2, MoveAppends
  <2>2. QED BY <2>1 DEF BalanceExplained, LedgerBalance, RowsChain
<1>3. CASE v = u
  <2> DEFINE n == Len(ledger[u])
             row == RowFor(credits[u], delta, reason, reference)
  <2>1. /\ credits'[u] = credits[u] + delta
        /\ n \in Nat /\ DOMAIN ledger[u] = 1..n
        /\ DOMAIN ledger'[u] = 1..(n + 1) /\ Len(ledger'[u]) = n + 1
        /\ ledger'[u] # <<>>
        /\ ledger'[u][n + 1] = row
        /\ \A i \in 1..n : ledger'[u][i] = ledger[u][i] /\ ledger[u][i] \in Row
    BY MoveAppends
  <2>2. row.delta = delta /\ row.after = credits[u] + delta /\ credits[u] \in Nat
    BY DEF RowFor, TablesOK
  <2>3. /\ credits[u] = (IF ledger[u] = <<>> THEN 0 ELSE ledger[u][n].after)
        /\ \A i \in 1..n : ledger[u][i].after =
             ledger[u][i].delta + (IF i = 1 THEN 0 ELSE ledger[u][i - 1].after)
    BY <2>1 DEF BalanceExplained, LedgerBalance, RowsChain
  <2>4. ledger[u] = <<>> <=> n = 0
    BY DEF TablesOK
  <2>5. credits'[u] = LedgerBalance(u)'
    BY <2>1, <2>2 DEF LedgerBalance
  <2>6. ASSUME NEW i \in 1..(n + 1)
        PROVE  ledger'[u][i].after =
                 ledger'[u][i].delta + (IF i = 1 THEN 0 ELSE ledger'[u][i - 1].after)
    <3>1. CASE i \in 1..n
      <4>1. i = 1 \/ i - 1 \in 1..n
        BY <3>1, <2>1
      <4>2. QED BY <3>1, <4>1, <2>1, <2>3
    <3>2. CASE i = n + 1
      <4>1. CASE n = 0
        BY <3>2, <4>1, <2>1, <2>2, <2>3, <2>4
      <4>2. CASE n # 0
        <5>1. i # 1 /\ i - 1 = n /\ n \in 1..n
          BY <3>2, <4>2, <2>1
        <5>2. ledger'[u][i - 1].after = credits[u]
          BY <5>1, <4>2, <2>1, <2>3, <2>4
        <5>3. QED BY <3>2, <5>1, <5>2, <2>1, <2>2
      <4>3. QED BY <4>1, <4>2
    <3>3. QED BY <3>1, <3>2, <2>1
  <2>7. RowsChain(u)'
    BY <2>1, <2>6 DEF RowsChain
  <2>8. QED BY <1>3, <2>5, <2>7
<1>4. QED BY <1>2, <1>3

\* A movement books its own reference and no other.
LEMMA MoveBooks ==
  ASSUME TablesOK, NEW u \in Users, NEW delta \in Int, NEW reason \in Reasons,
         NEW reference \in References, Move(u, delta, reason, reference),
         NEW why, NEW what, Booked(ledger', why, what)
  PROVE  Booked(ledger, why, what) \/ (why = reason /\ what = reference)
<1> DEFINE n == Len(ledger[u])
           row == RowFor(credits[u], delta, reason, reference)
<1>1. PICK v \in Users : \E i \in DOMAIN ledger'[v] :
        ledger'[v][i].reason = why /\ ledger'[v][i].reference = what
  BY DEF Booked
<1>2. PICK i \in DOMAIN ledger'[v] : ledger'[v][i].reason = why /\ ledger'[v][i].reference = what
  BY <1>1
<1>3. /\ n \in Nat /\ DOMAIN ledger[u] = 1..n /\ DOMAIN ledger'[u] = 1..(n + 1)
      /\ ledger'[u][n + 1] = row
      /\ \A m \in 1..n : ledger'[u][m] = ledger[u][m]
      /\ \A w \in Users \ {u} : ledger'[w] = ledger[w]
  BY MoveAppends
<1>4. row.reason = reason /\ row.reference = reference
  BY DEF RowFor
<1> HIDE DEF row, n
<1>5. CASE v = u /\ i = n + 1
  BY <1>2, <1>3, <1>4, <1>5
<1>6. CASE ~(v = u /\ i = n + 1)
  <2>1. i \in DOMAIN ledger[v] /\ ledger'[v][i] = ledger[v][i]
    BY <1>2, <1>3, <1>6
  <2>2. QED BY <1>2, <2>1 DEF Booked
<1>7. QED BY <1>5, <1>6

\* A row under a new (reason, reference) repeats no earlier one.
LEMMA AppendOnce ==
  ASSUME TablesOK, OncePerReference, NEW u \in Users, NEW row \in Row,
         ~Booked(ledger, row.reason, row.reference),
         ledger' = [ledger EXCEPT ![u] = Append(ledger[u], row)]
  PROVE  OncePerReference'
<1> DEFINE n == Len(ledger[u])
           New(v, i) == v = u /\ i = n + 1
<1>1. SUFFICES ASSUME NEW v \in Users, NEW w \in Users,
                      NEW i \in DOMAIN ledger'[v], NEW k \in DOMAIN ledger'[w],
                      ledger'[v][i].reason = ledger'[w][k].reason,
                      ledger'[v][i].reference = ledger'[w][k].reference
               PROVE  v = w /\ i = k
  BY DEF OncePerReference
<1>2. /\ ledger'[u] = Append(ledger[u], row) /\ ledger[u] \in Seq(Row)
      /\ \A x \in Users \ {u} : ledger'[x] = ledger[x]
  BY DEF TablesOK
<1>3. /\ n \in Nat /\ DOMAIN ledger[u] = 1..n /\ DOMAIN ledger'[u] = 1..(n + 1)
      /\ \A j \in 1..n : ledger'[u][j] = ledger[u][j]
      /\ ledger'[u][n + 1] = row
  BY <1>2, AppendedRow
<1>4. \A x \in Users : \A m \in DOMAIN ledger'[x] :
        New(x, m) \/ (m \in DOMAIN ledger[x] /\ ledger'[x][m] = ledger[x][m])
  BY <1>2, <1>3
<1>5. \A x \in Users : \A m \in DOMAIN ledger[x] :
        ~(ledger[x][m].reason = row.reason /\ ledger[x][m].reference = row.reference)
  BY DEF Booked
<1>6. CASE New(v, i) /\ New(w, k)
  BY <1>6
<1>7. CASE New(v, i) /\ ~New(w, k)
  BY <1>1, <1>3, <1>4, <1>5, <1>7
<1>8. CASE ~New(v, i) /\ New(w, k)
  BY <1>1, <1>3, <1>4, <1>5, <1>8
<1>9. CASE ~New(v, i) /\ ~New(w, k)
  BY <1>1, <1>4, <1>9 DEF OncePerReference
<1>10. QED BY <1>6, <1>7, <1>8, <1>9

\* A movement books one.
LEMMA MoveOnce ==
  ASSUME TablesOK, OncePerReference, NEW u \in Users, NEW delta \in Int,
         NEW reason \in Reasons, NEW reference \in References,
         Move(u, delta, reason, reference)
  PROVE  OncePerReference'
<1> DEFINE row == RowFor(credits[u], delta, reason, reference)
<1>1. row \in Row /\ row.reason = reason /\ row.reference = reference
  BY MoveAppends DEF RowFor
<1>2. /\ ~Booked(ledger, row.reason, row.reference)
      /\ ledger' = [ledger EXCEPT ![u] = Append(ledger[u], row)]
  BY <1>1 DEF Move
<1> HIDE DEF row
<1>3. QED BY <1>1, <1>2, AppendOnce

\* A row of a job names a job that exists.
LEMMA ChargedJobExists ==
  ASSUME TablesOK, ChargesMatchJobs, NEW u \in Users, NEW i \in DOMAIN ledger[u],
         ledger[u][i].reason \in {"job_reserve", "job_refund"}
  PROVE  jobs[ledger[u][i].reference] # NoJob
<1> DEFINE row == ledger[u][i]
<1>1. row.delta \in Int
  <2>1. ledger[u] \in Seq(Row)
    BY DEF TablesOK
  <2>2. row \in Row
    BY <2>1
  <2>3. QED BY <2>2 DEF Row
<1>2. CASE row.reason = "job_reserve"
  <2>1. row.delta < 0 /\ jobs[row.reference] = [user |-> u, spent |-> -row.delta]
    BY <1>2 DEF ChargesMatchJobs
  <2>2. -row.delta \in Nat
    BY <1>1, <2>1
  <2>3. QED BY <2>1, <2>2, RowsAssumption DEF JobRow
<1>3. CASE row.reason = "job_refund"
  <2>1. row.delta > 0 /\ jobs[row.reference] = [user |-> u, spent |-> row.delta]
    BY <1>3 DEF ChargesMatchJobs
  <2>2. row.delta \in Nat
    BY <1>1, <2>1
  <2>3. QED BY <2>1, <2>2, RowsAssumption DEF JobRow
<1>4. QED BY <1>2, <1>3

\* A movement that agrees with the job its row names keeps charges and jobs
\* in agreement, provided no job that exists changes.
LEMMA MoveMatchesJobs ==
  ASSUME TablesOK, ChargesMatchJobs, NEW u \in Users, NEW delta \in Int,
         NEW reason \in Reasons, NEW reference \in References,
         Move(u, delta, reason, reference),
         \A j : jobs[j] # NoJob => jobs'[j] = jobs[j],
         reason = "job_reserve" =>
           delta < 0 /\ jobs'[reference] = [user |-> u, spent |-> -delta],
         reason = "job_refund" =>
           /\ delta > 0
           /\ jobs'[reference] = [user |-> u, spent |-> delta]
           /\ \E k \in 1..Len(ledger[u]) :
                ledger[u][k].reason = "job_reserve" /\ ledger[u][k].reference = reference
  PROVE  ChargesMatchJobs'
<1> DEFINE n == Len(ledger[u])
           row == RowFor(credits[u], delta, reason, reference)
<1>1. /\ n \in Nat /\ DOMAIN ledger[u] = 1..n
      /\ DOMAIN ledger'[u] = 1..(n + 1)
      /\ ledger'[u][n + 1] = row
      /\ \A i \in 1..n : ledger'[u][i] = ledger[u][i]
      /\ \A v \in Users \ {u} : ledger'[v] = ledger[v]
  BY MoveAppends
<1>2. row.delta = delta /\ row.reason = reason /\ row.reference = reference
  BY DEF RowFor
<1> DEFINE Matches(x, i) ==
             /\ ledger'[x][i].reason = "job_reserve" =>
                  /\ ledger'[x][i].delta < 0
                  /\ jobs'[ledger'[x][i].reference] =
                       [user |-> x, spent |-> -ledger'[x][i].delta]
             /\ ledger'[x][i].reason = "job_refund" =>
                  /\ ledger'[x][i].delta > 0
                  /\ jobs'[ledger'[x][i].reference] =
                       [user |-> x, spent |-> ledger'[x][i].delta]
                  /\ \E k \in 1..(i - 1) :
                       /\ ledger'[x][k].reason = "job_reserve"
                       /\ ledger'[x][k].reference = ledger'[x][i].reference
<1> HIDE DEF Matches
<1>3. ASSUME NEW x \in Users, NEW i \in DOMAIN ledger[x],
             \A k \in 1..i : ledger'[x][k] = ledger[x][k], i \in Nat, i > 0
      PROVE  Matches(x, i)
  <2>1. ledger'[x][i] = ledger[x][i]
    BY <1>3
  <2>2. ledger[x][i].reason \in {"job_reserve", "job_refund"} =>
          jobs'[ledger[x][i].reference] = jobs[ledger[x][i].reference]
    BY ChargedJobExists
  <2>3. 1..(i - 1) \subseteq 1..i
    BY <1>3
  <2>4. CASE ledger[x][i].reason = "job_reserve"
    BY <1>3, <2>1, <2>2, <2>4 DEF ChargesMatchJobs, Matches
  <2>5. CASE ledger[x][i].reason = "job_refund"
    <3>1. /\ ledger[x][i].delta > 0
          /\ jobs[ledger[x][i].reference] = [user |-> x, spent |-> ledger[x][i].delta]
      BY <2>5 DEF ChargesMatchJobs
    <3>2. PICK k \in 1..(i - 1) :
            /\ ledger[x][k].reason = "job_reserve"
            /\ ledger[x][k].reference = ledger[x][i].reference
      BY <2>5 DEF ChargesMatchJobs
    <3>3. ledger'[x][k] = ledger[x][k]
      BY <1>3, <2>3
    <3>4. QED BY <2>1, <2>2, <2>5, <3>1, <3>2, <3>3 DEF Matches
  <2>6. QED BY <2>1, <2>4, <2>5 DEF Matches
<1>4. ASSUME NEW x \in Users \ {u}, NEW i \in DOMAIN ledger'[x]
      PROVE  Matches(x, i)
  <2>1. ledger'[x] = ledger[x] /\ i \in Nat /\ i > 0
    BY <1>1, <1>4, AppendedRow DEF TablesOK
  <2>2. QED BY <2>1, <1>3
<1>5. ASSUME NEW i \in 1..n
      PROVE  Matches(u, i)
  <2>1. \A k \in 1..i : ledger'[u][k] = ledger[u][k]
    BY <1>1, <1>5
  <2>2. QED BY <2>1, <1>1, <1>3, <1>5
<1>6. Matches(u, n + 1)
  <2>1. (n + 1) - 1 = n
    BY <1>1
  <2>2. QED BY <1>1, <1>2, <2>1 DEF Matches
<1>7. \A x \in Users : \A i \in DOMAIN ledger'[x] : Matches(x, i)
  <2>1. \A i \in DOMAIN ledger'[u] : i \in 1..n \/ i = n + 1
    BY <1>1
  <2>2. QED BY <2>1, <1>4, <1>5, <1>6
<1>8. QED BY <1>7 DEF ChargesMatchJobs, Matches

\* A movement keeps every job charged if the jobs it adds are charged by it.
LEMMA MoveCharges ==
  ASSUME TablesOK, JobsAreCharged, NEW u \in Users, NEW delta \in Int,
         NEW reason \in Reasons, NEW reference \in References,
         Move(u, delta, reason, reference),
         \A j \in JobIds : jobs'[j] # jobs[j] =>
           reason = "job_reserve" /\ reference = j /\ jobs'[j].user = u,
         jobs' \in [JobIds -> JobRow \cup {NoJob}]
  PROVE  JobsAreCharged'
<1> DEFINE n == Len(ledger[u])
           row == RowFor(credits[u], delta, reason, reference)
<1>1. /\ n \in Nat /\ DOMAIN ledger[u] = 1..n
      /\ DOMAIN ledger'[u] = 1..(n + 1)
      /\ ledger'[u][n + 1] = row
      /\ \A i \in 1..n : ledger'[u][i] = ledger[u][i]
      /\ \A v \in Users \ {u} : ledger'[v] = ledger[v]
  BY MoveAppends
<1>2. row.reason = reason /\ row.reference = reference
  BY DEF RowFor
<1>3. \A x \in Users : \A i \in DOMAIN ledger[x] :
        i \in DOMAIN ledger'[x] /\ ledger'[x][i] = ledger[x][i]
  <2>1. \A i \in DOMAIN ledger[u] : i \in DOMAIN ledger'[u] /\ ledger'[u][i] = ledger[u][i]
    BY <1>1
  <2>2. QED BY <1>1, <2>1
<1>4. SUFFICES ASSUME NEW j \in JobIds, jobs'[j] # NoJob, jobs'[j].spent > 0
               PROVE  \E i \in DOMAIN ledger'[jobs'[j].user] :
                        /\ ledger'[jobs'[j].user][i].reason = "job_reserve"
                        /\ ledger'[jobs'[j].user][i].reference = j
  BY DEF JobsAreCharged
<1>5. CASE jobs'[j] = jobs[j]
  <2>1. jobs[j].user \in Users
    BY <1>4, <1>5 DEF TablesOK, JobRow
  <2>2. PICK i \in DOMAIN ledger[jobs[j].user] :
          /\ ledger[jobs[j].user][i].reason = "job_reserve"
          /\ ledger[jobs[j].user][i].reference = j
    BY <1>4, <1>5 DEF JobsAreCharged
  <2>3. QED BY <1>3, <1>5, <2>1, <2>2
<1>6. CASE jobs'[j] # jobs[j]
  <2>1. reason = "job_reserve" /\ reference = j /\ jobs'[j].user = u
    BY <1>6
  <2>2. n + 1 \in DOMAIN ledger'[u]
    BY <1>1
  <2>3. QED BY <1>1, <1>2, <2>1, <2>2
<1>7. QED BY <1>5, <1>6

-----------------------------------------------------------------------------
\* Empty books are in order.
LEMMA AccountInitInv == AccountInit => AccountInv
  BY DEF AccountInit, AccountInv, TablesOK, BalanceExplained, LedgerBalance, RowsChain,
         OncePerReference, ChargesMatchJobs, JobsAreCharged

\* A grant keeps the books in order.
LEMMA GrantInv ==
  ASSUME AccountInv, NEW r \in Refs, NEW amount \in Amounts, Grant(r, amount)
  PROVE  AccountInv'
<1>1. /\ Owner[r] \in Users /\ amount \in Int /\ ReasonOf[r] \in GrantReasons
      /\ ReasonOf[r] \in Reasons /\ r \in References
  BY RowsAssumption DEF Reasons, References
<1>2. ReasonOf[r] # "job_reserve" /\ ReasonOf[r] # "job_refund"
  BY <1>1 DEF GrantReasons
<1>3. Move(Owner[r], amount, ReasonOf[r], r) /\ jobs' = jobs
  BY DEF Grant
<1>4. TablesOK'
  BY <1>1, <1>3, MoveAppends DEF AccountInv, TablesOK
<1>5. BalanceExplained' /\ OncePerReference'
  BY <1>1, <1>3, MoveExplained, MoveOnce DEF AccountInv
<1>6. ChargesMatchJobs'
  BY <1>1, <1>2, <1>3, MoveMatchesJobs DEF AccountInv
<1>7. JobsAreCharged'
  BY <1>1, <1>3, MoveCharges DEF AccountInv, TablesOK
<1>8. QED BY <1>4, <1>5, <1>6, <1>7 DEF AccountInv

\* A claw-back keeps the books in order.
LEMMA ClawBackInv ==
  ASSUME AccountInv, NEW c \in Charges, ClawBack(c)
  PROVE  AccountInv'
<1> DEFINE delta == -credits[Owner[c]]
<1>1. Owner[c] \in Users /\ "manual_adjustment" \in Reasons /\ c \in References
  BY RowsAssumption DEF Reasons, References
<1>2. delta \in Int
  BY <1>1 DEF AccountInv, TablesOK
<1>3. Move(Owner[c], delta, "manual_adjustment", c) /\ jobs' = jobs
  BY DEF ClawBack
<1> HIDE DEF delta
<1>4. TablesOK'
  BY <1>1, <1>2, <1>3, MoveAppends DEF AccountInv, TablesOK
<1>5. BalanceExplained' /\ OncePerReference'
  BY <1>1, <1>2, <1>3, MoveExplained, MoveOnce DEF AccountInv
<1>6. ChargesMatchJobs'
  BY <1>1, <1>2, <1>3, MoveMatchesJobs DEF AccountInv
<1>7. JobsAreCharged'
  BY <1>1, <1>2, <1>3, MoveCharges DEF AccountInv, TablesOK
<1>8. QED BY <1>4, <1>5, <1>6, <1>7 DEF AccountInv

\* A refund keeps the books in order: the charge it gives back is already there.
LEMMA RefundInv ==
  ASSUME AccountInv, NEW j \in JobIds, Refund(j)
  PROVE  AccountInv'
<1> DEFINE u == jobs[j].user
           delta == jobs[j].spent
<1>1. jobs[j] \in JobRow /\ delta > 0
  BY DEF Refund, AccountInv, TablesOK
<1>2. /\ u \in Users /\ delta \in Int /\ "job_refund" \in Reasons
      /\ j \in References /\ jobs[j] = [user |-> u, spent |-> delta]
  BY <1>1 DEF JobRow, Reasons, References
<1>3. Move(u, delta, "job_refund", j) /\ jobs' = jobs
  BY DEF Refund
<1>4. \E k \in 1..Len(ledger[u]) :
        ledger[u][k].reason = "job_reserve" /\ ledger[u][k].reference = j
  <2>1. \E k \in DOMAIN ledger[u] :
          ledger[u][k].reason = "job_reserve" /\ ledger[u][k].reference = j
    BY <1>1 DEF Refund, AccountInv, JobsAreCharged
  <2>2. DOMAIN ledger[u] = 1..Len(ledger[u])
    BY <1>2 DEF AccountInv, TablesOK
  <2>3. QED BY <2>1, <2>2
<1> HIDE DEF u, delta
<1>5. TablesOK'
  BY <1>2, <1>3, MoveAppends DEF AccountInv, TablesOK
<1>6. BalanceExplained' /\ OncePerReference'
  BY <1>2, <1>3, MoveExplained, MoveOnce DEF AccountInv
<1>7. ChargesMatchJobs'
  BY <1>1, <1>2, <1>3, <1>4, MoveMatchesJobs DEF AccountInv
<1>8. JobsAreCharged'
  BY <1>2, <1>3, MoveCharges DEF AccountInv, TablesOK
<1>9. QED BY <1>5, <1>6, <1>7, <1>8 DEF AccountInv

\* Accepting a job keeps the books in order, free or charged.
LEMMA ReserveInv ==
  ASSUME AccountInv, NEW u \in Users, NEW j \in JobIds, NEW cost \in Costs,
         Reserve(u, j, cost)
  PROVE  AccountInv'
<1> DEFINE job == [user |-> u, spent |-> cost]
<1>1. cost \in Nat /\ job \in JobRow /\ job # NoJob
  BY RowsAssumption DEF JobRow
<1>2. jobs[j] = NoJob /\ jobs' = [jobs EXCEPT ![j] = job]
  BY DEF Reserve
<1>3. jobs' \in [JobIds -> JobRow \cup {NoJob}] /\ jobs'[j] = job
  BY <1>1, <1>2 DEF AccountInv, TablesOK
<1>4. \A i : jobs[i] # NoJob => jobs'[i] = jobs[i]
  BY <1>2
<1>5. \A i \in JobIds : jobs'[i] # jobs[i] => i = j
  BY <1>2 DEF AccountInv, TablesOK
<1>6. CASE cost = 0
  <2>1. credits' = credits /\ ledger' = ledger
    BY <1>6 DEF Reserve
  <2>2. TablesOK' /\ BalanceExplained' /\ OncePerReference'
    BY <1>3, <2>1 DEF AccountInv, TablesOK, BalanceExplained, LedgerBalance,
                      RowsChain, OncePerReference
  <2>3. JobsAreCharged'
    BY <1>3, <1>5, <1>6, <2>1 DEF AccountInv, JobsAreCharged
  <2>4. \A v \in Users : \A i \in DOMAIN ledger[v] :
          ledger[v][i].reason \in {"job_reserve", "job_refund"} =>
            jobs'[ledger[v][i].reference] = jobs[ledger[v][i].reference]
    BY <1>4, ChargedJobExists DEF AccountInv
  <2>5. ChargesMatchJobs'
    BY <2>1, <2>4 DEF AccountInv, ChargesMatchJobs
  <2>6. QED BY <2>2, <2>3, <2>5 DEF AccountInv
<1>7. CASE cost # 0
  <2>1. Move(u, -cost, "job_reserve", j)
    BY <1>7 DEF Reserve
  <2>2. /\ -cost \in Int /\ -cost < 0 /\ cost = -(-cost)
        /\ "job_reserve" \in Reasons /\ j \in References
    BY <1>1, <1>7 DEF Reasons, References
  <2>3. TablesOK'
    BY <1>3, <2>1, <2>2, MoveAppends DEF AccountInv, TablesOK
  <2>4. BalanceExplained' /\ OncePerReference'
    BY <2>1, <2>2, MoveExplained, MoveOnce DEF AccountInv
  <2>5. jobs'[j] = [user |-> u, spent |-> -(-cost)]
    BY <1>3, <2>2
  <2>6. ChargesMatchJobs'
    BY <1>4, <2>1, <2>2, <2>5, MoveMatchesJobs DEF AccountInv
  <2>7. JobsAreCharged'
    BY <1>3, <1>5, <2>1, <2>2, MoveCharges DEF AccountInv
  <2>8. QED BY <2>3, <2>4, <2>6, <2>7 DEF AccountInv
<1>8. QED BY <1>6, <1>7

\* Every movement of an account keeps its books in order.
LEMMA AccountNextInv == AccountInv /\ [AccountNext]_tables => AccountInv'
<1> SUFFICES ASSUME AccountInv, [AccountNext]_tables PROVE AccountInv'
  OBVIOUS
<1>1. CASE UNCHANGED tables
  <2>1. credits' = credits /\ ledger' = ledger /\ jobs' = jobs
    BY <1>1 DEF tables
  <2>2. TablesOK' /\ BalanceExplained' /\ OncePerReference'
    BY <2>1 DEF AccountInv, TablesOK, BalanceExplained, LedgerBalance, RowsChain,
                OncePerReference
  <2>3. ChargesMatchJobs' /\ JobsAreCharged'
    BY <2>1 DEF AccountInv, ChargesMatchJobs, JobsAreCharged
  <2>4. QED BY <2>2, <2>3 DEF AccountInv
<1>2. CASE AccountNext
  BY <1>2, GrantInv, ReserveInv, RefundInv, ClawBackInv DEF AccountNext
<1>3. QED BY <1>1, <1>2

\* For any accounts, prices and references: balances are what the ledger adds
\* up to, no reference is applied twice, and charges and jobs agree.
THEOREM AccountBooks == AccountSpec => []AccountInv
  BY AccountInitInv, AccountNextInv, PTL DEF AccountSpec
=============================================================================
