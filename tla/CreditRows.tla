----------------------------- MODULE CreditRows -----------------------------
(***************************************************************************)
(* The rows the billing code keeps in Postgres, shared by every module     *)
(* that moves credit.  Amounts are whole hundredths of a credit, the       *)
(* integer domain billing/amount.ts does all its arithmetic in, so a       *)
(* balance is a natural number and a movement is an integer.               *)
(***************************************************************************)
EXTENDS Integers, Sequences

CONSTANTS
  Users,       \* rows of users
  JobIds,      \* ids that INSERT INTO jobs can generate
  Refs,        \* references of grants: a user id, a session id, an invoice id
  Charges,     \* references of card refunds: "refund:<charge id>"
  Owner,       \* the account each reference of Refs and Charges belongs to
  ReasonOf,    \* the reason each reference of Refs is granted under
  Amounts,     \* amounts a grant may carry
  Costs,       \* prices a job may have; 0 when billing is disabled
  NoJob        \* what a SELECT on jobs finds for an id nobody inserted

GrantReasons == {"signup_grant", "purchase", "subscription_renewal"}
Reasons == GrantReasons \cup {"job_reserve", "job_refund", "manual_adjustment"}
References == Refs \cup Charges \cup JobIds

\* credit_ledger: why a balance moved, by how much, and what it became.
Row == [delta: Int, after: Int, reason: Reasons, reference: References]

\* The columns of jobs that money depends on.
JobRow == [user: Users, spent: Nat]

ASSUME RowsAssumption ==
  /\ Owner \in [Refs \cup Charges -> Users]
  /\ ReasonOf \in [Refs -> GrantReasons]
  /\ Amounts \subseteq Nat \ {0}
  /\ Costs \subseteq Nat
  /\ NoJob \notin JobRow

\* The unique index on (reason, reference): some row already carries the pair.
Booked(ledger, reason, reference) ==
  \E u \in Users : \E i \in DOMAIN ledger[u] :
    ledger[u][i].reason = reason /\ ledger[u][i].reference = reference

\* The columns of the row a movement writes, given the balance it starts from.
RowFor(current, delta, reason, reference) ==
  [delta |-> delta, after |-> current + delta, reason |-> reason, reference |-> reference]
=============================================================================
