--------------------------- MODULE MCCreditLedger ---------------------------
(* A small instance of CreditLedger. *)
EXTENDS CreditLedger

CONSTANTS u1, u2, r1

MCOwner == [r \in Refs |-> IF r = r1 THEN u1 ELSE u2]
MCReasonOf == [r \in Refs |-> IF r = r1 THEN "signup_grant" ELSE "purchase"]
=============================================================================
