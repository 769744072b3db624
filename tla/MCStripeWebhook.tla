-------------------------- MODULE MCStripeWebhook --------------------------
(* Small instances of StripeWebhook: a pack k1 and a plan p1 with invoice i1, *)
(* both bought by u1, or the pack by u1 and the plan by u2.                   *)
EXTENDS StripeWebhook, TLC

CONSTANTS u1, u2, k1, p1, i1, c1

MCPaymentOf == [c \in Charges |-> k1]
MCBuyer == [s \in Sessions |-> IF s = p1 THEN u2 ELSE u1]
MCPlanOf == [i \in Invoices |-> p1]
MCOwner == [r \in Refs \cup Charges |-> IF r = i1 THEN u2 ELSE u1]
MCReasonOf == [r \in Refs |-> IF r = i1 THEN "subscription_renewal" ELSE "purchase"]
MCSkuCredits == [r \in Refs |-> IF r = i1 THEN 1 ELSE 2]
MCSymmetry == Permutations(Deliveries)
=============================================================================
