--------------------------- MODULE CreditAmounts ---------------------------
(***************************************************************************)
(* What a text costs and what a balance buys: billing/amount.ts and        *)
(* creditsForChars, charsForCredits of billing/catalog.ts.  Amounts are    *)
(* whole hundredths of a credit, as in every other module.  The lengths    *)
(* are those of a document being written.                                  *)
(***************************************************************************)
EXTENDS Integers

CONSTANTS
  Rates,        \* CHARS_PER_CREDIT
  MaxChars

ASSUME RateAssumption == Rates \subseteq Nat \ {0} /\ MaxChars \in Nat

CreditScale == 100

VARIABLES rate, length   \* the deploy's rate, the document's characters

amountvars == <<rate, length>>

AmountsInit == rate \in Rates /\ length = 0
AmountsNext == length < MaxChars /\ length' = length + 1 /\ rate' = rate

AmountsSpec == AmountsInit /\ [][AmountsNext]_amountvars

\* Mutant: divided first, then scaled: the double of an exact quotient lands above it.
RatioDivided(chars, perCredit) == (chars * CreditScale) \div perCredit + 1

\* ceilCreditsFromRatio: multiplied before the division, so exact.
Ratio(chars, perCredit) == (chars * CreditScale + perCredit - 1) \div perCredit

CreditsForChars(chars, perCredit) ==
  IF chars = 0 THEN 0
  ELSE IF Ratio(chars, perCredit) < 1 THEN 1 ELSE Ratio(chars, perCredit)

\* The balance is a double when it is multiplied: a product that is a whole number
\* of characters may come out just below it, and is then floored to one less.
CharsForCredits(h, perCredit) ==
  LET exact == (h * perCredit) \div CreditScale
  IN IF h = 0 THEN {0}
     ELSE IF exact > 0 /\ (h * perCredit) % CreditScale = 0 THEN {exact, exact - 1} ELSE {exact}

-----------------------------------------------------------------------------
PriceIsLeast ==
  LET h == CreditsForChars(length, rate)
  IN h * rate >= length * CreditScale /\ (h > 1 => (h - 1) * rate < length * CreditScale)
BalanceBuysIt ==
  LET h == CreditsForChars(length, rate)
  IN \A chars \in CharsForCredits(h, rate) :
       CreditsForChars(chars, rate) <= h /\ (h > 0 => CreditsForChars(chars + 2, rate) > h)

\* amount.ts:77-84, catalog.ts:120-137: a document costs the least number of
\* hundredths that covers it, also where its length is an exact multiple of a
\* hundredth's worth; and the length those are said to buy can be paid from them,
\* and undersells them by no more than a character.
PricesAgree == PriceIsLeast /\ BalanceBuysIt
=============================================================================
