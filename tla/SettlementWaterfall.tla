------------------------- MODULE SettlementWaterfall -------------------------
(***************************************************************************)
(* The Testnet settlement waterfall: how the final equity of a facility is *)
(* split between the Provider, the Subject and the fee, in minor units.    *)
(* t holds the immutable terms, e the final economics observed at the      *)
(* venue.  Every division floors; the Subject takes the residual.          *)
(***************************************************************************)
EXTENDS Integers

BPS == 10000

\* fixedReturnBps is a rate per 365 days.
DAY_COUNT_DENOMINATOR == 3650000

TEMPLATE_TYPES == {"credit", "performance_participation", "hybrid"}

TermsType ==
  [templateType : TEMPLATE_TYPES, provider : Nat \ {0}, subject : Nat \ {0},
   fixedReturnBps : 0..BPS, performanceParticipationBps : 0..BPS,
   durationDays : 1..3650, ipoOneFeeBps : 0..BPS]

EconomicsType ==
  [equity : Nat, realizedPnl : Int, venueCost : Nat, closingCost : Nat]

lesser(a, b) == IF a < b THEN a ELSE b

templateConsistent(t) ==
  /\ t.templateType = "credit" => t.performanceParticipationBps = 0
  /\ t.templateType = "performance_participation" => t.fixedReturnBps = 0

conserved(t, e) ==
  t.provider + t.subject + e.realizedPnl - e.venueCost - e.closingCost
    = e.equity


providerPrincipalReturn(t, e) == lesser(e.equity, t.provider)

subjectContributionReturn(t, e) ==
  lesser(e.equity - providerPrincipalReturn(t, e), t.subject)

realizedFinancialIncome(t, e) ==
  e.equity - providerPrincipalReturn(t, e) - subjectContributionReturn(t, e)

fixedTarget(t) ==
  (t.provider * t.fixedReturnBps * t.durationDays) \div DAY_COUNT_DENOMINATOR

providerFixedReturnGross(t, e) ==
  IF t.templateType = "performance_participation" THEN 0
  ELSE lesser(fixedTarget(t), realizedFinancialIncome(t, e))

providerPerformanceParticipationGross(t, e) ==
  IF t.templateType = "credit" THEN 0
  ELSE ((realizedFinancialIncome(t, e) - providerFixedReturnGross(t, e))
          * t.performanceParticipationBps) \div BPS

providerGrossIncome(t, e) ==
  providerFixedReturnGross(t, e) + providerPerformanceParticipationGross(t, e)

ipoOneFee(t, e) == (providerGrossIncome(t, e) * t.ipoOneFeeBps) \div BPS

\* The fee is taken from the performance leg first.
feeFromPerformance(t, e) ==
  lesser(ipoOneFee(t, e), providerPerformanceParticipationGross(t, e))

feeFromFixed(t, e) == ipoOneFee(t, e) - feeFromPerformance(t, e)

providerFixedReturnNet(t, e) ==
  providerFixedReturnGross(t, e) - feeFromFixed(t, e)

providerPerformanceParticipationNet(t, e) ==
  providerPerformanceParticipationGross(t, e) - feeFromPerformance(t, e)

subjectProfit(t, e) == realizedFinancialIncome(t, e) - providerGrossIncome(t, e)

providerTotalAllocation(t, e) ==
  providerPrincipalReturn(t, e) + providerFixedReturnNet(t, e)
    + providerPerformanceParticipationNet(t, e)

subjectTotalAllocation(t, e) ==
  subjectContributionReturn(t, e) + subjectProfit(t, e)

totalAllocated(t, e) ==
  providerTotalAllocation(t, e) + subjectTotalAllocation(t, e) + ipoOneFee(t, e)

\* The waterfall is computed, rather than refused.
waterfallAdmitted(t, e) ==
  templateConsistent(t) /\ conserved(t, e) /\ totalAllocated(t, e) = e.equity

\* The postings of the canonical Ledger transaction, by side.
ledgerCredits(t, e) ==
  t.provider + t.subject
    + (IF e.realizedPnl > 0 THEN e.realizedPnl ELSE 0)

ledgerDebits(t, e) ==
  (IF e.realizedPnl < 0 THEN - e.realizedPnl ELSE 0)
    + e.venueCost + e.closingCost
    + providerPrincipalReturn(t, e) + subjectContributionReturn(t, e)
    + providerFixedReturnNet(t, e) + providerPerformanceParticipationNet(t, e)
    + subjectProfit(t, e) + ipoOneFee(t, e)

createSettlementLedger(t, e) ==
  [debits |-> ledgerDebits(t, e), credits |-> ledgerCredits(t, e)]

\* Checked before the transaction is built.
postingBalanced(posting) ==
  posting.debits = posting.credits /\ posting.debits > 0

(***************************************************************************)
(* What the settlement promises each party, for every admitted input: no   *)
(* leg is negative, nothing is lost or created, the Provider's principal   *)
(* is senior to the Subject's contribution and both to any income, the fee *)
(* is paid out of the Provider's gross income only, and the Ledger         *)
(* transaction balances and is not empty.                                  *)
(***************************************************************************)
WaterfallSound(t, e) ==
  /\ providerPrincipalReturn(t, e) >= 0 /\ subjectContributionReturn(t, e) >= 0
  /\ providerFixedReturnNet(t, e) >= 0
  /\ providerPerformanceParticipationNet(t, e) >= 0
  /\ subjectProfit(t, e) >= 0
  /\ totalAllocated(t, e) = e.equity
  /\ providerPrincipalReturn(t, e) < t.provider
       => subjectTotalAllocation(t, e) = 0 /\ providerGrossIncome(t, e) = 0
  /\ subjectContributionReturn(t, e) < t.subject
       => providerGrossIncome(t, e) = 0 /\ subjectProfit(t, e) = 0
  /\ ipoOneFee(t, e) <= providerGrossIncome(t, e)
  /\ ledgerDebits(t, e) = ledgerCredits(t, e) /\ ledgerDebits(t, e) > 0
=============================================================================
