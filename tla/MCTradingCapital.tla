-------------------------- MODULE MCTradingCapital --------------------------
(***************************************************************************)
(* The trading-capital system on a small instance: a Subject contribution  *)
(* that is reorganised and replaced, a Provider contribution; a final      *)
(* venue observation with a gain, one with a loss that reaches the         *)
(* Provider, and one whose figures do not add up.                          *)
(***************************************************************************)
EXTENDS TradingCapital, TLC

CONSTANTS w1, w2, m1, d1, d2

SubjectReceipt(id) ==
  [id |-> id, role |-> "SUBJECT_FIRST_LOSS", kind |-> "FINALIZED_CONTRIBUTION",
   related |-> "none", amount |-> requiredSubjectCollateral,
   bound |-> TRUE, complete |-> TRUE]

MCReceipts ==
  {SubjectReceipt("s1"), SubjectReceipt("s2"),
   [SubjectReceipt("s1r") EXCEPT !.kind = "REORG_INVALIDATION",
                                 !.related = "s1"],
   [SubjectReceipt("p1") EXCEPT !.role = "PROVIDER_PRINCIPAL",
                                !.amount = requiredProviderFunding]}

Observation(id, final, equity, pnl) ==
  [id |-> id, bound |-> TRUE, fresh |-> TRUE, final |-> final,
   economics |-> [equity |-> equity, realizedPnl |-> pnl, venueCost |-> 1,
                  closingCost |-> 0]]

MCObservations ==
  {Observation("gain", TRUE, 14, 4), Observation("loss", TRUE, 8, -2),
   Observation("wrong", TRUE, 15, 4)}

Symmetry == Permutations(Workers)
=============================================================================
