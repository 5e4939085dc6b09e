--------------------------- MODULE TradingCapital ---------------------------
(***************************************************************************)
(* The properties of the composed trading-capital system: matching, the    *)
(* canonical facility, its Testnet funding control and its Testnet         *)
(* settlement.                                                             *)
(***************************************************************************)
EXTENDS TestnetSettlement

\* Types, and the lifecycle every stored record must show when it is read.
TypeOK ==
  /\ TradingTypeOK
  /\ funding.status \in {"none", "AWAITING_CONTRIBUTIONS", "AWAITING_SUBJECT",
                         "AWAITING_PROVIDER", "READY"} \cup TERMINAL_STATUSES
  /\ funding = NoFunding \/ assertFundingRecord(funding)
  /\ inbox \subseteq {r.id : r \in Receipts}
  /\ run.status \in {"none", "AWAITING_FINALITY", "READY_TO_SETTLE", "SETTLED",
                     "EVIDENCE_ACTIVE", "EVIDENCE_REVOKED", "INCIDENT"}
  /\ run = NoRun \/ assertSettlementRecord(run, evidence)
  /\ observed \subseteq {o.id : o \in Observations}
  /\ feePolicy \in {"approved", "replaced"}

\* The testnet run paid the facility out.
runSettled == run.status \in {"SETTLED", "EVIDENCE_ACTIVE", "EVIDENCE_REVOKED"}

\* The abstract state of the facility.
promisedPhase ==
  IF facility.risk = "SETTLEMENT" THEN "settled"
  ELSE IF facility.lifecycle = "flattened" THEN "flat"
  ELSE IF facility.lifecycle = "active" THEN "trading"
  ELSE IF \E m \in Mandates : proposal[m].status = "bilaterally_accepted"
  THEN "agreed" ELSE "open"

promisedPaid ==
  {s \in Sides : \/ s = "subject" /\ facility.subjectCollateral > 0
                 \/ s = "provider" /\ facility.providerFunding > 0}

Promise == INSTANCE CapitalPromise WITH
  phase <- promisedPhase,
  paid <- promisedPaid,
  exposed <- OpenOrders # {},
  payouts <- (IF settlement = NoSettlement THEN 0 ELSE 1)
               + (IF runSettled THEN 1 ELSE 0)

(***************************************************************************)
(* The facility keeps the promise of CapitalPromise, with the local        *)
(* settlement command, the funding control and the Testnet settlement all  *)
(* acting on it from snapshots taken earlier: in particular it is settled  *)
(* once, by one of them.                                                   *)
(***************************************************************************)
KeepsPromise == Promise!Spec

(***************************************************************************)
(* The funding control activates the facility in the very step in which it *)
(* becomes ACTIVE, with a finalized contribution of both sides, none of    *)
(* which a reorg invalidation already processed has taken back.            *)
(***************************************************************************)
ActivationIsFunded ==
  [][ funding.status # "ACTIVE" /\ funding'.status = "ACTIVE"
        => /\ facility.lifecycle = "ready_for_activation"
           /\ facility'.lifecycle = "active"
           /\ \A role \in Roles :
                /\ funding'.receipt[role] \in inbox
                /\ \A r \in Receipts :
                     r.id \in inbox => r.related # funding'.receipt[role]
    ]_allVars


=============================================================================
