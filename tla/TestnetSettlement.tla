-------------------------- MODULE TestnetSettlement --------------------------
(***************************************************************************)
(* The Testnet settlement of a flattened facility whose close was          *)
(* requested: it waits for a final, reconciled venue observation, computes *)
(* the waterfall, posts one canonical Ledger transaction, settles the      *)
(* canonical facility in the same transaction, and then issues, supersedes *)
(* and revokes Performance Evidence.                                       *)
(*                                                                         *)
(* Like the funding control, every call resolves what it needs first and   *)
(* opens its transaction afterwards.  The local settlement command of      *)
(* TradingFacility competes for the same facility.                         *)
(***************************************************************************)
EXTENDS FacilityFunding, SettlementWaterfall, Sequences

CONSTANTS Template, FixedReturnBps, PerformanceParticipationBps, DurationDays,
          IpoOneFeeBps,
          Observations,           \* what the finality adapter may deliver
          MAX_EVIDENCE_VERSION    \* 100 in the code

\* An observation is bound to this settlement or not, fresh or not, final
\* (FINAL, RECONCILED, no order, exposure, position or unknown execution) or
\* not, and carries the economics it claims.
assertObservation(o) ==
  /\ o.bound \in BOOLEAN /\ o.fresh \in BOOLEAN /\ o.final \in BOOLEAN
  /\ o.economics \in EconomicsType

ASSUME ObservationAssumption == \A o \in Observations : assertObservation(o)

VARIABLES run,          \* the row of trading_testnet_settlement_runs
          evidence,     \* its Performance Evidence, oldest first
          observed,     \* ids of the observations claimed in the inbox
          feePolicy     \* the fee policy in force

settlementVars == <<run, evidence, observed, feePolicy>>

allVars == <<matchingVars, facilityVars, fundingVars, settlementVars>>

NoEconomics == [equity |-> 0, realizedPnl |-> 0, venueCost |-> 0,
                closingCost |-> 0]

NoPosting == [debits |-> 0, credits |-> 0]

NoRun == [status |-> "none", facilityVersion |-> 0, ledger |-> 0,
          feePolicy |-> "none", economics |-> NoEconomics,
          posting |-> NoPosting]

terms ==
  [templateType |-> Template, provider |-> requiredProviderFunding,
   subject |-> requiredSubjectCollateral, fixedReturnBps |-> FixedReturnBps,
   performanceParticipationBps |-> PerformanceParticipationBps,
   durationDays |-> DurationDays, ipoOneFeeBps |-> IpoOneFeeBps]

SettlementInit ==
  /\ run = NoRun
  /\ evidence = <<>>
  /\ observed = {}
  /\ feePolicy = "approved"

\* What a kernel snapshot must show: a funded facility, flattened, without
\* orders or exposure, its close requested.
assertSettlementKernelSnapshot ==
  /\ funding.status = "ACTIVE"
  /\ facility.lifecycle = "flattened" /\ facility.risk = "FLATTEN"
  /\ facility.openOrderCount = 0 /\ facility.exposure = 0
  /\ closeRequest # 0
  /\ obligation # "approved"

createPendingRecord(c) ==
  [NoRun EXCEPT !.status = "AWAITING_FINALITY",
                !.facilityVersion = c.snapshot.facility.version,
                !.ledger = c.snapshot.ledger, !.feePolicy = c.feePolicy]

\* What a stored record must show of its own lifecycle; every operation reads
\* the record through it and checks it again before it writes.
assertSettlementRecord(record, revisions) ==
  /\ record.status = "AWAITING_FINALITY" => record.economics = NoEconomics
  /\ record.status \in {"AWAITING_FINALITY", "READY_TO_SETTLE"} =>
       record.posting = NoPosting
  /\ record.status = "READY_TO_SETTLE" => record.economics # NoEconomics
  /\ record.status \in {"SETTLED", "EVIDENCE_ACTIVE", "EVIDENCE_REVOKED"} =>
       record.posting # NoPosting
  /\ IF record.status \in {"EVIDENCE_ACTIVE", "EVIDENCE_REVOKED"}
     THEN /\ Len(revisions) \in 1..MAX_EVIDENCE_VERSION
          /\ revisions[Len(revisions)].status =
               (IF record.status = "EVIDENCE_ACTIVE" THEN "active"
                ELSE "revoked")
     ELSE revisions = <<>>

bindingDrift(record, snapshot) ==
  \/ snapshot.facility.version # record.facilityVersion
  \/ snapshot.ledger # record.ledger

settlementIncident(record) == [record EXCEPT !.status = "INCIDENT"]

transitionObservation(record, o, snapshot) ==
  IF record.status # "AWAITING_FINALITY" THEN record
  ELSE IF bindingDrift(record, snapshot) \/ ~o.bound
  THEN settlementIncident(record)
  ELSE IF ~o.fresh \/ ~o.final THEN record
  ELSE IF ~waterfallAdmitted(terms, o.economics)
  THEN settlementIncident(record)
  ELSE [record EXCEPT !.status = "READY_TO_SETTLE", !.economics = o.economics]

-----------------------------------------------------------------------------
\* First steps.

beginSettlementCall(w, c) ==
  /\ beginCall(w, c)
  /\ UNCHANGED settlementVars

prepareSettlement(w) ==
  /\ assertSettlementKernelSnapshot
  /\ beginSettlementCall(w, [op |-> "prepare_settlement",
                             snapshot |-> kernelSnapshot,
                             feePolicy |-> feePolicy])

reconcileFinality(w, o) ==
  /\ run # NoRun
  /\ assertSettlementKernelSnapshot
  /\ beginSettlementCall(w, [op |-> "observe", snapshot |-> kernelSnapshot,
                             observation |-> o])

settle(w) ==
  /\ run # NoRun
  /\ assertSettlementKernelSnapshot
  /\ beginSettlementCall(w, [op |-> "settle", snapshot |-> kernelSnapshot,
                             feePolicy |-> feePolicy])

\* The reason recorded with the Evidence is computed from this early read.
issuePerformanceEvidence(w) ==
  /\ run # NoRun
  /\ beginSettlementCall(w,
       [op |-> "issue",
        reason |-> IF evidence = <<>> THEN "initial_final_performance"
                   ELSE IF run.status = "EVIDENCE_REVOKED"
                   THEN "reissued_after_revocation"
                   ELSE "superseded_by_new_evidence"])

revokePerformanceEvidence(w) ==
  /\ run.status = "EVIDENCE_ACTIVE"
  /\ beginSettlementCall(w, [op |-> "revoke"])

-----------------------------------------------------------------------------
\* Second steps: one transaction each.

createRun(w) ==
  /\ call[w].op = "prepare_settlement"
  /\ run' = IF run = NoRun THEN createPendingRecord(call[w]) ELSE run
  /\ endCall(w)
  /\ UNCHANGED <<evidence, observed, feePolicy, funding, inbox, facilityVars,
                 matchingVars>>

consumeObservation(w) ==
  /\ call[w].op = "observe"
  /\ LET o == call[w].observation
     IN  /\ run' = IF o.id \in observed THEN run
                   ELSE transitionObservation(run, o, call[w].snapshot)
         /\ observed' = observed \cup {o.id}
  /\ endCall(w)
  /\ UNCHANGED <<evidence, feePolicy, funding, inbox, facilityVars,
                 matchingVars>>

\* The next record: an incident when what the call resolved is not what the
\* record was bound to.
settleRecord(record, snapshot, policy) ==
  IF bindingDrift(record, snapshot) \/ policy # record.feePolicy
  THEN settlementIncident(record)
  ELSE [record EXCEPT !.status = "SETTLED",
                      !.posting = createSettlementLedger(terms,
                                                         record.economics)]

PostAtAnyVersion(snapshot) ==
  /\ ledger' = ledger + 1
  /\ facility' = updateFacilityState(snapshot.facility, settlementChanges)
  /\ aged' = FALSE

\* The Ledger transaction and the facility row, written from the snapshot,
\* commit under the facility version the record was bound to.
settlementPosted(snapshot) ==
  /\ facility.version = run.facilityVersion
  /\ ledger' = ledger + 1
  /\ facility' = updateFacilityState(snapshot.facility, settlementChanges)
  /\ aged' = FALSE

commitSettlement(w) ==
  LET snapshot == call[w].snapshot
      next == settleRecord(run, snapshot, call[w].feePolicy)
  IN  /\ call[w].op = "settle"
      /\ run.status = "READY_TO_SETTLE"
      /\ run' = next
      /\ \/ next.status = "INCIDENT" /\ UNCHANGED <<facility, aged, ledger>>
         \/ /\ next.status = "SETTLED"
            /\ waterfallAdmitted(terms, run.economics)
            /\ settlementAdmitted(snapshot.facility)
            /\ postingBalanced(next.posting)
            /\ settlementPosted(snapshot)
      /\ endCall(w)
      /\ UNCHANGED <<evidence, observed, feePolicy, funding, inbox,
                     orderIntent, obligation, closeRequest, settlement, proof,
                     matured, reviews, matchingVars>>

revisePerformanceEvidence(w, status, reason) ==
  /\ run.status \in {"SETTLED", "EVIDENCE_ACTIVE", "EVIDENCE_REVOKED"}
  /\ Len(evidence) < MAX_EVIDENCE_VERSION
  /\ evidence' = Append(evidence, [status |-> status, reason |-> reason])
  /\ run' = [run EXCEPT !.status = IF status = "active" THEN "EVIDENCE_ACTIVE"
                                   ELSE "EVIDENCE_REVOKED"]
  /\ endCall(w)
  /\ UNCHANGED <<observed, feePolicy, funding, inbox, facilityVars,
                 matchingVars>>

\* The revocation does not look again at the status it was admitted for; the
\* table only refuses to go from SETTLED straight to EVIDENCE_REVOKED.
reviseEvidence(w) ==
  \/ call[w].op = "issue"
     /\ revisePerformanceEvidence(w, "active", call[w].reason)
  \/ call[w].op = "revoke"
     /\ revisePerformanceEvidence(w, "revoked", "source_evidence_invalidated")

\* Another fee policy takes effect.
FeePolicyReplaced ==
  /\ feePolicy = "approved"
  /\ run # NoRun
  /\ feePolicy' = "replaced"
  /\ UNCHANGED <<run, evidence, observed, fundingVars, facilityVars,
                 matchingVars>>

SettlementNext ==
  \/ \E w \in Workers :
       \/ prepareSettlement(w)
       \/ \E o \in Observations : reconcileFinality(w, o)
       \/ settle(w)
       \/ issuePerformanceEvidence(w)
       \/ revokePerformanceEvidence(w)
       \/ createRun(w)
       \/ consumeObservation(w)
       \/ commitSettlement(w)
       \/ reviseEvidence(w)
  \/ FeePolicyReplaced

-----------------------------------------------------------------------------
\* Matching, facility, funding and settlement over one canonical facility.

Init == MatchingInit /\ FacilityInit /\ FundingInit /\ SettlementInit

Next ==
  \/ TradingNext /\ UNCHANGED <<fundingVars, settlementVars>>
  \/ FundingNext /\ UNCHANGED settlementVars
  \/ SettlementNext

\* The settlement command is run by a system worker for every close request.
Spec == Init /\ [][Next]_allVars /\ WF_allVars(
          runTradingSettlementHandler /\ UNCHANGED <<fundingVars, settlementVars>>)
=============================================================================
