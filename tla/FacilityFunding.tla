--------------------------- MODULE FacilityFunding ---------------------------
(***************************************************************************)
(* The Testnet funding control of a Trading Facility: it binds one funding *)
(* record to the canonical facility, applies finalized contributions and   *)
(* reorg invalidations delivered through the durable inbox, and activates  *)
(* the facility once both contributions are finalized.                     *)
(*                                                                         *)
(* A service call first resolves a snapshot of the kernel (facility,       *)
(* Obligation, Ledger, risk) and a receipt, and only then opens the        *)
(* transaction that uses them: the two are separate steps here, and any    *)
(* other command may commit between them.  A worker that dies between the  *)
(* two loses its call.                                                     *)
(***************************************************************************)
EXTENDS TradingFacility

CONSTANTS Workers,      \* service processes, one call each at a time
          Receipts      \* what the receipt adapter may deliver, in any order
                        \* and more than once

Roles == {"SUBJECT_FIRST_LOSS", "PROVIDER_PRINCIPAL"}

\* A receipt names its role, the receipt it invalidates (or "none"), its
\* amount, and whether it is bound to this funding, facility, asset and
\* destination, and fresh and complete.
assertReceipt(r) ==
  /\ r.role \in Roles
  /\ r.kind \in {"FINALIZED_CONTRIBUTION", "REORG_INVALIDATION"}
  /\ (r.related # "none") = (r.kind = "REORG_INVALIDATION")
  /\ r.amount \in Nat /\ r.bound \in BOOLEAN /\ r.complete \in BOOLEAN

ASSUME ReceiptAssumption == \A r \in Receipts : assertReceipt(r)

VARIABLES funding,      \* the row of trading_testnet_facility_funding_controls
          inbox,        \* ids of the receipts claimed in the durable inbox
          call          \* call[w]: what worker w holds between its two steps

fundingVars == <<funding, inbox, call>>

TERMINAL_STATUSES == {"ACTIVE", "INCIDENT"}

NoFunding == [status |-> "none", receipt |-> [r \in Roles |-> "none"],
              version |-> 0, facilityVersion |-> 0, ledger |-> 0]

Idle == [op |-> "idle"]

kernelSnapshot == [facility |-> facility, ledger |-> ledger]

FundingInit ==
  /\ funding = NoFunding
  /\ inbox = {}
  /\ call = [w \in Workers |-> Idle]

\* What a snapshot must show for the service to go on with it.
assertKernelSnapshot ==
  /\ facility.lifecycle = "ready_for_activation"
  /\ facility.risk = "NORMAL" /\ ~aged
  /\ obligation = "executed"
  /\ assertBilateralProposal(facility.mandate)

createDraft(snapshot) == [op |-> "prepare", snapshot |-> snapshot]

createPendingTestnetFacilityFundingRecord(draft) ==
  [NoFunding EXCEPT !.status = "AWAITING_CONTRIBUTIONS", !.version = 1,
                    !.facilityVersion = draft.snapshot.facility.version,
                    !.ledger = draft.snapshot.ledger]

stateFromContributions(receipt) ==
  LET subject == receipt["SUBJECT_FIRST_LOSS"] # "none"
      provider == receipt["PROVIDER_PRINCIPAL"] # "none"
  IN  IF subject /\ provider THEN "READY"
      ELSE IF subject THEN "AWAITING_PROVIDER"
      ELSE IF provider THEN "AWAITING_SUBJECT"
      ELSE "AWAITING_CONTRIBUTIONS"

\* What a stored record must show of its own lifecycle; every operation reads
\* the record through it and checks it again before it writes.
assertFundingRecord(record) ==
  /\ record.status \notin TERMINAL_STATUSES =>
       record.status = stateFromContributions(record.receipt)
  /\ record.status = "ACTIVE" => stateFromContributions(record.receipt) = "READY"

kernelContradiction(record, snapshot) ==
  \/ snapshot.facility.version # record.facilityVersion
  \/ snapshot.ledger # record.ledger

incident(record) ==
  [record EXCEPT !.status = "INCIDENT", !.version = @ + 1]

expectedAmount(role) ==
  IF role = "SUBJECT_FIRST_LOSS" THEN requiredSubjectCollateral
  ELSE requiredProviderFunding

\* Bound to something else, of another amount, stale or incomplete; a finalized
\* contribution for a role that has one, or an invalidation that does not name
\* the receipt it holds.
receiptContradiction(record, r) ==
  \/ ~r.bound \/ ~r.complete \/ r.amount # expectedAmount(r.role)
  \/ IF r.kind = "FINALIZED_CONTRIBUTION" THEN record.receipt[r.role] # "none"
     ELSE record.receipt[r.role] # r.related

ReorgKeepsReadiness(record, r, snapshot) ==
  IF record.status \in TERMINAL_STATUSES \/ r.kind = "REORG_INVALIDATION"
  THEN record
  ELSE IF kernelContradiction(record, snapshot)
            \/ receiptContradiction(record, r)
  THEN incident(record)
  ELSE LET next == [record.receipt EXCEPT ![r.role] = r.id]
       IN  [record EXCEPT !.receipt = next, !.version = @ + 1,
                          !.status = stateFromContributions(next)]

transitionTestnetFacilityFundingRecord(record, r, snapshot) ==
  IF record.status \in TERMINAL_STATUSES THEN record
  ELSE IF kernelContradiction(record, snapshot)
            \/ receiptContradiction(record, r)
  THEN incident(record)
  ELSE LET kept == IF r.kind = "FINALIZED_CONTRIBUTION" THEN r.id ELSE "none"
           next == [record.receipt EXCEPT ![r.role] = kept]
       IN  [record EXCEPT !.receipt = next, !.version = @ + 1,
                          !.status = stateFromContributions(next)]

-----------------------------------------------------------------------------
\* First step of a call: read the record, resolve the snapshot, be authorized.

beginCall(w, c) ==
  /\ call[w] = Idle
  /\ call' = [call EXCEPT ![w] = c]
  /\ UNCHANGED <<funding, inbox, facilityVars, matchingVars>>

endCall(w) == call' = [call EXCEPT ![w] = Idle]

prepare(w) ==
  /\ assertKernelSnapshot
  /\ beginCall(w, createDraft(kernelSnapshot))

reconcileNext(w, r) ==
  /\ funding.status \notin TERMINAL_STATUSES \cup {"none"}
  /\ assertKernelSnapshot
  /\ beginCall(w, [op |-> "reconcile", snapshot |-> kernelSnapshot,
                   receipt |-> r])

\* A NORMAL risk observation no older than the facility's limit.
assertActivationFreshness == facility.risk = "NORMAL" /\ ~aged

\* The deadline, the freshness of the risk snapshot and the prerequisites of
\* the facility's own activation are checked here, on the snapshot.
activate(w) ==
  /\ funding.status \notin {"none", "ACTIVE"}
  /\ assertKernelSnapshot
  /\ assertActivationFreshness
  /\ activationAdmitted(facility)
  /\ beginCall(w, [op |-> "activate", snapshot |-> kernelSnapshot])

-----------------------------------------------------------------------------
\* Second step: one serializable transaction.

\* One record per facility; a second create is a replay or a conflict.
createFunding(w) ==
  /\ call[w].op = "prepare"
  /\ funding' = IF funding = NoFunding
                THEN createPendingTestnetFacilityFundingRecord(call[w])
                ELSE funding
  /\ endCall(w)
  /\ UNCHANGED <<inbox, facilityVars, matchingVars>>

\* processInbox: the claim of the receipt id and the handler commit together.
consumeReceipt(w) ==
  /\ call[w].op = "reconcile"
  /\ LET r == call[w].receipt
     IN  /\ funding' = IF r.id \in inbox THEN funding
                       ELSE transitionTestnetFacilityFundingRecord(
                              funding, r, call[w].snapshot)
         /\ inbox' = inbox \cup {r.id}
  /\ endCall(w)
  /\ UNCHANGED <<facilityVars, matchingVars>>

\* The next record: an incident when the snapshot is not what the record was
\* bound to.
activateTestnetFacilityFundingRecord(record, snapshot) ==
  IF kernelContradiction(record, snapshot) THEN incident(record)
  ELSE [record EXCEPT !.status = "ACTIVE", !.version = @ + 1]

\* The record under its row lock: READY, or nothing happens.  The facility row
\* is written from the snapshot, under the version the record was bound to.
commitActivation(w) ==
  LET snapshot == call[w].snapshot
      next == activateTestnetFacilityFundingRecord(funding, snapshot)
  IN  /\ call[w].op = "activate"
      /\ funding.status = "READY"
      /\ funding' = next
      /\ \/ next.status = "INCIDENT" /\ UNCHANGED <<facility, aged>>
         \/ /\ next.status = "ACTIVE"
            /\ facility.version = funding.facilityVersion
            /\ facility' = updateFacilityState(snapshot.facility,
                                               activationChanges)
            /\ aged' = FALSE
      /\ endCall(w)
      /\ UNCHANGED <<inbox, orderIntent, obligation, ledger, closeRequest,
                     settlement, proof, matured, reviews, matchingVars>>

\* A replay, a conflict or a refusal ends the call and changes nothing; so
\* does the death of the worker.
callFails(w) ==
  /\ call[w] # Idle
  /\ endCall(w)
  /\ UNCHANGED <<funding, inbox, facilityVars, matchingVars>>

FundingNext ==
  \E w \in Workers :
    \/ prepare(w)
    \/ \E r \in Receipts : reconcileNext(w, r)
    \/ activate(w)
    \/ createFunding(w)
    \/ consumeReceipt(w)
    \/ commitActivation(w)
    \/ callFails(w)
=============================================================================
