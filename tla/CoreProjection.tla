--------------------------- MODULE CoreProjection ---------------------------
(***************************************************************************)
(* The core repository and the reconciliation service.  A command appends  *)
(* its events and, in the same transaction, writes the projected row of    *)
(* each entity it touches, an immutable snapshot of the value and the      *)
(* registry entry.  Every kind of entity has its own rule for a write that *)
(* meets an existing row.  A reconciliation run compares the tables read   *)
(* by read while commands go on, and a repair writes the latest snapshot   *)
(* back as a command of its own.                                           *)
(*                                                                         *)
(* One entity of each kind is followed.  Its value is what a write rule    *)
(* tells apart: the terms fixed when it is created and its state (a        *)
(* version, where the rule counts versions; otherwise the place of its     *)
(* update time among the updates).                                         *)
(***************************************************************************)
EXTENDS Calls, FiniteSets, SequencesExt, TLC

CONSTANTS Roots,            \* aggregates whose events carry the entity's writes
          MaxCommits,       \* bound: commands committed
          MaxState,         \* bound: versions or updates of the entity
          MaxDiscrepancies  \* discrepancies a run reports before it truncates

VARIABLES entity,           \* the kind followed: [type, variant]
          projectedRow,     \* its row in the type's own table
          snapshot,         \* its latest row of projection_snapshots
          registry,         \* its entity hash in projection_registry
          eventLog,         \* stream heads, events, companions, command links
          damaged,          \* tables altered outside the repository
          altered,          \* bound: one alteration in a behaviour
          repairJob,        \* projection_replay_jobs row of the one repair key
          repairCommand,    \* command_idempotency row of that key
          report            \* the completed reconciliation run

projectionVars == <<entity, projectedRow, snapshot, registry, eventLog,
                    damaged, altered, repairJob, repairCommand, report>>

NoRow == [row |-> "none"]

SUPPORTED_PROJECTION_TYPES == {
  "principal", "subject", "account_binding", "pool_obligation_binding",
  "pool_obligation_projection", "pool_execution_receipt",
  "pool_obligation_effect_receipt",
  "agent_secured_facility_authorization", "agent_account_challenge",
  "agent_account_proof_attempt", "execution_account_binding_challenge",
  "execution_account_binding_proof_attempt", "agentic_execution_record",
  "mandate", "mandate_reservation", "mandate_release", "provider",
  "provider_intent_delivery", "provider_intent_acknowledgement",
  "provider_callback_inbox", "metered_usage_evidence",
  "metered_usage_admission", "spend_policy", "spend_request",
  "ledger_account", "ledger_transaction", "lockbox", "obligation",
  "sandbox_execution_receipt", "sandbox_servicing_action", "repayment",
  "consent_record", "human_identity_reference", "credit_intent",
  "credit_offer", "credit_offer_acceptance",
  "workspace_continuation_receipt", "credit_line", "risk_decision",
  "credit_passport_artifact", "official_report_artifact",
  "trading_credit_profile", "trading_capital_request",
  "trading_provider_mandate", "trading_match_proposal",
  "trading_facility", "trading_order_intent",
  "hypercore_account_binding", "hypercore_api_wallet_delegate",
  "hypercore_delegate_tombstone", "trading_facility_risk_evaluation",
  "trading_facility_close_request", "trading_settlement",
  "trading_performance_proof", "admin_action", "pilot_feedback_record",
  "pilot_case", "approval_proposal", "approval_decision",
  "approval_execution", "break_glass_incident",
  "break_glass_custodian_decision", "break_glass_review"}

\* The kinds whose writes differ by a tag inside the value.
variants(type) ==
  CASE type = "agentic_execution_record" ->
         {"target_policy", "grant", "grant_transition", "pending_exposure",
          "prepared_execution", "simulation_report", "preflight_receipt"}
    [] type \in {"obligation", "repayment"} -> {"v1", "v2"}
    [] OTHER -> {"v1"}

-----------------------------------------------------------------------------
(***************************************************************************)
(* What a write leaves in the table: {} when it is refused and the         *)
(* transaction rolls back.                                                 *)
(***************************************************************************)
\* INSERT ... ON CONFLICT DO NOTHING, refused unless a row was inserted.
inserted(old, new) == IF old = NoRow THEN {new} ELSE {}

\* The same, with the existing row accepted when it holds the same value.
insertedOrSame(old, new) == IF old \in {NoRow, new} THEN {new} ELSE {}


\* ON CONFLICT DO UPDATE of the state WHERE the terms are the same.
restated(old, new) ==
  IF old = NoRow \/ old.terms = new.terms THEN {new} ELSE {}

\* The same, and the update may not be older than the row.
notLower(old, new) ==
  IF old = NoRow THEN {new} ELSE {v \in restated(old, new) : v.state >= old.state}

\* The same, and the version grows by exactly one.
advanced(old, new) ==
  IF old = NoRow THEN {new} ELSE {v \in restated(old, new) : v.state = old.state + 1}

\* The same, or the very value that is there.
keptOrAdvanced(old, new) == advanced(old, new) \cup ({old} \cap {new})

\* From the first state to the second, once.
closedOnce(old, new) ==
  IF old = NoRow THEN {new}
  ELSE {v \in restated(old, new) : old.state = 1 /\ v.state = 2}

revokedOnce(old, new) == closedOnce(old, new) \cap advanced(old, new)

\* ON CONFLICT DO UPDATE with no WHERE: the columns of the terms stay, and
\* the table's trigger makes the version grow by exactly one.
reissued(old, new) ==
  IF old = NoRow THEN {new}
  ELSE IF new.state = old.state + 1 THEN {[old EXCEPT !.state = new.state]} ELSE {}

writeAgenticExecutionTargetPolicy(old, new) == insertedOrSame(old, new)

writeAgenticExecutionGrant(old, new) == advanced(old, new)

writeAgenticExecutionGrantTransition(old, new) == inserted(old, new)

writeAgenticExecutionPendingExposure(old, new) == closedOnce(old, new)

writeAgenticExecutionPrepared(old, new) == inserted(old, new)

writeAgenticExecutionSimulation(old, new) == inserted(old, new)

writeAgenticExecutionPreflight(old, new) == inserted(old, new)

writePrincipal(old, new) == restated(old, new)

writeSubject(old, new) == restated(old, new)

writeAccountBinding(old, new) == restated(old, new)

writePoolObligationBinding(old, new) == restated(old, new)

writePoolObligationProjection(old, new) == advanced(old, new)

writePoolExecutionReceipt(old, new) == inserted(old, new)

writePoolObligationEffectReceipt(old, new) == inserted(old, new)

writeAgentSecuredFacilityAuthorization(old, new) == revokedOnce(old, new)

writeAgentAccountChallenge(old, new) == restated(old, new)

writeAgentAccountProofAttempt(old, new) == inserted(old, new)

writeExecutionAccountBindingChallenge(old, new) == restated(old, new)

writeExecutionAccountBindingProofAttempt(old, new) == inserted(old, new)

writeMandate(old, new) == notLower(old, new)

writeMandateReservation(old, new) == restated(old, new)

writeMandateRelease(old, new) == insertedOrSame(old, new)

writeProvider(old, new) == restated(old, new)

writeProviderIntentDelivery(old, new) == advanced(old, new)

writeProviderIntentAcknowledgement(old, new) == inserted(old, new)

writeProviderCallbackInbox(old, new) == inserted(old, new)

writeMeteredUsageEvidence(old, new) == inserted(old, new)

writeMeteredUsageAdmission(old, new) == inserted(old, new)

writeSpendPolicy(old, new) == restated(old, new)

writeSpendRequest(old, new) == restated(old, new)

writeLedgerAccount(old, new) == restated(old, new)

writeLedgerTransaction(old, new) == insertedOrSame(old, new)

writeLockbox(old, new) == restated(old, new)

writeSharedObligation(old, new) == restated(old, new)

writeSandboxExecutionReceipt(old, new) == insertedOrSame(old, new)

writeSandboxServicingAction(old, new) == insertedOrSame(old, new)

writeSharedRepayment(old, new) == insertedOrSame(old, new)

writeConsentRecord(old, new) == restated(old, new)

writeHumanIdentityReference(old, new) == restated(old, new)

writeCreditIntent(old, new) == restated(old, new)

writeCreditOffer(old, new) == notLower(old, new)

writeCreditOfferAcceptance(old, new) == insertedOrSame(old, new)

writeWorkspaceContinuationReceipt(old, new) == notLower(old, new)

writeCreditLine(old, new) == restated(old, new)

writeRiskDecision(old, new) == insertedOrSame(old, new)

writeCreditPassportArtifact(old, new) == reissued(old, new)

writeOfficialReportArtifact(old, new) == reissued(old, new)

writeTradingCreditProfile(old, new) == reissued(old, new)

writeTradingCapitalRequest(old, new) == inserted(old, new)

writeTradingProviderMandate(old, new) == inserted(old, new)

writeTradingMatchProposal(old, new) == reissued(old, new)

writeTradingFacility(old, new) == reissued(old, new)

writeTradingOrderIntent(old, new) == closedOnce(old, new)

writeHypercoreAccountBinding(old, new) == inserted(old, new)

writeHypercoreApiWalletDelegate(old, new) == reissued(old, new)

writeHypercoreDelegateTombstone(old, new) == inserted(old, new)

writeTradingFacilityRiskEvaluation(old, new) == inserted(old, new)

writeTradingFacilityCloseRequest(old, new) == inserted(old, new)

writeTradingSettlement(old, new) == inserted(old, new)

writeTradingPerformanceProof(old, new) == inserted(old, new)

writeAdminAction(old, new) == insertedOrSame(old, new)

writePilotFeedbackRecord(old, new) == insertedOrSame(old, new)

writePilotCase(old, new) == keptOrAdvanced(old, new)

writeApprovalProposal(old, new) == advanced(old, new)

writeApprovalDecision(old, new) == insertedOrSame(old, new)

writeApprovalExecution(old, new) == insertedOrSame(old, new)

writeBreakGlassIncident(old, new) == advanced(old, new)

writeBreakGlassCustodianDecision(old, new) == insertedOrSame(old, new)

writeBreakGlassReview(old, new) == insertedOrSame(old, new)

writeAgenticExecutionRecord(variant, old, new) ==
  CASE variant = "target_policy" -> writeAgenticExecutionTargetPolicy(old, new)
    [] variant = "grant" -> writeAgenticExecutionGrant(old, new)
    [] variant = "grant_transition" -> writeAgenticExecutionGrantTransition(old, new)
    [] variant = "pending_exposure" -> writeAgenticExecutionPendingExposure(old, new)
    [] variant = "prepared_execution" -> writeAgenticExecutionPrepared(old, new)
    [] variant = "simulation_report" -> writeAgenticExecutionSimulation(old, new)
    [] variant = "preflight_receipt" -> writeAgenticExecutionPreflight(old, new)

writeObligation(variant, old, new) ==
  IF variant = "v2" THEN writeSharedObligation(old, new) ELSE restated(old, new)

writeRepayment(variant, old, new) ==
  IF variant = "v2" THEN writeSharedRepayment(old, new)
  ELSE insertedOrSame(old, new)

applyWrite(e, old, new) ==
  CASE e.type = "principal" -> writePrincipal(old, new)
    [] e.type = "subject" -> writeSubject(old, new)
    [] e.type = "account_binding" -> writeAccountBinding(old, new)
    [] e.type = "pool_obligation_binding" ->
         writePoolObligationBinding(old, new)
    [] e.type = "pool_obligation_projection" ->
         writePoolObligationProjection(old, new)
    [] e.type = "pool_execution_receipt" ->
         writePoolExecutionReceipt(old, new)
    [] e.type = "pool_obligation_effect_receipt" ->
         writePoolObligationEffectReceipt(old, new)
    [] e.type = "agent_secured_facility_authorization" ->
         writeAgentSecuredFacilityAuthorization(old, new)
    [] e.type = "agent_account_challenge" ->
         writeAgentAccountChallenge(old, new)
    [] e.type = "agent_account_proof_attempt" ->
         writeAgentAccountProofAttempt(old, new)
    [] e.type = "execution_account_binding_challenge" ->
         writeExecutionAccountBindingChallenge(old, new)
    [] e.type = "execution_account_binding_proof_attempt" ->
         writeExecutionAccountBindingProofAttempt(old, new)
    [] e.type = "agentic_execution_record" ->
         writeAgenticExecutionRecord(e.variant, old, new)
    [] e.type = "mandate" -> writeMandate(old, new)
    [] e.type = "mandate_reservation" -> writeMandateReservation(old, new)
    [] e.type = "mandate_release" -> writeMandateRelease(old, new)
    [] e.type = "provider" -> writeProvider(old, new)
    [] e.type = "provider_intent_delivery" ->
         writeProviderIntentDelivery(old, new)
    [] e.type = "provider_intent_acknowledgement" ->
         writeProviderIntentAcknowledgement(old, new)
    [] e.type = "provider_callback_inbox" ->
         writeProviderCallbackInbox(old, new)
    [] e.type = "metered_usage_evidence" ->
         writeMeteredUsageEvidence(old, new)
    [] e.type = "metered_usage_admission" ->
         writeMeteredUsageAdmission(old, new)
    [] e.type = "spend_policy" -> writeSpendPolicy(old, new)
    [] e.type = "spend_request" -> writeSpendRequest(old, new)
    [] e.type = "ledger_account" -> writeLedgerAccount(old, new)
    [] e.type = "ledger_transaction" -> writeLedgerTransaction(old, new)
    [] e.type = "lockbox" -> writeLockbox(old, new)
    [] e.type = "obligation" -> writeObligation(e.variant, old, new)
    [] e.type = "sandbox_execution_receipt" ->
         writeSandboxExecutionReceipt(old, new)
    [] e.type = "sandbox_servicing_action" ->
         writeSandboxServicingAction(old, new)
    [] e.type = "repayment" -> writeRepayment(e.variant, old, new)
    [] e.type = "consent_record" -> writeConsentRecord(old, new)
    [] e.type = "human_identity_reference" ->
         writeHumanIdentityReference(old, new)
    [] e.type = "credit_intent" -> writeCreditIntent(old, new)
    [] e.type = "credit_offer" -> writeCreditOffer(old, new)
    [] e.type = "credit_offer_acceptance" ->
         writeCreditOfferAcceptance(old, new)
    [] e.type = "workspace_continuation_receipt" ->
         writeWorkspaceContinuationReceipt(old, new)
    [] e.type = "credit_line" -> writeCreditLine(old, new)
    [] e.type = "risk_decision" -> writeRiskDecision(old, new)
    [] e.type = "credit_passport_artifact" ->
         writeCreditPassportArtifact(old, new)
    [] e.type = "official_report_artifact" ->
         writeOfficialReportArtifact(old, new)
    [] e.type = "trading_credit_profile" ->
         writeTradingCreditProfile(old, new)
    [] e.type = "trading_capital_request" ->
         writeTradingCapitalRequest(old, new)
    [] e.type = "trading_provider_mandate" ->
         writeTradingProviderMandate(old, new)
    [] e.type = "trading_match_proposal" ->
         writeTradingMatchProposal(old, new)
    [] e.type = "trading_facility" -> writeTradingFacility(old, new)
    [] e.type = "trading_order_intent" -> writeTradingOrderIntent(old, new)
    [] e.type = "hypercore_account_binding" ->
         writeHypercoreAccountBinding(old, new)
    [] e.type = "hypercore_api_wallet_delegate" ->
         writeHypercoreApiWalletDelegate(old, new)
    [] e.type = "hypercore_delegate_tombstone" ->
         writeHypercoreDelegateTombstone(old, new)
    [] e.type = "trading_facility_risk_evaluation" ->
         writeTradingFacilityRiskEvaluation(old, new)
    [] e.type = "trading_facility_close_request" ->
         writeTradingFacilityCloseRequest(old, new)
    [] e.type = "trading_settlement" -> writeTradingSettlement(old, new)
    [] e.type = "trading_performance_proof" ->
         writeTradingPerformanceProof(old, new)
    [] e.type = "admin_action" -> writeAdminAction(old, new)
    [] e.type = "pilot_feedback_record" -> writePilotFeedbackRecord(old, new)
    [] e.type = "pilot_case" -> writePilotCase(old, new)
    [] e.type = "approval_proposal" -> writeApprovalProposal(old, new)
    [] e.type = "approval_decision" -> writeApprovalDecision(old, new)
    [] e.type = "approval_execution" -> writeApprovalExecution(old, new)
    [] e.type = "break_glass_incident" -> writeBreakGlassIncident(old, new)
    [] e.type = "break_glass_custodian_decision" ->
         writeBreakGlassCustodianDecision(old, new)
    [] e.type = "break_glass_review" -> writeBreakGlassReview(old, new)

-----------------------------------------------------------------------------
(***************************************************************************)
(* Commands                                                                *)
(***************************************************************************)
IdentifiedByTerms ==
  {"credit_passport_artifact", "official_report_artifact",
   "trading_credit_profile", "trading_match_proposal", "trading_facility",
   "hypercore_api_wallet_delegate"}

\* A value a command may write: an entity starts in its first state, and
\* where the identifier is the hash of the terms they cannot differ.
values ==
  {v \in [terms : 1 .. 2, state : 1 .. MaxState] :
     /\ projectedRow = NoRow => v = [terms |-> 1, state |-> 1]
     /\ entity.type \in IdentifiedByTerms => v.terms = 1}

\* Appends one event to the root's stream, with the evidence, credit event and
\* outbox row of the event and the command's link and answer.
appended(root) ==
  LET event == <<root, eventLog.heads[root] + 1>>
  IN  [heads |-> [eventLog.heads EXCEPT ![root] = @ + 1],
       events |-> eventLog.events \cup {event},
       companions |-> eventLog.companions \cup {event},
       links |-> eventLog.links @@ (event :> event),
       answers |-> eventLog.answers @@ (event :> [response |-> "given", hash |-> "given"])]

appendable(root) == <<root, eventLog.heads[root] + 1>> \notin eventLog.events

\* The transaction of a command: its event, the row, the snapshot of the value
\* (rooted at the stream of the event) and the registry entry.
commitCommand(root, value) ==
  /\ appendable(root)
  /\ Cardinality(eventLog.events) < MaxCommits
  /\ projectedRow' \in applyWrite(entity, projectedRow, value)
  /\ eventLog' = appended(root)
  /\ snapshot' = [value |-> value, root |-> root,
                  number |-> Cardinality(eventLog.events) + 1]
  /\ registry' = value
  /\ damaged' = damaged \ {"row", "missing", "registry"}
  /\ UNCHANGED entity

command(root, value) ==
  /\ commitCommand(root, value)
  /\ UNCHANGED <<callVars, altered, repairJob, repairCommand, report>>

-----------------------------------------------------------------------------
(***************************************************************************)
(* One table is altered outside the repository, as far as its own guards   *)
(* let it.                                                                 *)
(***************************************************************************)
alterations ==
  {r \in [terms : {1}, state : 1 .. MaxState] \ {projectedRow} :
     projectedRow # NoRow /\ r \in applyWrite(entity, projectedRow, r)}

alterRow ==
  /\ projectedRow' \in alterations
  /\ damaged' = {"row"}
  /\ UNCHANGED <<registry, eventLog>>

loseRow ==
  /\ alterations # {}
  /\ projectedRow' = NoRow
  /\ damaged' = {"missing"}
  /\ UNCHANGED <<registry, eventLog>>

alterRegistry ==
  /\ registry # NoRow
  /\ registry' = [registry EXCEPT !.state = @ + 1]
  /\ damaged' = {"registry"}
  /\ UNCHANGED <<projectedRow, eventLog>>

alterLog ==
  /\ \E e \in eventLog.events : \E table \in {"heads", "companions", "links", "answers"} :
       /\ damaged' = {table}
       /\ eventLog' =
            CASE table = "heads" -> [eventLog EXCEPT !.heads[e[1]] = @ - 1]
              [] table = "companions" -> [eventLog EXCEPT !.companions = @ \ {e}]
              [] table = "links" -> [eventLog EXCEPT !.links[e] = <<e[1], 0>>]
              [] table = "answers" -> [eventLog EXCEPT !.answers[e].response = "altered"]
  /\ UNCHANGED <<projectedRow, registry>>

alter ==
  /\ ~altered /\ altered' = TRUE
  /\ alterRow \/ loseRow \/ alterRegistry \/ alterLog
  /\ UNCHANGED <<callVars, entity, snapshot, repairJob, repairCommand, report>>

-----------------------------------------------------------------------------
(***************************************************************************)
(* A reconciliation run: every check reads on its own.                     *)
(***************************************************************************)
add(c, code) ==
  IF Len(c.found) >= MaxDiscrepancies - 1
  THEN [c EXCEPT !.truncated = @ + 1]
  ELSE [c EXCEPT !.found = Append(@, code)]

\* The call after a check that found one discrepancy for each of "bad".
checked(c, step, bad, code) ==
  [FoldLeft(add, c, [i \in 1 .. Cardinality(bad) |-> code])
     EXCEPT !.step = step, !.read = <<>>]

checkStreamHeads ==
  {r \in Roots : eventLog.heads[r] # Cardinality({e \in eventLog.events : e[1] = r})}

checkEventCompanions == eventLog.events \ eventLog.companions

checkCommandIntegrity ==
  {e \in eventLog.events : eventLog.links[e] # e}
    \cup {e \in eventLog.events : eventLog.answers[e].response # eventLog.answers[e].hash}

\* Kinds with a row in the registry that the coverage query does not list.
UncoveredTypes ==
  {"pool_obligation_binding", "pool_obligation_projection",
   "pool_execution_receipt", "pool_obligation_effect_receipt",
   "agent_secured_facility_authorization",
   "execution_account_binding_challenge",
   "execution_account_binding_proof_attempt", "agentic_execution_record"}

checkProjectionCoverage ==
  LET listed == projectedRow # NoRow /\ entity.type \notin UncoveredTypes
      registered == registry # NoRow
  IN  {x \in {entity} : (listed \/ registered)
                          /\ ~(listed /\ registered /\ snapshot # NoRow)}

\* One run in a behaviour: a later one starts from tables just as this one.
beginRun(w) ==
  /\ report = NoRow /\ \A v \in Workers : call[v] = Idle
  /\ hold(w, [op |-> "run", step |-> "log", found |-> <<>>, truncated |-> 0,
              read |-> <<>>, since |-> <<Cardinality(eventLog.events), damaged>>])
  /\ UNCHANGED projectionVars

checkLogTables(w) ==
  /\ call[w].op = "run" /\ call[w].step = "log"
  /\ hold(w, checked(
              checked(
               checked(call[w], "log", checkStreamHeads, "stream_head_mismatch"),
               "log", checkEventCompanions, "event_companion_mismatch"),
              "coverage", checkCommandIntegrity, "command_integrity_mismatch"))
  /\ UNCHANGED projectionVars

checkCoverage(w) ==
  /\ call[w].op = "run" /\ call[w].step = "coverage"
  /\ hold(w, checked(call[w], IF registry = NoRow THEN "complete" ELSE "hashes",
                     checkProjectionCoverage, "projection_coverage_mismatch"))
  /\ UNCHANGED projectionVars

\* verifyProjection reads the registry, the snapshot and the row in three
\* transactions of their own, in any order.
readOne(w, name, value) ==
  hold(w, [call[w] EXCEPT !.read = @ @@ (name :> value)])

alreadyRead(w) == DOMAIN call[w].read

verifyProjection(w) ==
  /\ call[w].op = "run" /\ call[w].step = "hashes"
  /\ \/ "registry" \notin alreadyRead(w) /\ readOne(w, "registry", registry)
     \/ "snapshot" \notin alreadyRead(w) /\ readOne(w, "snapshot", snapshot.value)
     \/ "row" \notin alreadyRead(w) /\ readOne(w, "row", projectedRow)
  /\ UNCHANGED projectionVars

\* Mutant: the registry is not compared.
matchesSnapshotOnly(r) == r.row # NoRow /\ r.snapshot = r.row

matches(r) ==
  /\ r.row # NoRow /\ r.registry # NoRow /\ r.snapshot # NoRow
  /\ r.snapshot = r.row
  /\ r.registry = r.snapshot

checkProjectionHashes(w) ==
  /\ call[w].op = "run" /\ call[w].step = "hashes"
  /\ alreadyRead(w) = {"registry", "snapshot", "row"}
  /\ hold(w, checked(call[w], "complete",
                     {x \in {entity} : ~matches(call[w].read)},
                     "projection_hash_mismatch"))
  /\ UNCHANGED projectionVars

\* The run, its discrepancies and their events are committed together.
completeRun(w) ==
  /\ call[w].op = "run" /\ call[w].step = "complete"
  /\ report' = [passed |-> call[w].found = <<>> /\ call[w].truncated = 0,
                damage |-> call[w].since[2] \cap damaged,
                undisturbed |-> call[w].since = <<Cardinality(eventLog.events), damaged>>]
  /\ ends(w)
  /\ UNCHANGED <<entity, projectedRow, snapshot, registry, eventLog, damaged,
                 altered, repairJob, repairCommand>>

-----------------------------------------------------------------------------
(***************************************************************************)
(* A repair, always retried with the same idempotency key and request.     *)
(***************************************************************************)
\* Records the job, or finds the one of an earlier try.
beginRepair(w) ==
  /\ call[w] = Idle /\ \A v \in Workers : call[v].op # "repair"
  /\ snapshot # NoRow
  /\ repairJob # "completed"
  /\ repairJob' = IF repairJob = "none" THEN "awaiting_approval" ELSE repairJob
  /\ hold(w, [op |-> "repair", step |-> "snapshot"])
  /\ UNCHANGED <<entity, projectedRow, snapshot, registry, eventLog, damaged,
                 altered, repairCommand, report>>

getLatestProjectionSnapshot(w) ==
  /\ call[w].op = "repair" /\ call[w].step = "snapshot"
  /\ hold(w, [op |-> "repair", step |-> "version", snapshot |-> snapshot])
  /\ UNCHANGED projectionVars

getStreamVersion(w) ==
  /\ call[w].op = "repair" /\ call[w].step = "version"
  /\ hold(w, [op |-> "repair", step |-> "commit", snapshot |-> call[w].snapshot,
              expected |-> eventLog.heads[call[w].snapshot.root]])
  /\ UNCHANGED projectionVars

\* The repair's command: its hash names the snapshot it restores, so the key
\* replays for that snapshot only; it fails on a newer stream or a refused
\* write.
repairProjection(w) ==
  LET s == call[w].snapshot
      goes(step) == hold(w, [op |-> "repair", step |-> step])
  IN  /\ call[w].op = "repair" /\ call[w].step = "commit"
      /\ \/ /\ repairCommand = s.number
            /\ goes("completed")
            /\ UNCHANGED projectionVars
         \/ /\ repairCommand = 0
            /\ eventLog.heads[s.root] = call[w].expected
            /\ commitCommand(s.root, s.value)
            /\ repairCommand' = s.number
            /\ goes("completed")
            /\ UNCHANGED <<altered, repairJob, report>>
         \/ /\ \/ repairCommand \notin {0, s.number}
               \/ /\ repairCommand = 0
                  /\ \/ eventLog.heads[s.root] # call[w].expected
                     \/ ~appendable(s.root)
                     \/ applyWrite(entity, projectedRow, s.value) = {}
            /\ goes("failed")
            /\ UNCHANGED projectionVars

finishRepair(w) ==
  /\ call[w].op = "repair" /\ call[w].step \in {"completed", "failed"}
  /\ repairJob' = call[w].step
  /\ ends(w)
  /\ UNCHANGED <<entity, projectedRow, snapshot, registry, eventLog, damaged,
                 altered, repairCommand, report>>

crash(w) == call[w].op = "repair" /\ ends(w) /\ UNCHANGED projectionVars

-----------------------------------------------------------------------------
entities == UNION {{[type |-> t, variant |-> v] : v \in variants(t)} :
                     t \in SUPPORTED_PROJECTION_TYPES}

ProjectionInit(kinds) ==
  /\ entity \in kinds
  /\ projectedRow = NoRow /\ snapshot = NoRow /\ registry = NoRow
  /\ eventLog = [heads |-> [r \in Roots |-> 0], events |-> {}, companions |-> {},
                 links |-> <<>>, answers |-> <<>>]
  /\ damaged = {} /\ altered = FALSE /\ repairJob = "none" /\ repairCommand = 0 /\ report = NoRow

ProjectionNext ==
  \/ \E root \in Roots, value \in values : command(root, value)
  \/ alter

\* A repair meets a run's reads as any other command does, so the two are
\* taken apart.
ReconciliationNext ==
  \/ ProjectionNext
  \/ \E w \in Workers :
       \/ beginRun(w) \/ checkLogTables(w) \/ checkCoverage(w)
       \/ verifyProjection(w) \/ checkProjectionHashes(w) \/ completeRun(w)

RepairNext ==
  \/ ProjectionNext
  \/ \E w \in Workers :
       \/ beginRepair(w) \/ getLatestProjectionSnapshot(w) \/ getStreamVersion(w)
       \/ repairProjection(w) \/ finishRepair(w) \/ crash(w)

-----------------------------------------------------------------------------

\* A reconciliation run (PostgresReconciliationService.run) fails when a table
\* was altered before it began and stayed so until it ended, however few
\* discrepancies it may list; and it passes when nothing was altered and no
\* command came between its reads, for every kind the coverage query lists.
ReportsTrue ==
  report # NoRow =>
    /\ report.damage # {} => ~report.passed
    /\ (report.undisturbed /\ report.damage = {}
          /\ entity.type \notin UncoveredTypes) => report.passed
=============================================================================
