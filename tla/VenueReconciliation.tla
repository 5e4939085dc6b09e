------------------------- MODULE VenueReconciliation -------------------------
(***************************************************************************)
(* The Testnet reconciliation of submitted commands: a run is bound to a   *)
(* kernel snapshot, polls the venue, and consumes each observation through *)
(* the durable inbox, under the run's row lock.  Observation, snapshot and *)
(* transaction are separate steps, and two workers may reconcile the same  *)
(* run, so an observation may be consumed long after it was made.          *)
(***************************************************************************)
EXTENDS RiskGuardian

CONSTANTS MAX_POLL_ATTEMPTS,    \* polls of one call
          CIRCUIT_BREAKER_FAILURE_THRESHOLD,
          MaxVersion            \* bound: no call starts on a run past it

VARIABLES runs,         \* runs[x]: the reconciliation run of command x
          kernel        \* version of facility, order and Ledger rows

reconciliationVars == <<runs, kernel>>

TERMINAL_STATUSES == {"RECONCILED", "REJECTED", "INCIDENT", "SAFE_STOPPED"}

NoReconciliation ==
  [status |-> "none", order |-> "none", filled |-> 0, failures |-> 0,
   breaker |-> FALSE, blocked |-> TRUE, riskState |-> "NORMAL",
   request |-> [kernel |-> 0, nonceState |-> "none", riskState |-> "NORMAL",
                riskSnapshot |-> 0],
   version |-> 0]

ReconciliationInit ==
  /\ runs = [x \in Commands |-> NoReconciliation]
  /\ kernel = 1

\* Which executions a snapshot admits.
assertKernelSnapshot(x) ==
  executions[x].state \in {"SUBMITTED"} \cup TERMINAL_NONCE_STATES

\* What the kernel resolver answers now, all of it hashed into a request.
kernelSnapshot(x) ==
  [kernel |-> kernel, nonceState |-> executions[x].state,
   riskState |-> createHyperliquidTestnetRiskSnapshot(risk),
   riskSnapshot |-> risk.changes]

createPendingHyperliquidReconciliationRecord(snapshot) ==
  [status |-> "PENDING", order |-> "PENDING", filled |-> 0, failures |-> 0,
   breaker |-> FALSE, blocked |-> TRUE, riskState |-> snapshot.riskState,
   request |-> snapshot, version |-> 1]

requestedSize(x) == normalizeAction(actionKind[x]).size

\* What every stored record must satisfy.
assertRecord(record) ==
  /\ record.status \in {"PARTIAL", "UNKNOWN"} => record.blocked
  /\ record.status = "PENDING" => record.version = 1 /\ record.order = "PENDING"
  /\ record.status = "SAFE_STOPPED" => record.breaker

-----------------------------------------------------------------------------
\* One observation applied to a run.

kernelContradiction(record, snapshot) ==
  \/ snapshot.kernel # record.request.kernel
  \/ riskRank(snapshot.riskState) < riskRank(record.riskState)

fresh(o) == o.kind = "NORMALIZED_STATE" /\ o.fresh

\* Cumulative cursors may neither shrink nor pass the request, and the venue
\* status must fit them.
incidentReason(x, record, o) ==
  \/ o.filled < record.filled \/ o.filled > requestedSize(x)
  \/ /\ fresh(o)
     /\ \/ o.status = "PARTIALLY_FILLED"
             /\ (o.filled = 0 \/ o.filled >= requestedSize(x))
        \/ o.status = "FILLED"
             /\ (isCancel(actionKind[x]) \/ o.filled # requestedSize(x))
        \/ o.status = "REJECTED" /\ o.filled # 0

nextFailureCount(record, o) ==
  IF o.kind = "ADAPTER_OUTAGE" THEN record.failures + 1
  ELSE IF fresh(o) THEN 0
  ELSE record.failures

NotFoundIsFinal(o) ==
  IF ~fresh(o) THEN "UNKNOWN"
  ELSE IF o.status \in LiveStatuses THEN "PARTIAL"
  ELSE IF o.status = "REJECTED" THEN "REJECTED"
  ELSE "RECONCILED"

derivedStatus(o) ==
  IF ~fresh(o) \/ o.status \in {"NOT_FOUND", "UNKNOWN"} THEN "UNKNOWN"
  ELSE IF o.status \in LiveStatuses THEN "PARTIAL"
  ELSE IF o.status = "REJECTED" THEN "REJECTED"
  ELSE "RECONCILED"

derivedOrder(o) ==
  IF derivedStatus(o) = "UNKNOWN" THEN "UNKNOWN"
  ELSE IF o.status = "OPEN" /\ o.filled > 0 THEN "PARTIALLY_FILLED"
  ELSE o.status

reducesOnly(riskState) == riskRank(riskState) >= riskRank("REDUCE_ONLY")

\* New risk stays blocked until the outcome is proven and the risk state
\* allows it.
derivedState(record, o) ==
  LET failures == nextFailureCount(record, o)
      status == derivedStatus(o)
  IN  [status |-> status, order |-> derivedOrder(o), filled |-> o.filled,
       failures |-> failures,
       breaker |-> record.breaker
                     \/ failures >= CIRCUIT_BREAKER_FAILURE_THRESHOLD,
       blocked |-> \/ status \notin {"RECONCILED", "REJECTED"}
                   \/ reducesOnly(record.riskState)]

transitionHyperliquidReconciliationRecord(x, record, o, snapshot) ==
  LET contradicts == kernelContradiction(record, snapshot)
      next == derivedState(record, o)
  IN  IF contradicts \/ incidentReason(x, record, o)
      THEN [status |-> "INCIDENT", order |-> "INCIDENT",
            filled |-> record.filled, failures |-> next.failures,
            breaker |-> TRUE, blocked |-> TRUE,
            riskState |-> IF contradicts THEN record.riskState
                          ELSE snapshot.riskState,
            request |-> record.request, version |-> record.version + 1]
      ELSE [status |-> next.status, order |-> next.order,
            filled |-> next.filled, failures |-> next.failures,
            breaker |-> next.breaker,
            blocked |-> next.blocked \/ reducesOnly(snapshot.riskState),
            riskState |-> snapshot.riskState,
            request |-> record.request, version |-> record.version + 1]

safeStopHyperliquidReconciliationRecord(record) ==
  [status |-> "SAFE_STOPPED", order |-> "SAFE_STOPPED",
   filled |-> record.filled, failures |-> record.failures,
   breaker |-> TRUE, blocked |-> TRUE, riskState |-> record.riskState,
   request |-> record.request, version |-> record.version + 1]

-----------------------------------------------------------------------------
\* The steps of reconcile().

unchangedElsewhere ==
  UNCHANGED <<executionVars, guardianVars, venue, position, risk, kernel>>

settled(record) == record.status \in TERMINAL_STATUSES \/ record.breaker

\* Resolve the snapshot, be authorized, and start the run or replay its start:
\* a replay is refused unless its snapshot is the one the run was started from.
reconcile(w, x) ==
  /\ call[w] = Idle
  /\ runs[x].version < MaxVersion
  /\ assertKernelSnapshot(x)
  /\ \/ /\ runs[x] = NoReconciliation
        /\ runs' = [runs EXCEPT ![x] =
                      createPendingHyperliquidReconciliationRecord(
                        kernelSnapshot(x))]
     \/ /\ runs[x].request = kernelSnapshot(x)
        /\ UNCHANGED runs
  /\ IF settled(runs'[x]) THEN UNCHANGED callVars
     ELSE hold(w, [op |-> "reconcile", step |-> "observe", x |-> x,
                   polls |-> MAX_POLL_ATTEMPTS, filled |-> runs'[x].filled])
  /\ unchangedElsewhere

\* An observation the service makes up carries the cursor of the record it
\* last saw.
systemObservation(w, kind) ==
  [kind |-> kind, status |-> "UNKNOWN", filled |-> call[w].filled,
   fresh |-> FALSE]

\* What the adapter normalizes: the order as the venue has it now, or that it
\* was not found; complete and fresh, or not.
createSimulatedHyperliquidVenueObservation(x, isFresh) ==
  [kind |-> "NORMALIZED_STATE", filled |-> venue[x].filled, fresh |-> isFresh,
   status |-> IF venue[x].status = "none" THEN "NOT_FOUND"
              ELSE venue[x].status]

observe(w) ==
  LET x == call[w].x
  IN  /\ call[w].op = "reconcile" /\ call[w].step = "observe"
      /\ \E o \in IF call[w].polls = 0
                  THEN {systemObservation(w, "POLL_BUDGET_EXHAUSTED")}
                  ELSE {systemObservation(w, "ADAPTER_OUTAGE")} \cup
                       {createSimulatedHyperliquidVenueObservation(x, f) :
                          f \in BOOLEAN} :
           hold(w, [op |-> "reconcile", step |-> "consume", x |-> x,
                    polls |-> call[w].polls, observation |-> o,
                    snapshot |-> kernelSnapshot(x)])
      /\ UNCHANGED runs
      /\ unchangedElsewhere

\* One inbox transaction under the run's row lock.
consumeObservation(w) ==
  LET c == call[w]
      record == runs[c.x]
      next == IF record.status \in TERMINAL_STATUSES THEN record
              ELSE transitionHyperliquidReconciliationRecord(
                     c.x, record, c.observation, c.snapshot)
  IN  /\ c.op = "reconcile" /\ c.step = "consume"
      /\ assertRecord(next)
      /\ runs' = [runs EXCEPT ![c.x] = next]
      /\ IF settled(next) \/ c.polls = 0 THEN hold(w, Idle)
         ELSE hold(w, [op |-> "reconcile", step |-> "observe", x |-> c.x,
                       polls |-> c.polls - 1, filled |-> next.filled])
      /\ unchangedElsewhere

\* An operator reads the record, is authorized, and appends the stop under the
\* version it read: a run that moved on refuses it.
safeStop(w, x) ==
  /\ call[w] = Idle
  /\ runs[x].status \notin TERMINAL_STATUSES \cup {"none"}
  /\ hold(w, [op |-> "safe_stop", x |-> x, read |-> runs[x]])
  /\ UNCHANGED runs
  /\ unchangedElsewhere

commitSafeStop(w) ==
  LET c == call[w]
  IN  /\ c.op = "safe_stop"
      /\ runs[c.x].version = c.read.version
      /\ runs' = [runs EXCEPT ![c.x] =
                    safeStopHyperliquidReconciliationRecord(c.read)]
      /\ hold(w, Idle)
      /\ unchangedElsewhere

\* Another command changes the facility, the order intent or the Ledger.
KernelChanges ==
  /\ kernel = 1
  /\ \E x \in Commands : runs[x].status \notin TERMINAL_STATUSES \cup {"none"}
  /\ kernel' = 2
  /\ UNCHANGED <<executionVars, guardianVars, callVars, venue, position, risk, runs>>

\* The trigger on trading_testnet_reconciliation_runs.
guard_trading_testnet_reconciliation_run(old, new) ==
  /\ new.version = old.version + 1
  /\ new.filled >= old.filled
  /\ old.status \in {"PENDING", "PARTIAL", "UNKNOWN"}
  /\ new.status # "PENDING"
=============================================================================
