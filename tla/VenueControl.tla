---------------------------- MODULE VenueControl ----------------------------
(***************************************************************************)
(* The gateway, the guardian and the reconciliation at one venue account.  *)
(* The last two share no record, only the venue, so a behaviour runs the   *)
(* gateway beside one of them; what the other one would do to an order,    *)
(* the venue may do by itself.                                             *)
(***************************************************************************)
EXTENDS VenueReconciliation

venueControlVars == <<executionVars, guardianVars, reconciliationVars, venue,
                      position, risk>>

VenueInit == ExecutionInit /\ GuardianInit /\ ReconciliationInit

ReconciliationNext ==
  \/ \E w \in Workers :
       \/ \E x \in Commands : reconcile(w, x) \/ safeStop(w, x)
       \/ observe(w) \/ consumeObservation(w) \/ commitSafeStop(w)
  \/ KernelChanges

GatewayBesideGuardian ==
  \/ ExecutionNext /\ UNCHANGED <<guardianVars, reconciliationVars>>
  \/ GuardianNext /\ UNCHANGED reconciliationVars

\* What admitted the order does not matter to its reconciliation.
GatewayBesideReconciliation ==
  \/ ExecutionNext /\ UNCHANGED <<risk, guardianVars, reconciliationVars>>
  \/ ReconciliationNext

VenueControlSpec ==
  /\ CallsInit /\ VenueInit
  /\ [][GatewayBesideGuardian \/ GatewayBesideReconciliation]_<<callVars, venueControlVars>>

-----------------------------------------------------------------------------
(***************************************************************************)
(* However calls interleave, are repeated or die, a command reaches the    *)
(* venue at most once and only after its SUBMITTED record; and a control   *)
(* that claims an outcome sent each of its protective actions, no control  *)
(* any of them twice.                                                      *)
(***************************************************************************)
SentOnce ==
  /\ \A x \in Commands :
       submissions[x] <=
         (IF executions[x].state \in {"none", "RESERVED"} THEN 0 ELSE 1)
  /\ \A k \in Controls :
       /\ \A a \in ProtectiveActions : enforced[k][a] <= 1
       /\ controls[k].status \in TERMINAL_CONTROL_STATUSES
            => controls[k].actions =
                 {a \in ProtectiveActions : enforced[k][a] = 1}

(***************************************************************************)
(* A run that says RECONCILED or REJECTED has the venue's last word on the *)
(* order, although its observation may have waited while fills, cancels,   *)
(* another worker's observations and a safe stop went by.                  *)
(***************************************************************************)
ReconciledIsFinal ==
  \A x \in Commands :
    runs[x].status \in {"RECONCILED", "REJECTED"}
      => runs[x].order = venue[x].status /\ runs[x].filled = venue[x].filled

(***************************************************************************)
(* Every update of a run passes the trigger that guards its table: one     *)
(* version, cursors that never shrink, nothing after a terminal status;    *)
(* and an open circuit breaker never closes.                               *)
(***************************************************************************)
RunsAdvance ==
  [][\A x \in Commands :
       /\ runs[x] # NoReconciliation /\ runs'[x] # runs[x]
            => guard_trading_testnet_reconciliation_run(runs[x], runs'[x])
       /\ runs[x].breaker => runs'[x].breaker]_runs
=============================================================================
