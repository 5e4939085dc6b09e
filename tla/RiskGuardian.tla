---------------------------- MODULE RiskGuardian ----------------------------
(***************************************************************************)
(* The Testnet risk guardian: from one risk snapshot and one venue         *)
(* snapshot it plans protective actions, claims the plan, executes each    *)
(* action once, looks at the venue again and records what it proved.  The  *)
(* gateway of VenueExecution trades at the same venue meanwhile.           *)
(***************************************************************************)
EXTENDS VenueExecution

CONSTANT Controls       \* protective requests, by idempotency key

VARIABLES controls,     \* controls[k]: the protective control record
          enforced      \* enforced[k][a]: how often control k sent action a

guardianVars == <<controls, enforced>>

TERMINAL_CONTROL_STATUSES == {"VERIFIED", "INCOMPLETE", "UNKNOWN"}

\* The protective close of the whole position, beside the orders to cancel.
close == "reduceOnlyClose"

warning == "warningNotification"

NoControl == [status |-> "none", target |-> "NORMAL", actions |-> {}]

ProtectiveActions == Commands \cup {close, warning}

GuardianInit ==
  /\ controls = [k \in Controls |-> NoControl]
  /\ enforced = [k \in Controls |-> [a \in ProtectiveActions |-> 0]]

\* A venue snapshot: the orders that rest and whether there is a position.
createHyperliquidTestnetVenueState(freshness) ==
  [openOrders |-> LiveOrders, positions |-> position > 0,
   freshness |-> freshness]

riskIncreasing(x) == ~isServerProvenReducing(actionKind[x])

plannedRawActions(target, v) ==
  LET cancels == IF target = "FLATTEN" THEN v.openOrders
                 ELSE {x \in v.openOrders :
                         riskIncreasing(x) \/ v.freshness # "FRESH"}
      closes == IF target = "FLATTEN" /\ v.positions THEN {close} ELSE {}
  IN  IF target = "WARNING" THEN {warning}
      ELSE IF target \in {"REDUCE_ONLY", "FLATTEN"} THEN cancels \cup closes
      ELSE {}

createHyperliquidProtectiveControlDraft(k) ==
  LET target == createHyperliquidTestnetRiskSnapshot(risk)
  IN  [op |-> "enforce", step |-> "reserve", k |-> k, target |-> target,
       actions |-> plannedRawActions(
                     target, createHyperliquidTestnetVenueState(risk.freshness))]

createPlannedControlRecord(draft) ==
  [status |-> "PLANNED", target |-> draft.target, actions |-> draft.actions]

\* The same key with other contents is a conflict.
sameRequest(record, draft) ==
  record.target = draft.target /\ record.actions = draft.actions

legalControlTransition(previous, next) ==
  \/ previous = "PLANNED" /\ next = "EXECUTING"
  \/ previous = "EXECUTING" /\ next \in TERMINAL_CONTROL_STATUSES

moved(k, next) ==
  controls' = [controls EXCEPT ![k] =
                 [status |-> next, target |-> controls[k].target,
                  actions |-> controls[k].actions]]

transitionHyperliquidProtectiveControl(k, expected, next) ==
  /\ controls[k].status = expected
  /\ legalControlTransition(expected, next)
  /\ moved(k, next)

\* What the snapshot after the actions proves.
createVerification(target, after, forcedUnknown, forcedIncomplete) ==
  IF forcedUnknown \/ after.freshness # "FRESH" THEN "UNKNOWN"
  ELSE IF forcedIncomplete THEN "INCOMPLETE"
  ELSE IF target = "FLATTEN"
  THEN IF after.openOrders = {} /\ ~after.positions THEN "VERIFIED"
       ELSE "INCOMPLETE"
  ELSE IF target = "REDUCE_ONLY"
  THEN IF \E x \in after.openOrders : riskIncreasing(x) THEN "INCOMPLETE"
       ELSE "VERIFIED"
  ELSE "VERIFIED"

-----------------------------------------------------------------------------
\* The steps of enforce().

enforce(w, k) ==
  /\ call[w] = Idle
  /\ hold(w, createHyperliquidProtectiveControlDraft(k))
  /\ UNCHANGED <<executionVars, guardianVars, venue, position, risk>>

\* A replay of a plan nobody claimed goes on with it; of any other it returns
\* the record.
reserveControl(w) ==
  LET c == call[w]
  IN  /\ c.op = "enforce" /\ c.step = "reserve"
      /\ IF controls[c.k] = NoControl
         THEN /\ controls' = [controls EXCEPT ![c.k] =
                                createPlannedControlRecord(c)]
              /\ hold(w, [op |-> "enforce", step |-> "claim", k |-> c.k])
         ELSE /\ UNCHANGED controls
              /\ IF sameRequest(controls[c.k], c)
                      /\ controls[c.k].status = "PLANNED"
                 THEN hold(w, [op |-> "enforce", step |-> "claim", k |-> c.k])
                 ELSE hold(w, Idle)
      /\ UNCHANGED <<executionVars, enforced, venue, position, risk>>

\* The actions left, and whether one went unanswered or was rejected.
acting(k, left, unknown, rejected) ==
  [op |-> "enforce", step |-> "act", k |-> k, left |-> left,
   unknown |-> unknown, rejected |-> rejected]

claimControl(w) ==
  LET k == call[w].k
  IN  /\ call[w].op = "enforce" /\ call[w].step = "claim"
      /\ transitionHyperliquidProtectiveControl(k, "PLANNED", "EXECUTING")
      /\ hold(w, acting(k, controls[k].actions, FALSE, FALSE))
      /\ UNCHANGED <<executionVars, enforced, venue, position, risk>>

\* What a confirmed action does at the venue.
protected(a) ==
  IF a = close THEN position' = 0 /\ UNCHANGED venue
  ELSE IF a \in LiveOrders
  THEN canceled(a) /\ UNCHANGED position
  ELSE UNCHANGED <<venue, position>>

\* One protective action and its answer, the close after the cancels; an
\* interruption counts as unknown, with or without its effect.
executeProtective(w) ==
  /\ call[w].op = "enforce" /\ call[w].step = "act"
  /\ \E a \in call[w].left :
       LET rest == call[w].left \ {a}
           answered(unknown, rejected) ==
             hold(w, acting(call[w].k, rest, unknown, rejected))
       IN  /\ a = close => rest = {}
           /\ enforced' = [enforced EXCEPT ![call[w].k][a] = @ + 1]
           /\ \/ protected(a) /\ answered(call[w].unknown, call[w].rejected)
              \/ /\ protected(a) \/ UNCHANGED <<venue, position>>
                 /\ answered(TRUE, call[w].rejected)
              \/ /\ UNCHANGED <<venue, position>>
                 /\ answered(call[w].unknown, TRUE)
  /\ UNCHANGED <<executionVars, controls, risk>>

\* The venue after the last action, or no answer.
observeAfter(w) ==
  /\ call[w].op = "enforce" /\ call[w].step = "act" /\ call[w].left = {}
  /\ \E unknown \in {call[w].unknown, TRUE} :
       hold(w, [op |-> "enforce", step |-> "verify", k |-> call[w].k,
                outcome |-> createVerification(
                  controls[call[w].k].target,
                  createHyperliquidTestnetVenueState("FRESH"), unknown,
                  call[w].rejected)])
  /\ UNCHANGED <<executionVars, guardianVars, venue, position, risk>>

verifyControl(w) ==
  /\ call[w].op = "enforce" /\ call[w].step = "verify"
  /\ transitionHyperliquidProtectiveControl(call[w].k, "EXECUTING",
                                            call[w].outcome)
  /\ hold(w, Idle)
  /\ UNCHANGED <<executionVars, enforced, venue, position, risk>>

GuardianNext ==
  \E w \in Workers :
    \/ \E k \in Controls : enforce(w, k)
    \/ reserveControl(w) \/ claimControl(w) \/ executeProtective(w)
    \/ observeAfter(w) \/ verifyControl(w)
=============================================================================
