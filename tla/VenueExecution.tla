--------------------------- MODULE VenueExecution ---------------------------
(***************************************************************************)
(* The Testnet execution gateway: one call of execute() asks the server    *)
(* risk policy, reserves a nonce under the signer's lock, signs, records   *)
(* SUBMITTED, submits, and records the outcome.  Every await is a step; a  *)
(* worker may die at any of them, and another worker may run the same      *)
(* command again under its idempotency key.                                *)
(*                                                                         *)
(* The venue is external: an order it accepted fills up and is filled or   *)
(* canceled, whether or not its answer arrived.                            *)
(***************************************************************************)
EXTENDS Calls, FiniteSets

CONSTANTS Commands,     \* commands to execute, by idempotency key
          actionKind,   \* actionKind[x]: what command x asks of the venue
          Size,         \* the size of every order
          RiskInputs,   \* evaluated state, freshness and restriction, as they vary
          MaxRiskChanges        \* bound: risk evaluations in a behaviour

HyperliquidExecutionActionKind ==
  {"order", "reduceOnlyOrder", "cancel", "cancelByCloid", "modify"}

ASSUME ExecutionAssumption ==
  /\ actionKind \in [Commands -> HyperliquidExecutionActionKind]
  /\ Size \in Nat \ {0} /\ MaxRiskChanges \in Nat
  /\ RiskInputs \subseteq
       [evaluated : {"NORMAL", "WARNING", "REDUCE_ONLY", "FLATTEN",
                     "SETTLEMENT"},
        freshness : {"FRESH", "STALE", "UNKNOWN"}, restricted : BOOLEAN]

VARIABLES executions,   \* executions[x]: nonce state and nonce of command x
          nonceHead,    \* last_nonce of the one signer reference
          venue,        \* venue[x]: the order of x as the venue has it
          position,     \* size of the position at the venue
          submissions,  \* submissions[x]: envelopes of x that reached the venue
          risk          \* what the server's risk snapshot is built from

executionVars == <<executions, nonceHead, submissions>>

TERMINAL_NONCE_STATES == {"CONFIRMED", "REJECTED", "UNKNOWN"}

RISK_STATE_ORDER == <<"NORMAL", "WARNING", "REDUCE_ONLY", "FLATTEN",
                      "SETTLEMENT">>

riskRank(s) == CHOOSE i \in 1..5 : RISK_STATE_ORDER[i] = s

mostRestrictive(left, right) ==
  IF riskRank(left) >= riskRank(right) THEN left ELSE right

NoExecution == [state |-> "none", nonce |-> 0]

NoOrder == [status |-> "none", filled |-> 0]

LiveStatuses == {"OPEN", "PARTIALLY_FILLED"}

LiveOrders == {x \in Commands : venue[x].status \in LiveStatuses}

ExecutionInit ==
  /\ executions = [x \in Commands |-> NoExecution]
  /\ nonceHead = 0
  /\ venue = [x \in Commands |-> NoOrder]
  /\ position = 0
  /\ submissions = [x \in Commands |-> 0]
  /\ risk = [evaluated |-> "NORMAL", freshness |-> "FRESH",
             restricted |-> FALSE, changes |-> 0]

-----------------------------------------------------------------------------
\* Risk admission, as the policy evaluator answers it.

tightened(restrict, s) ==
  IF restrict THEN mostRestrictive(s, "REDUCE_ONLY") ELSE s

\* The effective state of a snapshot: a venue observation that is not fresh, a
\* closed kill switch and a write of unknown outcome (the last two are
\* "restricted") can only tighten what was evaluated.
createHyperliquidTestnetRiskSnapshot(r) ==
  tightened(r.freshness # "FRESH" \/ r.restricted, r.evaluated)

\* The typed action of a kind: what it cancels or trades.  A replacement order
\* (modify) is modelled as not reduce-only.
normalizeAction(kind) ==
  IF kind \in {"cancel", "cancelByCloid"}
  THEN [trades |-> FALSE, reduceOnly |-> FALSE, size |-> 0]
  ELSE [trades |-> TRUE, reduceOnly |-> kind = "reduceOnlyOrder", size |-> Size]

isCancel(kind) == ~normalizeAction(kind).trades

isServerProvenReducing(kind) == normalizeAction(kind).reduceOnly

evaluateHyperliquidExecutionRiskAdmission(state, kind) ==
  \/ riskRank(state) < riskRank("REDUCE_ONLY")
  \/ /\ state \in {"REDUCE_ONLY", "FLATTEN"}
     /\ isCancel(kind) \/ isServerProvenReducing(kind)

assertPolicyDecision(x) ==
  evaluateHyperliquidExecutionRiskAdmission(
    createHyperliquidTestnetRiskSnapshot(risk), actionKind[x])

-----------------------------------------------------------------------------
\* Nonce states.

createReservedExecutionRecord(nonce) == [state |-> "RESERVED", nonce |-> nonce]

legalTransition(previous, next) ==
  \/ previous = "RESERVED" /\ next \in {"SUBMITTED", "REJECTED"}
  \/ previous = "SUBMITTED" /\ next \in TERMINAL_NONCE_STATES

\* The row lock, the expected state and the legal transition.
transition(x, expected, next) ==
  /\ executions[x].state = expected
  /\ legalTransition(expected, next)
  /\ executions' = [executions EXCEPT ![x] =
                      [state |-> next, nonce |-> executions[x].nonce]]

-----------------------------------------------------------------------------
\* The steps of execute().

executing(step, x) == [op |-> "execute", step |-> step, x |-> x]

\* Mutant: a repeated call submits what was left at SUBMITTED.
ResubmitsUnanswered(w, x) ==
  /\ call[w] = Idle
  /\ assertPolicyDecision(x)
  /\ hold(w, executing(IF executions[x].state = "SUBMITTED" THEN "submit"
                       ELSE "reserve", x))
  /\ UNCHANGED <<executionVars, venue, position, risk>>

admit(w, x) ==
  /\ call[w] = Idle
  /\ assertPolicyDecision(x)
  /\ hold(w, executing("reserve", x))
  /\ UNCHANGED <<executionVars, venue, position, risk>>

\* One transaction under the signer's advisory lock: a known key replays, and
\* the replay ends the call with whatever the record says.
reserve(w) ==
  /\ call[w].op = "execute" /\ call[w].step = "reserve"
  /\ LET x == call[w].x IN
       IF executions[x] # NoExecution
       THEN hold(w, Idle) /\ UNCHANGED <<executions, nonceHead>>
       ELSE /\ nonceHead' = nonceHead + 1
            /\ executions' = [executions EXCEPT ![x] =
                                createReservedExecutionRecord(nonceHead + 1)]
            /\ hold(w, executing("sign", x))
  /\ UNCHANGED <<submissions, venue, position, risk>>

\* The signer's answer, good or bad, is followed by one transition.
sign(w) ==
  /\ call[w].op = "execute" /\ call[w].step = "sign"
  /\ \/ /\ transition(call[w].x, "RESERVED", "SUBMITTED")
        /\ hold(w, executing("submit", call[w].x))
     \/ /\ transition(call[w].x, "RESERVED", "REJECTED")
        /\ hold(w, Idle)
  /\ UNCHANGED <<nonceHead, submissions, venue, position, risk>>

\* What the venue does with an envelope: an order rests or is refused; a
\* cancel names no order of this model and is only answered.
accepted(x) ==
  IF isCancel(actionKind[x]) THEN [status |-> "CANCELED", filled |-> 0]
  ELSE [status |-> "OPEN", filled |-> 0]

\* The answer may be lost on the way: the disposition is then unknown.
submit(w) ==
  LET x == call[w].x
      answered(d) == hold(w, [op |-> "execute", step |-> "record", x |-> x,
                              disposition |-> d])
  IN  /\ call[w].op = "execute" /\ call[w].step = "submit"
      /\ submissions' = [submissions EXCEPT ![x] = @ + 1]
      /\ \/ /\ venue' = [venue EXCEPT ![x] = accepted(x)]
            /\ \E d \in {"CONFIRMED", "UNKNOWN"} : answered(d)
         \/ /\ venue' = [venue EXCEPT ![x] = [status |-> "REJECTED",
                                              filled |-> 0]]
            /\ \E d \in {"REJECTED", "UNKNOWN"} : answered(d)
      /\ UNCHANGED <<executions, nonceHead, position, risk>>

\* The transition guards itself with the state it expects; a lost race is an
\* error of the call.
recordOutcome(w) ==
  /\ call[w].op = "execute" /\ call[w].step = "record"
  /\ transition(call[w].x, "SUBMITTED", call[w].disposition)
  /\ hold(w, Idle)
  /\ UNCHANGED <<nonceHead, submissions, venue, position, risk>>

\* The worker dies, or the call throws.
workerDies(w) ==
  /\ call[w] # Idle
  /\ hold(w, Idle)
  /\ UNCHANGED <<executionVars, venue, position, risk>>

-----------------------------------------------------------------------------
\* The environment.

\* An order fills by one unit; a reduce-only order closes position, another
\* one opens it.
VenueFills(x) ==
  LET filled == venue[x].filled + 1
  IN  /\ x \in LiveOrders
      /\ venue' = [venue EXCEPT ![x] =
                     [status |-> IF filled = Size THEN "FILLED"
                                 ELSE "PARTIALLY_FILLED",
                      filled |-> filled]]
      /\ position' = IF isServerProvenReducing(actionKind[x])
                     THEN IF position > 0 THEN position - 1 ELSE 0
                     ELSE position + 1
      /\ UNCHANGED <<executionVars, callVars, risk>>

canceled(x) ==
  venue' = [venue EXCEPT ![x] = [status |-> "CANCELED",
                                 filled |-> venue[x].filled]]

\* An order is canceled by someone else.
VenueCancels(x) ==
  /\ x \in LiveOrders
  /\ canceled(x)
  /\ UNCHANGED <<executionVars, callVars, position, risk>>

\* The risk inputs change: the evaluated state, the age of the observation,
\* the kill switch or the outcome of a write.
RiskChanges ==
  /\ risk.changes < MaxRiskChanges
  /\ \E i \in RiskInputs :
       risk' = [evaluated |-> i.evaluated, freshness |-> i.freshness,
                restricted |-> i.restricted, changes |-> risk.changes + 1]
  /\ UNCHANGED <<executionVars, callVars, venue, position>>

ExecutionNext ==
  \/ \E w \in Workers :
       \/ \E x \in Commands : admit(w, x)
       \/ reserve(w) \/ sign(w) \/ submit(w) \/ recordOutcome(w)
       \/ workerDies(w)
  \/ \E x \in Commands : VenueFills(x) \/ VenueCancels(x)
  \/ RiskChanges
=============================================================================
