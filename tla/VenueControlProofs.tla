------------------------ MODULE VenueControlProofs ------------------------
(***************************************************************************)
(* Proofs about VenueControl: the execution gateway, the risk guardian and *)
(* the reconciliation of the venue's orders, interleaved over one kernel.  *)
(* VenueControlInv is inductive; its three parts belong to the three       *)
(* services, and a frame for each says what the others leave it.           *)
(***************************************************************************)
EXTENDS VenueControl, TLAPS
-----------------------------------------------------------------------------
(***************************************************************************)
(* The venue and the gateway.  A command is signed, submitted and recorded *)
(* by one call, the one that reserved it, and the venue has no order for   *)
(* it before.                                                              *)
(***************************************************************************)
FinalStatuses == {"FILLED", "CANCELED", "REJECTED"}

SoundVenue(v) ==
    /\ v = [x \in Commands |-> v[x]]
    /\ \A x \in Commands : v[x].filled \in Nat /\ v[x].status \in {"none"} \cup LiveStatuses \cup FinalStatuses

Executes(c, x, steps) == c.op = "execute" /\ c.x = x /\ c.step \in steps

ExecutionInv ==
    /\ call = [w \in Workers |-> call[w]]
    /\ SoundVenue(venue)
    /\ executions = [x \in Commands |-> executions[x]]
    /\ submissions \in [Commands -> 0 .. 1]
    /\ \A x \in Commands :
          /\ executions[x].state \in {"none", "RESERVED"} => submissions[x] = 0
          /\ submissions[x] = 0 => venue[x] = NoOrder
    /\ \A w \in Workers : call[w].op = "execute" => call[w].x \in Commands
    /\ \A w \in Workers, x \in Commands :
          /\ Executes(call[w], x, {"sign"}) => executions[x].state = "RESERVED"
          /\ Executes(call[w], x, {"submit"}) => executions[x].state = "SUBMITTED" /\ submissions[x] = 0
          /\ Executes(call[w], x, {"record"}) => executions[x].state = "SUBMITTED"
    /\ \A v, w \in Workers, x \in Commands :
          /\ Executes(call[v], x, {"sign", "submit", "record"})
          /\ Executes(call[w], x, {"sign", "submit", "record"})
          => v = w

(***************************************************************************)
(* The guardian.  The call that claimed a control is the only one to send  *)
(* its actions, and has sent the ones that are not left.                   *)
(***************************************************************************)
Enforces(c, k, steps) == c.op = "enforce" /\ c.k = k /\ c.step \in steps

\* Exactly the actions of the set were sent, each once.
SentExactly(sent, actions) ==
    \A a \in ProtectiveActions : sent[a] = IF a \in actions THEN 1 ELSE 0

\* What is known of one control and of the call that has claimed it.
SoundControl(control, sent) ==
    /\ control.actions \subseteq ProtectiveActions
    /\ control.status \in {"none", "PLANNED"} => SentExactly(sent, {})
    /\ control.status \in TERMINAL_CONTROL_STATUSES => SentExactly(sent, control.actions)

SoundClaim(c, k, control, sent) ==
    /\ Enforces(c, k, {"act", "verify"}) => control.status = "EXECUTING"
    /\ Enforces(c, k, {"act"}) =>
          c.left \subseteq control.actions /\ SentExactly(sent, control.actions \ c.left)
    /\ Enforces(c, k, {"verify"}) => SentExactly(sent, control.actions)

GuardianInv ==
    /\ controls = [k \in Controls |-> controls[k]]
    /\ enforced \in [Controls -> [ProtectiveActions -> 0 .. 1]]
    /\ \A k \in Controls : SoundControl(controls[k], enforced[k])
    /\ \A w \in Workers : call[w].op = "enforce" =>
          /\ call[w].k \in Controls
          /\ call[w].step = "reserve" => call[w].actions \subseteq ProtectiveActions
    /\ \A w \in Workers, k \in Controls : SoundClaim(call[w], k, controls[k], enforced[k])
    /\ \A v, w \in Workers, k \in Controls :
          /\ Enforces(call[v], k, {"act", "verify"})
          /\ Enforces(call[w], k, {"act", "verify"})
          => v = w

(***************************************************************************)
(* The reconciliation.  An observation of a final status stays true of the *)
(* venue however long it waits, and a run that is read for a safe stop is  *)
(* still the same at the same version.                                     *)
(***************************************************************************)
SoundObservation(o, order) ==
    /\ o.filled \in Nat
    /\ fresh(o) => /\ o.status \in {"NOT_FOUND"} \cup LiveStatuses \cup FinalStatuses
                   /\ o.status \in FinalStatuses => o.status = order.status /\ o.filled = order.filled

SoundRun(run, order) ==
    /\ run.filled \in Nat /\ run.version \in Nat
    /\ run.status \in {"none", "PENDING", "PARTIAL", "UNKNOWN"} \cup TERMINAL_STATUSES
    /\ run.status = "none" => run = NoReconciliation
    /\ run.status \in {"RECONCILED", "REJECTED"} =>
          /\ order.status \in FinalStatuses
          /\ run.order = order.status /\ run.filled = order.filled

SoundStop(read, run) ==
    /\ read.version \in Nat /\ read.version <= run.version
    /\ read.version = run.version => read = run
    /\ read.status \notin TERMINAL_STATUSES \cup {"none"}

\* What a call may hold of its run.
SoundHold(c, run, order) ==
    /\ c.op = "reconcile" =>
          /\ run.status # "none"
          /\ c.step = "observe" => c.filled \in Nat
          /\ c.step = "consume" => SoundObservation(c.observation, order)
    /\ c.op = "safe_stop" => SoundStop(c.read, run)

ReconciliationInv ==
    /\ runs = [x \in Commands |-> runs[x]]
    /\ \A x \in Commands : SoundRun(runs[x], venue[x])
    /\ \A w \in Workers : call[w].op \in {"reconcile", "safe_stop"} =>
          call[w].x \in Commands /\ SoundHold(call[w], runs[call[w].x], venue[call[w].x])

VenueControlInv == ExecutionInv /\ GuardianInv /\ ReconciliationInv

-----------------------------------------------------------------------------
\* A step keeps the calls of some operations, but for the ones it ends.
CallsKept(ops) ==
    /\ call' = [w \in Workers |-> call'[w]]
    /\ \A w \in Workers : call'[w].op \in ops => call'[w] = call[w]

\* What the venue may do to an order while it has it.
OrdersMove ==
    /\ SoundVenue(venue')
    /\ \A x \in Commands : venue[x].status \notin LiveStatuses => venue'[x] = venue[x]

FinalKept == \A x \in Commands : venue[x].status \in FinalStatuses => venue'[x] = venue[x]

\* What a step of the gateway leaves to the other services.
GatewayFrame == CallsKept({"enforce", "reconcile", "safe_stop"}) /\ FinalKept

\* The table of calls after a process turned to c.
LEMMA HoldCalls ==
    ASSUME ExecutionInv, NEW w \in Workers, NEW c, hold(w, c)
    PROVE  /\ call' = [v \in Workers |-> call'[v]]
           /\ \A v \in Workers : call'[v] = IF v = w THEN c ELSE call[v]
<1>1. call' = [v \in Workers |-> IF v = w THEN c ELSE call[v]]
  BY Zenon DEF hold, ExecutionInv
<1>2. \A v \in Workers : call'[v] = IF v = w THEN c ELSE call[v]
  BY <1>1
<1> QED BY <1>1, <1>2

\* Steps of the other services.
LEMMA ExecutionKept ==
    ASSUME ExecutionInv, CallsKept({"execute"}), OrdersMove, UNCHANGED executionVars
    PROVE  ExecutionInv'
<1>1. executions' = executions /\ submissions' = submissions
  BY DEF executionVars
<1>2. \A x \in Commands : submissions[x] = 0 => venue'[x] = NoOrder
  BY DEF ExecutionInv, OrdersMove, NoOrder, LiveStatuses
<1> QED BY <1>1, <1>2 DEF ExecutionInv, CallsKept, OrdersMove, Executes

LEMMA GuardianKept ==
    ASSUME GuardianInv, CallsKept({"enforce"}), UNCHANGED guardianVars
    PROVE  GuardianInv'
<1>1. controls' = controls /\ enforced' = enforced
  BY DEF guardianVars
<1> QED BY <1>1 DEF GuardianInv, CallsKept, Enforces, SoundControl, SoundClaim, SentExactly

LEMMA RunsHeldSound ==
    ASSUME runs' = [x \in Commands |-> runs'[x]],
           \A x \in Commands : SoundRun(runs'[x], venue'[x]),
           \A w \in Workers : call'[w].op \in {"reconcile", "safe_stop"} =>
              call'[w].x \in Commands /\ SoundHold(call'[w], runs'[call'[w].x], venue'[call'[w].x])
    PROVE  ReconciliationInv'
<1>1. (\A x \in Commands : SoundRun(runs[x], venue[x]))'
  BY Zenon DEF SoundRun
<1>2. (\A w \in Workers : call[w].op \in {"reconcile", "safe_stop"} =>
          call[w].x \in Commands /\ SoundHold(call[w], runs[call[w].x], venue[call[w].x]))'
  BY Zenon DEF SoundHold, SoundObservation, SoundStop
<1> QED BY <1>1, <1>2 DEF ReconciliationInv

LEMMA ReconciliationKept ==
    ASSUME ReconciliationInv, CallsKept({"reconcile", "safe_stop"}), UNCHANGED runs, FinalKept
    PROVE  ReconciliationInv'
<1>1. \A x \in Commands : SoundRun(runs[x], venue'[x])
  BY DEF ReconciliationInv, SoundRun, FinalKept
<1>2. \A o, x : x \in Commands /\ SoundObservation(o, venue[x]) => SoundObservation(o, venue'[x])
  BY DEF SoundObservation, fresh, FinalKept
<1>3. \A w \in Workers : call'[w].op \in {"reconcile", "safe_stop"} =>
          call'[w].x \in Commands /\ SoundHold(call'[w], runs[call'[w].x], venue'[call'[w].x])
  BY <1>2 DEF ReconciliationInv, CallsKept, SoundHold
<1> QED BY <1>1, <1>3, RunsHeldSound DEF ReconciliationInv, CallsKept

\* Nothing is reserved, planned, observed or held.
LEMMA InitVenueControlInv == CallsInit /\ VenueInit => VenueControlInv
<1> SUFFICES ASSUME CallsInit, VenueInit PROVE VenueControlInv
  OBVIOUS
<1> USE DEF CallsInit, VenueInit, Idle
<1>1. ExecutionInv
  BY DEF ExecutionInit, ExecutionInv, SoundVenue, NoOrder, NoExecution, Executes
<1>2. GuardianInv
  BY DEF GuardianInit, GuardianInv, SoundControl, SoundClaim, NoControl, SentExactly, Enforces, TERMINAL_CONTROL_STATUSES
<1>3. ReconciliationInv
  BY DEF ReconciliationInit, ReconciliationInv, NoReconciliation, SoundRun
<1> QED BY <1>1, <1>2, <1>3 DEF VenueControlInv

\* reserve takes a command that no call executes, and that was never sent.
LEMMA ReserveKeepsInv ==
    ASSUME ExecutionInv, NEW w \in Workers, reserve(w)
    PROVE  ExecutionInv' /\ GatewayFrame
<1> DEFINE x == call[w].x
<1>1. x \in Commands /\ venue' = venue /\ submissions' = submissions
  BY DEF reserve, ExecutionInv
<1>2. CASE executions[x] # NoExecution
  <2>1. hold(w, Idle) /\ executions' = executions
    BY <1>2 DEF reserve
  <2>2. /\ call' = [v \in Workers |-> call'[v]]
        /\ \A v \in Workers : call'[v] = IF v = w THEN Idle ELSE call[v]
    BY <2>1, HoldCalls
  <2>3. ExecutionInv'
    BY <1>1, <2>1, <2>2 DEF ExecutionInv, Executes, Idle, SoundVenue
  <2> QED BY <1>1, <2>2, <2>3 DEF GatewayFrame, CallsKept, FinalKept, Idle
<1>3. CASE executions[x] = NoExecution
  <2>1. /\ hold(w, executing("sign", x))
        /\ executions' = [executions EXCEPT ![x] = createReservedExecutionRecord(nonceHead + 1)]
    BY <1>3 DEF reserve
  <2>2. /\ call' = [v \in Workers |-> call'[v]]
        /\ \A v \in Workers : call'[v] = IF v = w THEN executing("sign", x) ELSE call[v]
    BY <2>1, HoldCalls
  <2>3. /\ executions' = [y \in Commands |-> executions'[y]]
        /\ executions'[x].state = "RESERVED"
        /\ \A y \in Commands \ {x} : executions'[y] = executions[y]
    BY <1>1, <2>1 DEF ExecutionInv, createReservedExecutionRecord
  <2>4. executions[x].state = "none" /\ submissions[x] = 0
    BY <1>1, <1>3 DEF NoExecution, ExecutionInv
  <2>5. \A v \in Workers : ~Executes(call[v], x, {"sign", "submit", "record"})
    BY <1>1, <2>4 DEF ExecutionInv, Executes
  <2>6. ExecutionInv'
    BY <1>1, <2>2, <2>3, <2>4, <2>5 DEF ExecutionInv, Executes, executing, SoundVenue
  <2> QED BY <1>1, <2>2, <2>6 DEF GatewayFrame, CallsKept, FinalKept, executing
<1> QED BY <1>2, <1>3

\* After a transition the call ends, or submits what it signed.
GoesOn(before, c, x, next) ==
    \/ c = Idle
    \/ c = executing("submit", x) /\ next = "SUBMITTED" /\ Executes(before, x, {"sign"})

\* sign and recordOutcome: the one call that executes the command moves its
\* record, and either ends or goes on to submit.
LEMMA TransitionKeepsInv ==
    ASSUME ExecutionInv, NEW w \in Workers, NEW x \in Commands, NEW expected, NEW next, NEW c,
           Executes(call[w], x, {"sign", "record"}), transition(x, expected, next), hold(w, c),
           GoesOn(call[w], c, x, next),
           UNCHANGED <<submissions, venue>>
    PROVE  ExecutionInv' /\ GatewayFrame
<1>1. /\ call' = [v \in Workers |-> call'[v]]
      /\ \A v \in Workers : call'[v] = IF v = w THEN c ELSE call[v]
  BY HoldCalls
<1>2. /\ executions' = [y \in Commands |-> executions'[y]]
      /\ executions'[x].state = next /\ next \notin {"none", "RESERVED"}
      /\ \A y \in Commands \ {x} : executions'[y] = executions[y]
  BY DEF ExecutionInv, transition, legalTransition, TERMINAL_NONCE_STATES
<1>3. \A v \in Workers \ {w} : ~Executes(call[v], x, {"sign", "submit", "record"})
  BY DEF ExecutionInv, Executes
<1>4. Executes(call[w], x, {"sign"}) => submissions[x] = 0
  BY DEF ExecutionInv
<1>5. ExecutionInv'
  <2>1. CASE c = Idle
    <3>1. /\ call' = [v \in Workers |-> call'[v]]
          /\ \A v \in Workers : call'[v].op = "execute" => v # w /\ call'[v] = call[v]
      BY <1>1, <2>1 DEF Idle
    <3> QED BY <1>2, <1>3, <3>1 DEF ExecutionInv, Executes, SoundVenue
  <2>2. CASE c = executing("submit", x) /\ next = "SUBMITTED" /\ submissions[x] = 0
    BY <1>1, <1>2, <1>3, <2>2 DEF ExecutionInv, Executes, executing, SoundVenue
  <2> QED BY <1>4, <2>1, <2>2 DEF GoesOn
<1>6. c.op \in {"idle", "execute"}
  BY DEF Idle, executing, GoesOn
<1> QED BY <1>1, <1>5, <1>6 DEF GatewayFrame, CallsKept, FinalKept

\* submit: the first envelope of a command the venue has no order for.
LEMMA SubmitKeepsInv ==
    ASSUME ExecutionInv, NEW w \in Workers, submit(w)
    PROVE  ExecutionInv' /\ GatewayFrame
<1> DEFINE x == call[w].x
<1>1. x \in Commands /\ executions' = executions /\ Executes(call[w], x, {"submit"})
      /\ submissions' = [submissions EXCEPT ![x] = @ + 1]
  BY DEF submit, ExecutionInv, Executes
<1>2. PICK order \in {accepted(x), [status |-> "REJECTED", filled |-> 0]},
           d \in {"CONFIRMED", "UNKNOWN", "REJECTED"} :
         /\ venue' = [venue EXCEPT ![x] = order]
         /\ hold(w, [op |-> "execute", step |-> "record", x |-> x, disposition |-> d])
  BY Zenon DEF submit
<1> DEFINE c == [op |-> "execute", step |-> "record", x |-> x, disposition |-> d]
<1>3. /\ call' = [v \in Workers |-> call'[v]]
      /\ \A v \in Workers : call'[v] = IF v = w THEN c ELSE call[v]
  BY <1>2, HoldCalls
<1>4. executions[x].state = "SUBMITTED" /\ submissions[x] = 0 /\ venue[x] = NoOrder
  BY <1>1 DEF ExecutionInv
<1>5. submissions' \in [Commands -> 0 .. 1] /\ submissions'[x] = 1
      /\ \A y \in Commands \ {x} : submissions'[y] = submissions[y]
  BY <1>1, <1>4 DEF ExecutionInv
<1>6. order.filled \in Nat /\ order.status \in LiveStatuses \cup FinalStatuses
  BY DEF accepted, LiveStatuses, FinalStatuses
<1>7. /\ venue' = [y \in Commands |-> venue'[y]] /\ venue'[x] = order
      /\ \A y \in Commands \ {x} : venue'[y] = venue[y]
  BY <1>1, <1>2 DEF ExecutionInv, SoundVenue
<1>8. SoundVenue(venue')
  BY <1>6, <1>7 DEF ExecutionInv, SoundVenue
<1>9. \A v \in Workers \ {w} : ~Executes(call[v], x, {"sign", "submit", "record"})
  BY <1>1 DEF ExecutionInv, Executes
<1>10. c.op = "execute" /\ c.x = x /\ c.step = "record"
  OBVIOUS
<1> HIDE DEF c, x
<1>11. ExecutionInv'
  BY <1>1, <1>3, <1>4, <1>5, <1>7, <1>8, <1>9, <1>10 DEF ExecutionInv, Executes
<1>12. FinalKept
  BY <1>4, <1>7 DEF FinalKept, NoOrder, FinalStatuses
<1> QED BY <1>3, <1>10, <1>11, <1>12 DEF GatewayFrame, CallsKept

\* Orders fill and are canceled while they live.
LEMMA OrderMoves ==
    ASSUME ExecutionInv, NEW x \in Commands, x \in LiveOrders, NEW order,
           order.filled \in Nat, order.status \in LiveStatuses \cup FinalStatuses,
           venue' = [venue EXCEPT ![x] = order]
    PROVE  OrdersMove
<1>1. /\ venue' = [y \in Commands |-> venue'[y]] /\ venue'[x] = order
      /\ \A y \in Commands \ {x} : venue'[y] = venue[y]
  BY DEF ExecutionInv, SoundVenue
<1> QED BY <1>1 DEF ExecutionInv, OrdersMove, SoundVenue, LiveOrders

LEMMA FillsMove ==
    ASSUME ExecutionInv, NEW x \in Commands, VenueFills(x) \/ VenueCancels(x)
    PROVE  OrdersMove
<1>1. x \in LiveOrders /\ venue[x].filled \in Nat
  BY DEF VenueFills, VenueCancels, ExecutionInv, SoundVenue
<1>2. CASE VenueCancels(x)
  <2> DEFINE order == [status |-> "CANCELED", filled |-> venue[x].filled]
  <2>1. venue' = [venue EXCEPT ![x] = order] /\ order.status \in FinalStatuses /\ order.filled \in Nat
    BY <1>1, <1>2 DEF VenueCancels, canceled, FinalStatuses
  <2> QED BY <1>1, <2>1, OrderMoves, Zenon
<1>3. CASE VenueFills(x)
  <2> DEFINE filled == venue[x].filled + 1
             order == [status |-> IF filled = Size THEN "FILLED" ELSE "PARTIALLY_FILLED", filled |-> filled]
  <2>1. venue' = [venue EXCEPT ![x] = order]
    BY <1>3 DEF VenueFills
  <2>2. order.status \in FinalStatuses \cup LiveStatuses /\ order.filled \in Nat
    BY <1>1 DEF FinalStatuses, LiveStatuses
  <2> QED BY <1>1, <2>1, <2>2, OrderMoves, Zenon
<1> QED BY <1>2, <1>3

\* Every step of the gateway and of its venue.
LEMMA GatewayKeepsInv ==
    ASSUME VenueControlInv, ExecutionNext, UNCHANGED <<guardianVars, reconciliationVars>>
    PROVE  VenueControlInv'
<1> USE DEF VenueControlInv
<1>1. ASSUME NEW w \in Workers, NEW c, hold(w, c), c.op = "execute" => c.x \in Commands /\ c.step = "reserve",
             c.op \in {"execute", "idle"}, UNCHANGED <<executionVars, venue>>
      PROVE  ExecutionInv' /\ GatewayFrame
  <2>1. /\ call' = [v \in Workers |-> call'[v]]
        /\ \A v \in Workers : call'[v] = IF v = w THEN c ELSE call[v]
    BY <1>1, HoldCalls
  <2>2. executions' = executions /\ submissions' = submissions /\ venue' = venue
    BY <1>1 DEF executionVars
  <2>3. ExecutionInv'
    BY <1>1, <2>1, <2>2 DEF ExecutionInv, Executes, SoundVenue
  <2> QED BY <1>1, <2>1, <2>2, <2>3 DEF GatewayFrame, CallsKept, FinalKept
<1>2. ASSUME NEW w \in Workers, NEW x \in Commands, admit(w, x) PROVE ExecutionInv' /\ GatewayFrame
  <2> DEFINE c == executing("reserve", x)
  <2>1. hold(w, c) /\ c.op = "execute" /\ c.x = x /\ c.step = "reserve" /\ UNCHANGED <<executionVars, venue>>
    BY <1>2 DEF admit, executing
  <2> QED BY <1>1, <2>1
<1>3. ASSUME NEW w \in Workers, workerDies(w) PROVE ExecutionInv' /\ GatewayFrame
  <2>1. hold(w, Idle) /\ Idle.op = "idle" /\ UNCHANGED <<executionVars, venue>>
    BY <1>3 DEF workerDies, Idle
  <2> QED BY <1>1, <2>1
<1>4. ASSUME NEW w \in Workers, sign(w) PROVE ExecutionInv' /\ GatewayFrame
  <2>1. /\ call[w].x \in Commands /\ UNCHANGED <<submissions, venue>>
        /\ Executes(call[w], call[w].x, {"sign"}) /\ Executes(call[w], call[w].x, {"sign", "record"})
    BY <1>4 DEF sign, ExecutionInv, Executes
  <2>2. CASE transition(call[w].x, "RESERVED", "SUBMITTED") /\ hold(w, executing("submit", call[w].x))
    <3>1. GoesOn(call[w], executing("submit", call[w].x), call[w].x, "SUBMITTED")
      BY <2>1 DEF GoesOn
    <3> QED BY <2>1, <2>2, <3>1, TransitionKeepsInv
  <2>3. CASE transition(call[w].x, "RESERVED", "REJECTED") /\ hold(w, Idle)
    <3>1. GoesOn(call[w], Idle, call[w].x, "REJECTED")
      BY DEF GoesOn
    <3> QED BY <2>1, <2>3, <3>1, TransitionKeepsInv
  <2> QED BY <1>4, <2>2, <2>3 DEF sign
<1>5. ASSUME NEW w \in Workers, recordOutcome(w) PROVE ExecutionInv' /\ GatewayFrame
  <2>1. /\ call[w].x \in Commands /\ Executes(call[w], call[w].x, {"sign", "record"})
        /\ UNCHANGED <<submissions, venue>>
        /\ transition(call[w].x, "SUBMITTED", call[w].disposition) /\ hold(w, Idle)
    BY <1>5 DEF recordOutcome, ExecutionInv, Executes
  <2>2. GoesOn(call[w], Idle, call[w].x, call[w].disposition)
    BY DEF GoesOn
  <2> QED BY <2>1, <2>2, TransitionKeepsInv
<1>6. ASSUME NEW x \in Commands, VenueFills(x) \/ VenueCancels(x) PROVE ExecutionInv' /\ GatewayFrame
  <2>1. OrdersMove
    BY <1>6, FillsMove
  <2>2. UNCHANGED executionVars /\ call' = call
    BY <1>6 DEF VenueFills, VenueCancels, callVars
  <2>3. CallsKept({"execute"}) /\ CallsKept({"enforce", "reconcile", "safe_stop"})
    BY <2>2 DEF CallsKept, ExecutionInv
  <2>4. ExecutionInv'
    BY <2>1, <2>2, <2>3, ExecutionKept
  <2> QED BY <2>1, <2>3, <2>4 DEF GatewayFrame, FinalKept, OrdersMove, LiveStatuses, FinalStatuses
<1>7. ASSUME RiskChanges PROVE ExecutionInv' /\ GatewayFrame
  <2>1. UNCHANGED executionVars /\ call' = call /\ venue' = venue
    BY <1>7 DEF RiskChanges, callVars
  <2>2. CallsKept({"execute"}) /\ CallsKept({"enforce", "reconcile", "safe_stop"})
    BY <2>1 DEF CallsKept, ExecutionInv
  <2>3. OrdersMove
    BY <2>1 DEF OrdersMove, ExecutionInv
  <2>4. ExecutionInv'
    BY <2>1, <2>2, <2>3, ExecutionKept
  <2> QED BY <2>1, <2>2, <2>4 DEF GatewayFrame, FinalKept
<1>8. ExecutionInv' /\ GatewayFrame
  <2>1. ASSUME NEW w \in Workers, reserve(w) \/ submit(w) PROVE ExecutionInv' /\ GatewayFrame
    BY <2>1, ReserveKeepsInv, SubmitKeepsInv
  <2> QED BY <1>2, <1>3, <1>4, <1>5, <1>6, <1>7, <2>1, Zenon DEF ExecutionNext
<1>9. GuardianInv'
  <2>1. CallsKept({"enforce"}) /\ UNCHANGED guardianVars
    BY <1>8 DEF GatewayFrame, CallsKept
  <2> QED BY <2>1, GuardianKept
<1>10. ReconciliationInv'
  <2>1. CallsKept({"reconcile", "safe_stop"}) /\ UNCHANGED runs /\ FinalKept
    BY <1>8 DEF GatewayFrame, CallsKept, reconciliationVars
  <2> QED BY <2>1, ReconciliationKept
<1> QED BY <1>8, <1>9, <1>10

-----------------------------------------------------------------------------
\* What a step of the guardian leaves to the other services.
GuardianFrame == CallsKept({"execute", "reconcile", "safe_stop"}) /\ OrdersMove

\* The drafts of enforce name only actions there are.
LEMMA PlannedActions ==
    ASSUME NEW target, NEW freshness
    PROVE  plannedRawActions(target, createHyperliquidTestnetVenueState(freshness)) \subseteq ProtectiveActions
BY DEF plannedRawActions, createHyperliquidTestnetVenueState, ProtectiveActions, LiveOrders

\* The table of controls after one of them moved on.
LEMMA ControlTable ==
    ASSUME GuardianInv, NEW k \in Controls, NEW control, controls' = [controls EXCEPT ![k] = control]
    PROVE  /\ controls' = [j \in Controls |-> controls'[j]] /\ controls'[k] = control
           /\ \A j \in Controls \ {k} : controls'[j] = controls[j]
BY DEF GuardianInv

LEMMA ControlMoved ==
    ASSUME GuardianInv, NEW k \in Controls, NEW next, moved(k, next)
    PROVE  /\ controls' = [j \in Controls |-> controls'[j]]
           /\ controls'[k].status = next /\ controls'[k].actions = controls[k].actions
           /\ \A j \in Controls \ {k} : controls'[j] = controls[j]
<1> DEFINE control == [status |-> next, target |-> controls[k].target, actions |-> controls[k].actions]
<1>1. control.status = next /\ control.actions = controls[k].actions
  OBVIOUS
<1>2. controls' = [controls EXCEPT ![k] = control]
  BY DEF moved
<1> HIDE DEF control
<1> QED BY <1>1, <1>2, ControlTable, Zenon

\* A call that neither acts nor verifies claims nothing about a control.
LEMMA PreparesKeepsInv ==
    ASSUME GuardianInv, NEW w \in Workers, NEW c,
           call' = [v \in Workers |-> call'[v]],
           \A v \in Workers : call'[v] = IF v = w THEN c ELSE call[v],
           c.op = "enforce" => /\ c.k \in Controls /\ c.step \in {"reserve", "claim"}
                               /\ c.step = "reserve" => c.actions \subseteq ProtectiveActions,
           UNCHANGED guardianVars
    PROVE  GuardianInv'
<1>1. controls' = controls /\ enforced' = enforced
  BY DEF guardianVars
<1> QED BY <1>1 DEF GuardianInv, Enforces, SoundControl, SoundClaim, SentExactly

\* A step of the only call that may have claimed a control.
LEMMA ControlMoves ==
    ASSUME GuardianInv, NEW w \in Workers, NEW c, NEW k \in Controls,
           call' = [v \in Workers |-> call'[v]],
           \A v \in Workers : call'[v] = IF v = w THEN c ELSE call[v],
           controls' = [j \in Controls |-> controls'[j]],
           enforced' \in [Controls -> [ProtectiveActions -> 0 .. 1]],
           \A j \in Controls \ {k} : controls'[j] = controls[j] /\ enforced'[j] = enforced[j],
           \A v \in Workers \ {w} : ~Enforces(call[v], k, {"act", "verify"}),
           SoundControl(controls'[k], enforced'[k]),
           c.op = "enforce" => c.k = k /\ c.step # "reserve",
           SoundClaim(c, k, controls'[k], enforced'[k])
    PROVE  GuardianInv'
<1>1. \A j \in Controls : SoundControl(controls'[j], enforced'[j])
  BY DEF GuardianInv, SoundControl
<1>2. \A v \in Workers : call'[v].op = "enforce" =>
          /\ call'[v].k \in Controls
          /\ call'[v].step = "reserve" => call'[v].actions \subseteq ProtectiveActions
  BY DEF GuardianInv
<1>3. ASSUME NEW v \in Workers, NEW j \in Controls PROVE SoundClaim(call'[v], j, controls'[j], enforced'[j])
  <2>1. CASE j = k /\ v = w
    BY <2>1
  <2>2. CASE j = k /\ v # w
    BY <2>2 DEF SoundClaim, Enforces
  <2>3. CASE j # k /\ v = w
    BY <2>3 DEF SoundClaim, Enforces
  <2>4. CASE j # k /\ v # w
    <3>1. call'[v] = call[v] /\ controls'[j] = controls[j] /\ enforced'[j] = enforced[j]
      BY <2>4
    <3>2. SoundClaim(call[v], j, controls[j], enforced[j])
      BY DEF GuardianInv
    <3> QED BY <3>1, <3>2
  <2> QED BY <2>1, <2>2, <2>3, <2>4
<1>4. \A u, v \in Workers, j \in Controls :
          /\ Enforces(call'[u], j, {"act", "verify"})
          /\ Enforces(call'[v], j, {"act", "verify"})
          => u = v
  BY DEF GuardianInv, Enforces
<1> QED BY <1>1, <1>2, <1>3, <1>4, Zenon DEF GuardianInv, SoundControl, SoundClaim

\* reserveControl records a plan of which nothing was sent.
LEMMA ReserveControlKeepsInv ==
    ASSUME ExecutionInv, GuardianInv, NEW w \in Workers, reserveControl(w)
    PROVE  GuardianInv' /\ CallsKept({"execute", "reconcile", "safe_stop"})
<1> DEFINE k == call[w].k
           claims == [op |-> "enforce", step |-> "claim", k |-> k]
<1>1. k \in Controls /\ call[w].actions \subseteq ProtectiveActions /\ enforced' = enforced
  BY DEF reserveControl, GuardianInv, SoundClaim, SoundControl
<1>2. claims.op = "enforce" /\ claims.k = k /\ claims.step = "claim" /\ Idle.op = "idle"
  BY DEF Idle
<1>3. PICK c \in {claims, Idle} : hold(w, c)
  BY DEF reserveControl
<1>4. /\ call' = [v \in Workers |-> call'[v]]
      /\ \A v \in Workers : call'[v] = IF v = w THEN c ELSE call[v]
  BY <1>3, HoldCalls
<1>5. CASE controls[k] = NoControl /\ controls' = [controls EXCEPT ![k] = createPlannedControlRecord(call[w])]
  <2>1. /\ controls' = [j \in Controls |-> controls'[j]]
        /\ controls'[k].status = "PLANNED" /\ controls'[k].actions = call[w].actions
        /\ \A j \in Controls \ {k} : controls'[j] = controls[j]
    <3> DEFINE control == createPlannedControlRecord(call[w])
    <3>1. control.status = "PLANNED" /\ control.actions = call[w].actions
      BY DEF createPlannedControlRecord
    <3>2. controls' = [controls EXCEPT ![k] = control]
      BY <1>5
    <3> HIDE DEF control, k
    <3> QED BY <1>1, <3>1, <3>2, ControlTable, Zenon
  <2>2. controls[k].status = "none" /\ SentExactly(enforced[k], {})
    BY <1>1, <1>5 DEF GuardianInv, SoundClaim, SoundControl, NoControl
  <2>3. \A v \in Workers : ~Enforces(call[v], k, {"act", "verify"})
    BY <1>1, <2>2, Zenon DEF GuardianInv, SoundClaim, SoundControl, Enforces
  <2> HIDE DEF k, claims
  <2>4. GuardianInv'
    <3>1. SoundControl(controls'[k], enforced'[k])
      BY <1>1, <2>1, <2>2 DEF SoundControl, TERMINAL_CONTROL_STATUSES
    <3>2. SoundClaim(c, k, controls'[k], enforced'[k]) /\ (c.op = "enforce" => c.k = k /\ c.step # "reserve")
      BY <1>2, <1>3 DEF SoundClaim, Enforces
    <3>3. enforced' \in [Controls -> [ProtectiveActions -> 0 .. 1]]
      BY <1>1 DEF GuardianInv, SoundClaim, SoundControl
    <3> QED BY <1>1, <1>4, <2>1, <2>3, <3>1, <3>2, <3>3, ControlMoves
  <2> QED BY <1>2, <1>3, <1>4, <2>4 DEF CallsKept
<1>6. CASE UNCHANGED controls
  <2>1. UNCHANGED guardianVars
    BY <1>1, <1>6 DEF guardianVars
  <2> HIDE DEF k, claims
  <2>2. GuardianInv'
    BY <1>1, <1>2, <1>3, <1>4, <2>1, PreparesKeepsInv
  <2> QED BY <1>2, <1>3, <1>4, <2>2 DEF CallsKept
<1> QED BY <1>5, <1>6 DEF reserveControl

\* claimControl: only one call finds the plan unclaimed.
LEMMA ClaimKeepsInv ==
    ASSUME ExecutionInv, GuardianInv, NEW w \in Workers, claimControl(w)
    PROVE  GuardianInv' /\ CallsKept({"execute", "reconcile", "safe_stop"})
<1> DEFINE k == call[w].k
           c == acting(k, controls[k].actions, FALSE, FALSE)
<1>1. /\ k \in Controls /\ controls[k].status = "PLANNED" /\ enforced' = enforced /\ hold(w, c)
      /\ moved(k, "EXECUTING")
  BY Zenon DEF claimControl, GuardianInv, SoundClaim, SoundControl, transitionHyperliquidProtectiveControl
<1>2. /\ call' = [v \in Workers |-> call'[v]]
      /\ \A v \in Workers : call'[v] = IF v = w THEN c ELSE call[v]
  BY <1>1, HoldCalls, Zenon
<1>3. c.op = "enforce" /\ c.step = "act" /\ c.k = k /\ c.left = controls[k].actions
  BY DEF acting
<1>4. /\ controls' = [j \in Controls |-> controls'[j]]
      /\ controls'[k].status = "EXECUTING" /\ controls'[k].actions = controls[k].actions
      /\ \A j \in Controls \ {k} : controls'[j] = controls[j]
  BY <1>1, ControlMoved
<1>5. \A v \in Workers : ~Enforces(call[v], k, {"act", "verify"})
  BY <1>1, Zenon DEF GuardianInv, SoundClaim, SoundControl, Enforces
<1>6. SentExactly(enforced[k], {})
  BY <1>1 DEF GuardianInv, SoundClaim, SoundControl
<1> HIDE DEF k, c
<1>7. GuardianInv'
  <2>1. SoundControl(controls'[k], enforced'[k])
    BY <1>1, <1>4 DEF SoundControl, TERMINAL_CONTROL_STATUSES, GuardianInv, SoundClaim
  <2>2. SoundClaim(c, k, controls'[k], enforced'[k])
    BY <1>1, <1>3, <1>4, <1>6 DEF SoundClaim, Enforces, SentExactly
  <2>3. enforced' \in [Controls -> [ProtectiveActions -> 0 .. 1]]
    BY <1>1 DEF GuardianInv, SoundClaim, SoundControl
  <2> QED BY <1>1, <1>2, <1>3, <1>4, <1>5, <2>1, <2>2, <2>3, ControlMoves
<1> QED BY <1>2, <1>3, <1>7 DEF CallsKept

\* executeProtective sends one of the actions left and takes it off.
LEMMA ActKeepsInv ==
    ASSUME ExecutionInv, GuardianInv, NEW w \in Workers, executeProtective(w)
    PROVE  GuardianInv' /\ GuardianFrame
<1> DEFINE k == call[w].k
<1>1. PICK a \in call[w].left, unknown \in {call[w].unknown, TRUE}, rejected \in {call[w].rejected, TRUE} :
         /\ hold(w, acting(k, call[w].left \ {a}, unknown, rejected))
         /\ enforced' = [enforced EXCEPT ![k][a] = @ + 1]
         /\ protected(a) \/ UNCHANGED <<venue, position>>
  BY Zenon DEF executeProtective
<1> DEFINE c == acting(k, call[w].left \ {a}, unknown, rejected)
           sent == [enforced[k] EXCEPT ![a] = @ + 1]
<1>2. /\ call' = [v \in Workers |-> call'[v]]
      /\ \A v \in Workers : call'[v] = IF v = w THEN c ELSE call[v]
  BY <1>1, HoldCalls
<1>3. c.op = "enforce" /\ c.step = "act" /\ c.k = k /\ c.left = call[w].left \ {a}
  BY DEF acting
<1>4. k \in Controls /\ Enforces(call[w], k, {"act"}) /\ Enforces(call[w], k, {"act", "verify"}) /\ controls' = controls
  BY DEF executeProtective, GuardianInv, Enforces
<1>5. /\ controls[k].status = "EXECUTING" /\ controls[k].actions \subseteq ProtectiveActions
      /\ call[w].left \subseteq controls[k].actions
      /\ SentExactly(enforced[k], controls[k].actions \ call[w].left)
  BY <1>4, Zenon DEF GuardianInv, SoundControl, SoundClaim
<1>6. enforced' = [enforced EXCEPT ![k] = sent]
  BY <1>1
<1>7. a \in ProtectiveActions /\ enforced[k] \in [ProtectiveActions -> 0 .. 1] /\ enforced[k][a] = 0
  BY <1>4, <1>5, Zenon DEF GuardianInv, SentExactly
<1>8. /\ sent \in [ProtectiveActions -> 0 .. 1]
      /\ \A b \in ProtectiveActions : sent[b] = IF b = a THEN 1 ELSE enforced[k][b]
  BY <1>7
<1> HIDE DEF sent, c, k
<1>9. /\ enforced' \in [Controls -> [ProtectiveActions -> 0 .. 1]] /\ enforced'[k] = sent
      /\ \A j \in Controls \ {k} : enforced'[j] = enforced[j]
  BY <1>4, <1>6, <1>8 DEF GuardianInv
<1>10. SentExactly(sent, controls[k].actions \ c.left)
  BY <1>3, <1>5, <1>8 DEF SentExactly
<1>11. SoundClaim(c, k, controls'[k], enforced'[k])
  BY <1>3, <1>4, <1>5, <1>9, <1>10 DEF SoundClaim, Enforces
<1>12. SoundControl(controls'[k], enforced'[k])
  BY <1>4, <1>5 DEF SoundControl, TERMINAL_CONTROL_STATUSES
<1>13. \A v \in Workers \ {w} : ~Enforces(call[v], k, {"act", "verify"})
  BY <1>4 DEF GuardianInv
<1>14. controls' = [j \in Controls |-> controls'[j]]
  BY <1>4 DEF GuardianInv
<1>15. GuardianInv'
  BY <1>2, <1>3, <1>4, <1>9, <1>11, <1>12, <1>13, <1>14, ControlMoves
<1>16. OrdersMove
  <2>1. CASE UNCHANGED venue
    BY <2>1 DEF OrdersMove, ExecutionInv
  <2>2. CASE a \in LiveOrders /\ canceled(a)
    <3> DEFINE order == [status |-> "CANCELED", filled |-> venue[a].filled]
    <3>1. /\ a \in Commands /\ venue' = [venue EXCEPT ![a] = order]
          /\ order.filled \in Nat /\ order.status \in FinalStatuses
      BY <2>2 DEF canceled, LiveOrders, ExecutionInv, SoundVenue, FinalStatuses
    <3> QED BY <2>2, <3>1, OrderMoves, Zenon
  <2> QED BY <1>1, <2>1, <2>2 DEF protected
<1> QED BY <1>2, <1>3, <1>15, <1>16 DEF GuardianFrame, CallsKept

\* observeAfter comes after the last action.
LEMMA ObserveAfterKeepsInv ==
    ASSUME ExecutionInv, GuardianInv, NEW w \in Workers, observeAfter(w)
    PROVE  GuardianInv' /\ CallsKept({"execute", "reconcile", "safe_stop"})
<1> DEFINE k == call[w].k
<1>1. PICK outcome : hold(w, [op |-> "enforce", step |-> "verify", k |-> k, outcome |-> outcome])
  BY Zenon DEF observeAfter
<1> DEFINE c == [op |-> "enforce", step |-> "verify", k |-> k, outcome |-> outcome]
<1>2. /\ call' = [v \in Workers |-> call'[v]]
      /\ \A v \in Workers : call'[v] = IF v = w THEN c ELSE call[v]
  BY <1>1, HoldCalls
<1>3. c.op = "enforce" /\ c.step = "verify" /\ c.k = k
  OBVIOUS
<1>4. /\ k \in Controls /\ Enforces(call[w], k, {"act"}) /\ Enforces(call[w], k, {"act", "verify"})
      /\ controls' = controls /\ enforced' = enforced /\ call[w].left = {}
  BY DEF observeAfter, GuardianInv, Enforces, guardianVars
<1>5. controls[k].status = "EXECUTING" /\ SentExactly(enforced[k], controls[k].actions)
  <2>1. SentExactly(enforced[k], controls[k].actions \ {}) /\ controls[k].status = "EXECUTING"
    BY <1>4, Zenon DEF GuardianInv, SoundClaim
  <2> QED BY <2>1 DEF SentExactly
<1> HIDE DEF c, k
<1>6. SoundClaim(c, k, controls'[k], enforced'[k])
  BY <1>3, <1>4, <1>5 DEF SoundClaim, Enforces
<1>7. SoundControl(controls'[k], enforced'[k])
  BY <1>4 DEF GuardianInv
<1>8. \A v \in Workers \ {w} : ~Enforces(call[v], k, {"act", "verify"})
  BY <1>4 DEF GuardianInv
<1>9. controls' = [j \in Controls |-> controls'[j]] /\ enforced' \in [Controls -> [ProtectiveActions -> 0 .. 1]]
  BY <1>4 DEF GuardianInv
<1>10. GuardianInv'
  BY <1>2, <1>3, <1>4, <1>6, <1>7, <1>8, <1>9, ControlMoves
<1> QED BY <1>2, <1>3, <1>10 DEF CallsKept

\* verifyControl closes the control with what it sent.
LEMMA VerifyKeepsInv ==
    ASSUME ExecutionInv, GuardianInv, NEW w \in Workers, verifyControl(w)
    PROVE  GuardianInv' /\ CallsKept({"execute", "reconcile", "safe_stop"})
<1> DEFINE k == call[w].k
           c == Idle
<1>1. /\ k \in Controls /\ Enforces(call[w], k, {"verify"}) /\ Enforces(call[w], k, {"act", "verify"})
      /\ moved(k, call[w].outcome) /\ enforced' = enforced /\ hold(w, c)
      /\ call[w].outcome \in TERMINAL_CONTROL_STATUSES
  BY DEF verifyControl, GuardianInv, Enforces, transitionHyperliquidProtectiveControl, legalControlTransition
<1>2. /\ call' = [v \in Workers |-> call'[v]]
      /\ \A v \in Workers : call'[v] = IF v = w THEN c ELSE call[v]
  BY <1>1, HoldCalls
<1>3. c.op = "idle"
  BY DEF Idle
<1>4. /\ controls' = [j \in Controls |-> controls'[j]]
      /\ controls'[k].status = call[w].outcome /\ controls'[k].actions = controls[k].actions
      /\ \A j \in Controls \ {k} : controls'[j] = controls[j]
  BY <1>1, ControlMoved
<1>5. SentExactly(enforced[k], controls[k].actions) /\ controls[k].actions \subseteq ProtectiveActions
  BY <1>1, Zenon DEF GuardianInv, SoundClaim, SoundControl
<1> HIDE DEF c, k
<1>6. SoundControl(controls'[k], enforced'[k])
  BY <1>1, <1>4, <1>5 DEF SoundControl, TERMINAL_CONTROL_STATUSES
<1>7. SoundClaim(c, k, controls'[k], enforced'[k])
  BY <1>3 DEF SoundClaim, Enforces
<1>8. \A v \in Workers \ {w} : ~Enforces(call[v], k, {"act", "verify"})
  BY <1>1 DEF GuardianInv
<1>9. enforced' \in [Controls -> [ProtectiveActions -> 0 .. 1]]
  BY <1>1 DEF GuardianInv
<1>10. GuardianInv'
  BY <1>1, <1>2, <1>3, <1>4, <1>6, <1>7, <1>8, <1>9, ControlMoves
<1> QED BY <1>2, <1>3, <1>10 DEF CallsKept

\* Every step of the guardian.
LEMMA GuardianKeepsInv ==
    ASSUME VenueControlInv, GuardianNext, UNCHANGED reconciliationVars
    PROVE  VenueControlInv'
<1> USE DEF VenueControlInv
<1>1. UNCHANGED executionVars
  BY Zenon DEF GuardianNext, enforce, reserveControl, claimControl, executeProtective, observeAfter, verifyControl
<1>2. ASSUME UNCHANGED venue PROVE OrdersMove
  BY <1>2 DEF OrdersMove, ExecutionInv
<1>3. ASSUME NEW w \in Workers, NEW k \in Controls, enforce(w, k) PROVE GuardianInv' /\ GuardianFrame
  <2> DEFINE c == createHyperliquidProtectiveControlDraft(k)
  <2>1. hold(w, c) /\ UNCHANGED venue /\ UNCHANGED guardianVars
    BY <1>3 DEF enforce
  <2>2. c.op = "enforce" /\ c.k = k /\ c.step = "reserve" /\ c.actions \subseteq ProtectiveActions
    BY PlannedActions DEF createHyperliquidProtectiveControlDraft
  <2> HIDE DEF c
  <2>3. /\ call' = [v \in Workers |-> call'[v]]
        /\ \A v \in Workers : call'[v] = IF v = w THEN c ELSE call[v]
    BY <2>1, HoldCalls
  <2>4. GuardianInv'
    BY <2>1, <2>2, <2>3, PreparesKeepsInv
  <2> QED BY <1>2, <2>1, <2>2, <2>3, <2>4 DEF GuardianFrame, CallsKept
<1>4. ASSUME NEW w \in Workers, reserveControl(w) \/ claimControl(w) \/ observeAfter(w) \/ verifyControl(w)
      PROVE  GuardianInv' /\ GuardianFrame
  <2>1. UNCHANGED venue
    BY <1>4, Zenon DEF reserveControl, claimControl, observeAfter, verifyControl
  <2>2. GuardianInv' /\ CallsKept({"execute", "reconcile", "safe_stop"})
    BY <1>4, ReserveControlKeepsInv, ClaimKeepsInv, ObserveAfterKeepsInv, VerifyKeepsInv
  <2> QED BY <1>2, <2>1, <2>2 DEF GuardianFrame
<1>5. ASSUME NEW w \in Workers, executeProtective(w) PROVE GuardianInv' /\ GuardianFrame
  BY <1>5, ActKeepsInv
<1>6. GuardianInv' /\ GuardianFrame
  BY <1>3, <1>4, <1>5, Zenon DEF GuardianNext
<1>7. ExecutionInv'
  <2>1. CallsKept({"execute"}) /\ OrdersMove
    BY <1>6 DEF GuardianFrame, CallsKept
  <2> QED BY <1>1, <2>1, ExecutionKept
<1>8. ReconciliationInv'
  <2>1. CallsKept({"reconcile", "safe_stop"}) /\ UNCHANGED runs
    BY <1>6 DEF GuardianFrame, CallsKept, reconciliationVars
  <2>2. FinalKept
    BY <1>6 DEF GuardianFrame, FinalKept, OrdersMove, LiveStatuses, FinalStatuses
  <2> QED BY <2>1, <2>2, ReconciliationKept
<1> QED BY <1>6, <1>7, <1>8

-----------------------------------------------------------------------------
\* What a step of the reconciliation leaves to the other services, and the
\* trigger on its table.
ReconciliationFrame == CallsKept({"execute", "enforce"})

Advances(old, new) ==
    new # old => /\ old.status # "none" => guard_trading_testnet_reconciliation_run(old, new)
                 /\ new.version > old.version
                 /\ old.breaker => new.breaker

\* A record that is reconciled or rejected has the venue's last word.
LEMMA TransitionIsSound ==
    ASSUME NEW x \in Commands, NEW record, NEW o, NEW snapshot, NEW order,
           SoundRun(record, order), SoundObservation(o, order), requestedSize(x) \in Nat,
           record.status \notin TERMINAL_STATUSES \cup {"none"}
    PROVE  LET next == transitionHyperliquidReconciliationRecord(x, record, o, snapshot)
           IN  SoundRun(next, order) /\ next.status # "none" /\ next.version = record.version + 1
               /\ next.filled >= record.filled /\ next.status # "PENDING" /\ (record.breaker => next.breaker)
<1> DEFINE next == transitionHyperliquidReconciliationRecord(x, record, o, snapshot)
<1>1. record.filled \in Nat /\ record.version \in Nat /\ o.filled \in Nat
  BY DEF SoundRun, SoundObservation
<1>2. CASE kernelContradiction(record, snapshot) \/ incidentReason(x, record, o)
  <2>1. /\ next.status = "INCIDENT" /\ next.filled = record.filled /\ next.breaker = TRUE
        /\ next.version = record.version + 1
    BY <1>2 DEF transitionHyperliquidReconciliationRecord
  <2> HIDE DEF next
  <2>2. SoundRun(next, order)
    BY <1>1, <2>1 DEF SoundRun, TERMINAL_STATUSES
  <2> QED BY <1>1, <2>1, <2>2 DEF next
<1>3. CASE ~(kernelContradiction(record, snapshot) \/ incidentReason(x, record, o))
  <2>1. /\ next.status = derivedStatus(o) /\ next.filled = o.filled /\ next.order = derivedOrder(o)
        /\ record.breaker => next.breaker
        /\ next.version = record.version + 1
    BY <1>3, Zenon DEF transitionHyperliquidReconciliationRecord, derivedState
  <2>2. o.filled >= record.filled
    BY <1>1, <1>3 DEF incidentReason
  <2>3. derivedStatus(o) \in {"UNKNOWN", "PARTIAL", "REJECTED", "RECONCILED"}
    BY DEF derivedStatus
  <2>4. derivedStatus(o) \in {"REJECTED", "RECONCILED"} =>
           /\ order.status \in FinalStatuses /\ derivedOrder(o) = order.status /\ o.filled = order.filled
    BY DEF derivedStatus, derivedOrder, SoundObservation, LiveStatuses, FinalStatuses
  <2> HIDE DEF next
  <2>5. SoundRun(next, order)
    BY <1>1, <2>1, <2>3, <2>4 DEF SoundRun, TERMINAL_STATUSES
  <2> QED BY <1>1, <2>1, <2>2, <2>3, <2>5 DEF next
<1> QED BY <1>2, <1>3

\* What a call holds of a run stays sound when the run goes to a later version.
LEMMA LaterVersionHeld ==
    ASSUME NEW c, NEW old, NEW run, NEW order, SoundHold(c, old, order), old.version \in Nat, run.version \in Nat,
           run.version > old.version, run.status # "none"
    PROVE  SoundHold(c, run, order)
<1>1. ASSUME c.op = "safe_stop"
      PROVE  SoundStop(c.read, run)
  <2>1. SoundStop(c.read, old)
    BY <1>1, Zenon DEF SoundHold
  <2> QED BY <2>1 DEF SoundStop
<1> QED BY <1>1, Zenon DEF SoundHold

\* A run that was read and is not final may be held for a stop.
LEMMA ReadMayStop ==
    ASSUME NEW c, NEW run, NEW order, SoundRun(run, order), run.status \notin TERMINAL_STATUSES \cup {"none"},
           c.op = "safe_stop", c.read = run
    PROVE  SoundHold(c, run, order)
<1>1. run.version \in Nat /\ run.version <= run.version
  BY DEF SoundRun
<1> QED BY <1>1, Zenon DEF SoundHold, SoundStop

\* A stopped run is sound: it says nothing of the order.
LEMMA StoppedIsSound ==
    ASSUME NEW old, NEW run, NEW order, SoundRun(old, order), run.status = "SAFE_STOPPED", run.filled = old.filled,
           run.version = old.version + 1
    PROVE  SoundRun(run, order) /\ run.version > old.version
BY DEF SoundRun, TERMINAL_STATUSES

\* What the workers make up says nothing of the order; what they observe is the order.
LEMMA MadeUpIsSound ==
    ASSUME NEW w, NEW kind, NEW order, call[w].filled \in Nat
    PROVE  SoundObservation(systemObservation(w, kind), order)
BY DEF SoundObservation, systemObservation, fresh

LEMMA ObservedIsSound ==
    ASSUME NEW o, NEW order, order.filled \in Nat, order.status \in {"none"} \cup LiveStatuses \cup FinalStatuses,
           o.filled = order.filled, o.status = IF order.status = "none" THEN "NOT_FOUND" ELSE order.status
    PROVE  SoundObservation(o, order)
BY DEF SoundObservation, FinalStatuses

\* A call takes its run to a later version, or leaves it alone.
LEMMA RunMoves ==
    ASSUME ExecutionInv, ReconciliationInv, NEW w \in Workers, NEW c, hold(w, c), NEW x \in Commands, NEW run,
           runs' = [runs EXCEPT ![x] = run], UNCHANGED venue,
           SoundRun(run, venue[x]), run = runs[x] \/ (run.version > runs[x].version /\ run.status # "none"),
           c.op \in {"reconcile", "safe_stop"} => c.x = x /\ SoundHold(c, run, venue[x]),
           c.op \notin {"execute", "enforce"}
    PROVE  ReconciliationInv' /\ ReconciliationFrame
<1>1. /\ call' = [v \in Workers |-> call'[v]]
      /\ \A v \in Workers : call'[v] = IF v = w THEN c ELSE call[v]
  BY HoldCalls
<1>2. /\ runs' = [y \in Commands |-> runs'[y]] /\ runs'[x] = run
      /\ \A y \in Commands \ {x} : runs'[y] = runs[y]
  BY DEF ReconciliationInv
<1>3. \A y \in Commands : SoundRun(runs'[y], venue[y])
  BY <1>2 DEF ReconciliationInv
<1>4. ASSUME NEW v \in Workers, call'[v].op \in {"reconcile", "safe_stop"}
      PROVE  call'[v].x \in Commands /\ SoundHold(call'[v], runs'[call'[v].x], venue[call'[v].x])
  <2>1. CASE v = w
    BY <1>1, <1>2, <1>4, <2>1
  <2>2. CASE v # w
    <3>1. call'[v] = call[v] /\ call[v].x \in Commands /\ SoundHold(call[v], runs[call[v].x], venue[call[v].x])
      BY <1>1, <1>4, <2>2 DEF ReconciliationInv
    <3>2. CASE call[v].x # x \/ run = runs[x]
      BY <1>2, <3>1, <3>2
    <3>3. CASE call[v].x = x /\ run.version > runs[x].version /\ run.status # "none"
      <4>1. runs[x].version \in Nat /\ run.version \in Nat
        BY DEF ReconciliationInv, SoundRun
      <4>2. SoundHold(call[v], run, venue[x])
        BY <3>1, <3>3, <4>1, LaterVersionHeld, Zenon
      <4> QED BY <1>2, <3>1, <3>3, <4>2
    <3> QED BY <3>2, <3>3
  <2> QED BY <2>1, <2>2
<1>5. ReconciliationInv'
  BY <1>2, <1>3, <1>4, RunsHeldSound
<1> QED BY <1>1, <1>5 DEF ReconciliationFrame, CallsKept

\* What a reconciliation step shows of the runs.
RunsAdvanced == \A x \in Commands : Advances(runs[x], runs'[x])

\* reconcile starts a run, or replays its start.
LEMMA ReconcileKeepsInv ==
    ASSUME ExecutionInv, ReconciliationInv, NEW w \in Workers, NEW x \in Commands, reconcile(w, x)
    PROVE  ReconciliationInv' /\ ReconciliationFrame /\ RunsAdvanced
<1> DEFINE held(filled) == [op |-> "reconcile", step |-> "observe", x |-> x,
                            polls |-> MAX_POLL_ATTEMPTS, filled |-> filled]
<1>1. ASSUME NEW n \in Nat, NEW run, run.status # "none"
      PROVE  held(n).op = "reconcile" /\ held(n).x = x /\ SoundHold(held(n), run, venue[x])
  BY <1>1 DEF SoundHold
<1>2. UNCHANGED venue
  BY DEF reconcile, unchangedElsewhere
<1>3. CASE /\ runs[x] = NoReconciliation
           /\ runs' = [runs EXCEPT ![x] = createPendingHyperliquidReconciliationRecord(kernelSnapshot(x))]
  <2> DEFINE run == createPendingHyperliquidReconciliationRecord(kernelSnapshot(x))
  <2>1. /\ run.status = "PENDING" /\ run.version = 1 /\ run.filled = 0 /\ run.breaker = FALSE
        /\ runs[x].version = 0 /\ runs[x].status = "none" /\ runs[x].breaker = FALSE
    <3>1. run.status = "PENDING" /\ run.version = 1 /\ run.filled = 0 /\ run.breaker = FALSE
      BY DEF createPendingHyperliquidReconciliationRecord
    <3>2. NoReconciliation.version = 0 /\ NoReconciliation.status = "none" /\ NoReconciliation.breaker = FALSE
      BY DEF NoReconciliation
    <3> HIDE DEF run
    <3> QED BY <1>3, <3>1, <3>2, Zenon
  <2> HIDE DEF run
  <2>2. runs'[x] = run /\ \A y \in Commands \ {x} : runs'[y] = runs[y]
    BY <1>3 DEF ReconciliationInv, run
  <2>3. hold(w, held(0))
    BY <2>1, <2>2 DEF reconcile, settled, TERMINAL_STATUSES
  <2>4. SoundRun(run, venue[x])
    BY <2>1 DEF SoundRun
  <2> HIDE DEF held
  <2>5. ReconciliationInv' /\ ReconciliationFrame
    <3>1. runs' = [runs EXCEPT ![x] = run] /\ run.version > runs[x].version /\ run.status # "none"
      BY <1>3, <2>1 DEF run
    <3>2. held(0).op = "reconcile" /\ held(0).x = x /\ SoundHold(held(0), run, venue[x])
      BY <1>1, <2>1
    <3> QED BY <1>2, <2>3, <2>4, <3>1, <3>2, RunMoves, Zenon
  <2>6. RunsAdvanced
    BY <2>1, <2>2 DEF RunsAdvanced, Advances
  <2> QED BY <2>5, <2>6
<1>4. CASE runs[x].request = kernelSnapshot(x) /\ UNCHANGED runs
  <2>1. runs[x].status # "none" /\ runs[x].filled \in Nat /\ SoundRun(runs[x], venue[x])
    <3>1. SoundRun(runs[x], venue[x])
      BY DEF ReconciliationInv
    <3>2. runs[x].request.nonceState \in {"SUBMITTED"} \cup TERMINAL_NONCE_STATES
      <4>1. executions[x].state \in {"SUBMITTED"} \cup TERMINAL_NONCE_STATES
        BY Zenon DEF reconcile, assertKernelSnapshot
      <4>2. kernelSnapshot(x).nonceState = executions[x].state
        BY DEF kernelSnapshot
      <4> QED BY <1>4, <4>1, <4>2, Zenon
    <3>3. runs[x].status = "none" => runs[x].request.nonceState = "none"
      <4>1. runs[x].status = "none" => runs[x] = NoReconciliation
        BY <3>1, Zenon DEF SoundRun
      <4>2. NoReconciliation.request.nonceState = "none"
        BY DEF NoReconciliation
      <4> QED BY <4>1, <4>2, Zenon
    <3>4. "none" \notin {"SUBMITTED"} \cup TERMINAL_NONCE_STATES
      BY DEF TERMINAL_NONCE_STATES
    <3>5. runs[x].status # "none"
      BY <3>2, <3>3, <3>4, Zenon
    <3>6. runs[x].filled \in Nat
      BY <3>1, Zenon DEF SoundRun
    <3> QED BY <3>1, <3>5, <3>6
  <2>2. RunsAdvanced
    BY <1>4 DEF RunsAdvanced, Advances
  <2>3. CASE UNCHANGED callVars
    <3>1. call' = call /\ \A v \in Workers : call'[v] = call[v]
      BY <2>3 DEF callVars
    <3>2. CallsKept({"reconcile", "safe_stop"}) /\ CallsKept({"execute", "enforce"}) /\ FinalKept
      BY <1>2, <3>1 DEF CallsKept, ExecutionInv, FinalKept
    <3> QED BY <1>4, <2>2, <3>2, ReconciliationKept DEF ReconciliationFrame
  <2>4. CASE hold(w, held(runs[x].filled))
    <3>1. runs' = [runs EXCEPT ![x] = runs[x]]
      BY <1>4 DEF ReconciliationInv
    <3> HIDE DEF held
    <3> QED BY <1>1, <1>2, <2>1, <2>2, <2>4, <3>1, RunMoves, Zenon
  <2> QED BY <1>4, <2>3, <2>4 DEF reconcile
<1> QED BY <1>3, <1>4 DEF reconcile

\* observe looks at the venue, or makes up what it could not see.
LEMMA ObserveKeepsInv ==
    ASSUME ExecutionInv, ReconciliationInv, NEW w \in Workers, observe(w)
    PROVE  ReconciliationInv' /\ ReconciliationFrame /\ RunsAdvanced
<1> DEFINE x == call[w].x
<1>1. /\ x \in Commands /\ runs[x].status # "none" /\ call[w].filled \in Nat /\ SoundRun(runs[x], venue[x])
      /\ UNCHANGED venue /\ UNCHANGED runs
  BY DEF observe, ReconciliationInv, SoundHold, unchangedElsewhere
<1>2. PICK o \in {systemObservation(w, "POLL_BUDGET_EXHAUSTED"), systemObservation(w, "ADAPTER_OUTAGE")}
               \cup {createSimulatedHyperliquidVenueObservation(x, f) : f \in BOOLEAN} :
         hold(w, [op |-> "reconcile", step |-> "consume", x |-> x, polls |-> call[w].polls,
                  observation |-> o, snapshot |-> kernelSnapshot(x)])
  BY DEF observe
<1> DEFINE c == [op |-> "reconcile", step |-> "consume", x |-> x, polls |-> call[w].polls,
                 observation |-> o, snapshot |-> kernelSnapshot(x)]
<1>3. SoundObservation(o, venue[x])
  <2>1. CASE o \in {systemObservation(w, "POLL_BUDGET_EXHAUSTED"), systemObservation(w, "ADAPTER_OUTAGE")}
    BY <1>1, <2>1, MadeUpIsSound, Zenon
  <2>2. CASE o \in {createSimulatedHyperliquidVenueObservation(x, f) : f \in BOOLEAN}
    <3>1. venue[x].filled \in Nat /\ venue[x].status \in {"none"} \cup LiveStatuses \cup FinalStatuses
      BY <1>1 DEF ExecutionInv, SoundVenue
    <3>2. /\ o.filled = venue[x].filled
          /\ o.status = IF venue[x].status = "none" THEN "NOT_FOUND" ELSE venue[x].status
      <4>1. PICK f \in BOOLEAN : o = createSimulatedHyperliquidVenueObservation(x, f)
        BY <2>2, Zenon
      <4> QED BY <4>1, Zenon DEF createSimulatedHyperliquidVenueObservation
    <3> QED BY <3>1, <3>2, ObservedIsSound, Zenon
  <2> QED BY <2>1, <2>2
<1>4. c.op = "reconcile" /\ c.x = x /\ c.step = "consume" /\ c.observation = o /\ hold(w, c)
  BY <1>2
<1>5. runs' = [runs EXCEPT ![x] = runs[x]] /\ RunsAdvanced
  BY <1>1 DEF ReconciliationInv, RunsAdvanced, Advances
<1> HIDE DEF c, x
<1>6. SoundHold(c, runs[x], venue[x])
  BY <1>1, <1>3, <1>4 DEF SoundHold
<1>7. /\ c.op \notin {"execute", "enforce"} /\ x \in Commands /\ hold(w, c) /\ UNCHANGED venue
      /\ SoundRun(runs[x], venue[x])
  BY <1>1, <1>4
<1> QED BY <1>4, <1>5, <1>6, <1>7, RunMoves, Zenon

\* consumeObservation applies it to the run as the run is now.
LEMMA ConsumeKeepsInv ==
    ASSUME ExecutionInv, ReconciliationInv, NEW w \in Workers, consumeObservation(w)
    PROVE  ReconciliationInv' /\ ReconciliationFrame /\ RunsAdvanced
<1> DEFINE x == call[w].x
           o == call[w].observation
           applied == transitionHyperliquidReconciliationRecord(x, runs[x], o, call[w].snapshot)
           next == IF runs[x].status \in TERMINAL_STATUSES THEN runs[x] ELSE applied
           goes == [op |-> "reconcile", step |-> "observe", x |-> x, polls |-> call[w].polls - 1,
                    filled |-> next.filled]
<1>1. /\ x \in Commands /\ runs[x].status # "none" /\ SoundObservation(o, venue[x]) /\ SoundRun(runs[x], venue[x])
      /\ UNCHANGED venue /\ runs' = [runs EXCEPT ![x] = next]
  <2>1. /\ call[w].op = "reconcile" /\ call[w].step = "consume" /\ UNCHANGED venue
        /\ runs' = [runs EXCEPT ![x] = next]
    BY Zenon DEF consumeObservation, unchangedElsewhere
  <2> HIDE DEF next
  <2>2. x \in Commands /\ SoundHold(call[w], runs[x], venue[x])
    BY <2>1 DEF ReconciliationInv
  <2> QED BY <2>1, <2>2 DEF ReconciliationInv, SoundHold
<1>2. PICK c \in {goes, Idle} : hold(w, c)
  BY Zenon DEF consumeObservation
<1>3. requestedSize(x) \in Nat
  BY ExecutionAssumption DEF requestedSize, normalizeAction
<1> HIDE DEF applied
<1>4. runs[x].status \notin TERMINAL_STATUSES =>
         /\ SoundRun(next, venue[x]) /\ next.status # "none" /\ next.version = runs[x].version + 1
         /\ next.filled >= runs[x].filled /\ next.status # "PENDING" /\ (runs[x].breaker => next.breaker)
  <2> SUFFICES ASSUME runs[x].status \notin TERMINAL_STATUSES
               PROVE  LET n == applied
                      IN  SoundRun(n, venue[x]) /\ n.status # "none" /\ n.version = runs[x].version + 1
                          /\ n.filled >= runs[x].filled /\ n.status # "PENDING" /\ (runs[x].breaker => n.breaker)
    BY Zenon
  <2>1. runs[x].status \notin TERMINAL_STATUSES \cup {"none"}
    BY <1>1, Zenon
  <2> QED BY <1>1, <1>3, <2>1, TransitionIsSound, Zenon DEF applied
<1>5. /\ goes.op = "reconcile" /\ goes.x = x /\ goes.step = "observe" /\ goes.filled = next.filled
      /\ Idle.op = "idle"
  BY DEF Idle
<1>6. runs[x].status \in TERMINAL_STATUSES => next = runs[x]
  OBVIOUS
<1> HIDE DEF next, x, o, goes
<1>7. /\ SoundRun(next, venue[x]) /\ next.status # "none" /\ next.filled \in Nat
      /\ next = runs[x] \/ next.version > runs[x].version
  <2>1. CASE runs[x].status \in TERMINAL_STATUSES
    <3>1. next.filled \in Nat
      BY <1>1, <1>6, <2>1, Zenon DEF SoundRun
    <3> QED BY <1>1, <1>6, <2>1, <3>1, Zenon
  <2>2. CASE runs[x].status \notin TERMINAL_STATUSES
    <3>1. runs[x].version \in Nat /\ next.filled \in Nat
      BY <1>1, <1>4, <2>2, Zenon DEF SoundRun
    <3>2. next.version > runs[x].version
      BY <1>4, <2>2, <3>1
    <3> QED BY <1>4, <2>2, <3>1, <3>2, Zenon
  <2> QED BY <2>1, <2>2, Zenon
<1>8. c.op \in {"reconcile", "safe_stop"} => c.x = x /\ SoundHold(c, next, venue[x])
  BY <1>2, <1>5, <1>7 DEF SoundHold
<1>9. c.op \notin {"execute", "enforce"}
  BY <1>2, <1>5
<1>10. ReconciliationInv' /\ ReconciliationFrame
  BY <1>1, <1>2, <1>7, <1>8, <1>9, RunMoves, Zenon
<1>11. runs[x].status \notin TERMINAL_STATUSES \cup {"none"} => runs[x].status \in {"PENDING", "PARTIAL", "UNKNOWN"}
  BY <1>1 DEF SoundRun
<1>12. Advances(runs[x], next)
  <2>1. runs[x].filled \in Nat /\ runs[x].version \in Nat
    BY <1>1 DEF SoundRun
  <2> QED BY <1>1, <1>4, <1>6, <1>11, <2>1 DEF Advances, guard_trading_testnet_reconciliation_run
<1>13. runs'[x] = next /\ \A y \in Commands \ {x} : runs'[y] = runs[y]
  BY <1>1 DEF ReconciliationInv
<1>14. RunsAdvanced
  BY <1>12, <1>13 DEF RunsAdvanced, Advances
<1> QED BY <1>10, <1>14

\* safeStop reads the run it means to stop.
LEMMA SafeStopKeepsInv ==
    ASSUME ExecutionInv, ReconciliationInv, NEW w \in Workers, NEW x \in Commands, safeStop(w, x)
    PROVE  ReconciliationInv' /\ ReconciliationFrame /\ RunsAdvanced
<1> DEFINE c == [op |-> "safe_stop", x |-> x, read |-> runs[x]]
<1>1. /\ hold(w, c) /\ UNCHANGED venue /\ UNCHANGED runs /\ SoundRun(runs[x], venue[x])
      /\ runs[x].status \notin TERMINAL_STATUSES \cup {"none"}
  BY DEF safeStop, unchangedElsewhere, ReconciliationInv
<1>2. c.op = "safe_stop" /\ c.x = x /\ c.read = runs[x]
  OBVIOUS
<1> HIDE DEF c
<1>3. SoundHold(c, runs[x], venue[x])
  BY <1>1, <1>2, ReadMayStop, Zenon
<1>4. runs' = [runs EXCEPT ![x] = runs[x]] /\ RunsAdvanced
  BY <1>1 DEF ReconciliationInv, RunsAdvanced, Advances
<1>5. /\ c.op \notin {"execute", "enforce"} /\ hold(w, c) /\ UNCHANGED venue /\ SoundRun(runs[x], venue[x])
  BY <1>1, <1>2
<1> QED BY <1>2, <1>3, <1>4, <1>5, RunMoves, Zenon

\* commitSafeStop stops the very version that was read.
LEMMA CommitSafeStopKeepsInv ==
    ASSUME ExecutionInv, ReconciliationInv, NEW w \in Workers, commitSafeStop(w)
    PROVE  ReconciliationInv' /\ ReconciliationFrame /\ RunsAdvanced
<1> DEFINE x == call[w].x
           run == safeStopHyperliquidReconciliationRecord(runs[x])
<1>1. /\ x \in Commands /\ SoundStop(call[w].read, runs[x]) /\ SoundRun(runs[x], venue[x])
      /\ hold(w, Idle) /\ UNCHANGED venue /\ Idle.op = "idle"
      /\ runs[x].version = call[w].read.version
      /\ runs' = [runs EXCEPT ![x] = safeStopHyperliquidReconciliationRecord(call[w].read)]
  BY DEF commitSafeStop, ReconciliationInv, SoundHold, unchangedElsewhere, Idle
<1>2. call[w].read = runs[x] /\ runs[x].status \notin TERMINAL_STATUSES \cup {"none"}
  BY <1>1 DEF SoundStop
<1>3. /\ run.status = "SAFE_STOPPED" /\ run.filled = runs[x].filled /\ run.version = runs[x].version + 1
      /\ run.breaker = TRUE
  BY DEF safeStopHyperliquidReconciliationRecord
<1> HIDE DEF x, run
<1>4. SoundRun(run, venue[x]) /\ run.version > runs[x].version
  BY <1>1, <1>3, StoppedIsSound, Zenon
<1>5. runs' = [runs EXCEPT ![x] = run]
  BY <1>1, <1>2 DEF run
<1>6. ReconciliationInv' /\ ReconciliationFrame
  BY <1>1, <1>3, <1>4, <1>5, RunMoves, Zenon
<1>7. Advances(runs[x], run)
  <2>1. runs[x].filled \in Nat /\ runs[x].version \in Nat /\ runs[x].status \in {"PENDING", "PARTIAL", "UNKNOWN"}
    BY <1>1, <1>2 DEF SoundRun
  <2> QED BY <1>3, <2>1 DEF Advances, guard_trading_testnet_reconciliation_run
<1>8. runs'[x] = run /\ \A y \in Commands \ {x} : runs'[y] = runs[y]
  BY <1>1, <1>5 DEF ReconciliationInv
<1>9. RunsAdvanced
  BY <1>7, <1>8 DEF RunsAdvanced, Advances
<1> QED BY <1>6, <1>9

\* Every step of the reconciliation.
LEMMA ReconciliationKeepsInv ==
    ASSUME VenueControlInv, ReconciliationNext
    PROVE  VenueControlInv' /\ RunsAdvanced
<1> USE DEF VenueControlInv
<1>1. UNCHANGED <<executionVars, guardianVars, venue>>
  BY Zenon DEF ReconciliationNext, reconcile, safeStop, observe, consumeObservation, commitSafeStop, KernelChanges,
         unchangedElsewhere
<1>2. ASSUME KernelChanges PROVE ReconciliationInv' /\ ReconciliationFrame /\ RunsAdvanced
  <2>1. call' = call /\ runs' = runs
    BY <1>2 DEF KernelChanges, callVars
  <2>2. CallsKept({"reconcile", "safe_stop"}) /\ CallsKept({"execute", "enforce"}) /\ FinalKept
    BY <1>1, <2>1 DEF CallsKept, ExecutionInv, FinalKept
  <2>3. RunsAdvanced
    BY <2>1 DEF RunsAdvanced, Advances
  <2> QED BY <2>1, <2>2, <2>3, ReconciliationKept DEF ReconciliationFrame
<1>3. ReconciliationInv' /\ ReconciliationFrame /\ RunsAdvanced
  <2>1. ASSUME NEW w \in Workers, NEW x \in Commands, reconcile(w, x) \/ safeStop(w, x)
        PROVE  ReconciliationInv' /\ ReconciliationFrame /\ RunsAdvanced
    BY <2>1, ReconcileKeepsInv, SafeStopKeepsInv
  <2>2. ASSUME NEW w \in Workers, observe(w) \/ consumeObservation(w) \/ commitSafeStop(w)
        PROVE  ReconciliationInv' /\ ReconciliationFrame /\ RunsAdvanced
    BY <2>2, ObserveKeepsInv, ConsumeKeepsInv, CommitSafeStopKeepsInv
  <2> QED BY <1>2, <2>1, <2>2, Zenon DEF ReconciliationNext
<1>4. ExecutionInv'
  <2>1. CallsKept({"execute"}) /\ OrdersMove /\ UNCHANGED executionVars
    BY <1>1, <1>3 DEF ReconciliationFrame, CallsKept, OrdersMove, ExecutionInv
  <2> QED BY <2>1, ExecutionKept
<1>5. GuardianInv'
  <2>1. CallsKept({"enforce"}) /\ UNCHANGED guardianVars
    BY <1>1, <1>3 DEF ReconciliationFrame, CallsKept
  <2> QED BY <2>1, GuardianKept
<1> QED BY <1>3, <1>4, <1>5

\* Every step of the three services and of their venue.
LEMMA NextKeepsVenueControlInv ==
    VenueControlInv /\ [GatewayBesideGuardian \/ GatewayBesideReconciliation]_<<callVars, venueControlVars>>
      => VenueControlInv' /\ RunsAdvanced
<1> SUFFICES ASSUME VenueControlInv,
                    [GatewayBesideGuardian \/ GatewayBesideReconciliation]_<<callVars, venueControlVars>>
             PROVE  VenueControlInv' /\ RunsAdvanced
  OBVIOUS
<1>1. ASSUME UNCHANGED reconciliationVars PROVE RunsAdvanced
  BY <1>1 DEF reconciliationVars, RunsAdvanced, Advances
<1>2. ASSUME ExecutionNext, UNCHANGED <<guardianVars, reconciliationVars>> PROVE VenueControlInv' /\ RunsAdvanced
  BY <1>1, <1>2, GatewayKeepsInv
<1>3. ASSUME GuardianNext, UNCHANGED reconciliationVars PROVE VenueControlInv' /\ RunsAdvanced
  BY <1>1, <1>3, GuardianKeepsInv
<1>4. ASSUME ReconciliationNext PROVE VenueControlInv' /\ RunsAdvanced
  BY <1>4, ReconciliationKeepsInv
<1>5. ASSUME UNCHANGED <<callVars, venueControlVars>> PROVE VenueControlInv' /\ RunsAdvanced
  <2>1. UNCHANGED <<executionVars, guardianVars, venue, runs>> /\ call' = call /\ UNCHANGED reconciliationVars
    BY <1>5 DEF callVars, venueControlVars, reconciliationVars
  <2>2. CallsKept({"reconcile", "safe_stop"}) /\ CallsKept({"execute"}) /\ CallsKept({"enforce"})
        /\ FinalKept /\ OrdersMove
    BY <2>1 DEF CallsKept, VenueControlInv, ExecutionInv, FinalKept, OrdersMove
  <2> QED BY <1>1, <2>1, <2>2, ExecutionKept, GuardianKept, ReconciliationKept DEF VenueControlInv
<1> QED BY <1>2, <1>3, <1>4, <1>5 DEF GatewayBesideGuardian, GatewayBesideReconciliation

(***************************************************************************)
(* A command reaches the venue at most once, after its SUBMITTED record,   *)
(* and a protective control sends each of its actions once, for any number *)
(* of processes, commands and controls, whatever dies or is repeated.      *)
(***************************************************************************)
THEOREM VenueSentOnce == VenueControlSpec => []SentOnce
<1>1. VenueControlInv => SentOnce
  <2> SUFFICES ASSUME VenueControlInv PROVE SentOnce
    OBVIOUS
  <2>1. ASSUME NEW x \in Commands
        PROVE  submissions[x] <= IF executions[x].state \in {"none", "RESERVED"} THEN 0 ELSE 1
    BY DEF VenueControlInv, ExecutionInv
  <2>2. ASSUME NEW k \in Controls
        PROVE  /\ \A a \in ProtectiveActions : enforced[k][a] <= 1
               /\ controls[k].status \in TERMINAL_CONTROL_STATUSES =>
                    controls[k].actions = {a \in ProtectiveActions : enforced[k][a] = 1}
    <3>1. \A a \in ProtectiveActions : enforced[k][a] \in 0 .. 1
      BY DEF VenueControlInv, GuardianInv
    <3>2. SoundControl(controls[k], enforced[k])
      BY DEF VenueControlInv, GuardianInv
    <3> QED BY <3>1, <3>2 DEF SoundControl, SentExactly
  <2> QED BY <2>1, <2>2 DEF SentOnce
<1> QED BY <1>1, InitVenueControlInv, NextKeepsVenueControlInv, PTL DEF VenueControlSpec

(***************************************************************************)
(* A run that says RECONCILED or REJECTED has the venue's last word.       *)
(***************************************************************************)
THEOREM VenueReconciledIsFinal == VenueControlSpec => []ReconciledIsFinal
<1>1. VenueControlInv => ReconciledIsFinal
  BY DEF VenueControlInv, ReconciliationInv, SoundRun, ReconciledIsFinal
<1> QED BY <1>1, InitVenueControlInv, NextKeepsVenueControlInv, PTL DEF VenueControlSpec

(***************************************************************************)
(* The trigger on the table of runs never has to refuse an update: the     *)
(* services advance a run by one version, shrink no cursor, leave terminal *)
(* runs alone and close no open circuit breaker.                           *)
(***************************************************************************)
THEOREM VenueRunsAdvance == VenueControlSpec => RunsAdvance
<1>1. VenueControlInv /\ RunsAdvanced =>
        \A x \in Commands : /\ runs[x] # NoReconciliation /\ runs'[x] # runs[x]
                                 => guard_trading_testnet_reconciliation_run(runs[x], runs'[x])
                            /\ runs[x].breaker => runs'[x].breaker
  BY DEF VenueControlInv, ReconciliationInv, SoundRun, RunsAdvanced, Advances
<1> QED BY <1>1, InitVenueControlInv, NextKeepsVenueControlInv, PTL DEF VenueControlSpec, RunsAdvance
=============================================================================
