-------------------------- MODULE CreditServicing ---------------------------
(***************************************************************************)
(* The life of an accepted sandbox obligation: its execution, the interest *)
(* it accrues, repayments through the waterfall, the worker that ages it,  *)
(* and the approved resolutions (restructure, repurchase, write-off), with *)
(* the ledger, the agent's credit line and the lockbox each step moves.    *)
(* Time is counted in parts of a day; origination fees are always zero in  *)
(* this product (the table refuses others), so the fee leg is left out.    *)
(***************************************************************************)
EXTENDS Integers, Sequences, FiniteSetsExt

CONSTANTS Loans,                \* the accepted obligations
          AgentLoans,           \* those of the agent; the others are a human's
          terms,                \* terms[l]: its principal and its due times
          DAY,                  \* clock units in a day
          rateBps,
          DENOMINATOR,          \* of the daily interest
          GRACE_DAYS,
          DEFAULT_DPD,
          MAX_SEQUENCE,         \* schedules an obligation may go through
          Providers, facilityProviders,
          Payments,             \* amounts a borrower may send
          MaxClock,             \* bound: clock units in a behaviour
          Lag                   \* bound: admission to commit, in clock units

VARIABLES clock,
          shared,               \* shared[l]: the obligation
          receipts,             \* loans with a sandbox execution receipt
          books,                \* books[l]: its ledger accounts, debits positive
          creditLine,           \* the agent's credit line
          lockboxes,            \* lockboxes[l]: its status
          resolutions,          \* resolutions[l]: the approved resolution, if any
          standing              \* what the borrower's authority still allows

servicingVars == <<clock, shared, receipts, books, creditLine, lockboxes,
                   resolutions, standing>>

Absent == [status |-> "absent"]
Components == {"interest", "principal"}
LedgerAccounts == {"funding", "principal", "interest", "income", "clearing", "loss"}

createObligationSchedule(l) ==
  LET n == Len(terms[l].due)
      each == terms[l].principal \div n
  IN [k \in 1..n |->
        [due |-> terms[l].due[k],
         scheduled |-> [interest |-> 0,
                        principal |-> IF k < n THEN each
                                      ELSE terms[l].principal - each * (n - 1)],
         paid |-> [c \in Components |-> 0]]]

acceptedOfferObligation(l) ==
  [status |-> "created", classification |-> "current", reason |-> "obligation_created",
   dpd |-> 0, outstanding |-> [interest |-> 0, principal |-> terms[l].principal],
   remainder |-> 0, accruedAt |-> 0, rows |-> createObligationSchedule(l),
   repaid |-> 0, owner |-> "sandbox_platform", sequence |-> 1, writtenOff |-> 0]

ServicingInit(loans) ==
  /\ clock = 0
  /\ shared = [l \in Loans |-> IF l \in loans
                                 THEN acceptedOfferObligation(l) ELSE Absent]
  /\ receipts = {}
  /\ books = [l \in Loans |-> [a \in LedgerAccounts |-> 0]]
  /\ creditLine = Absent
  /\ lockboxes = [l \in Loans |-> "absent"]
  /\ resolutions = [l \in Loans |-> Absent]
  /\ standing \in {"current", "noRepayment"}

executed(l) == shared[l].status \notin {"absent", "created"}

\* The time a command was admitted at, which its plan is made for.
admissionTimes == {t \in clock - Lag .. clock : t >= 0}

-----------------------------------------------------------------------------
\* Servicing state, derived from the schedule and the clock.

installmentOutstandingMinor(row) ==
  row.scheduled.principal - row.paid.principal
  + row.scheduled.interest - row.paid.interest

total(o) == o.outstanding.interest + o.outstanding.principal

basePerformingStatus(o) ==
  IF total(o) = 0 THEN "fully_repaid"
  ELSE IF /\ o.status \in {"restructured", "repurchased"}
          /\ o.classification \in {"restructured", "repurchased"} THEN o.status
  ELSE IF o.repaid > 0 THEN "partially_repaid" ELSE "active"

\* The bands between grace and default differ in their label alone.
classificationForDpd(dpd) ==
  IF dpd <= GRACE_DAYS THEN "grace_period"
  ELSE IF dpd < DEFAULT_DPD THEN "past_due" ELSE "defaulted"

reasonForClassification(c) == c

deriveSandboxServicing(o, at) ==
  LET unpaid == {k \in DOMAIN o.rows : installmentOutstandingMinor(o.rows[k]) > 0}
      oldest == o.rows[Min(unpaid)]
      dpd == (at - oldest.due) \div DAY
      classification == classificationForDpd(dpd)
  IN IF unpaid = {} \/ at <= oldest.due
       THEN [status |-> basePerformingStatus(o),
             classification |-> IF o.status \in {"restructured", "repurchased"}
                                  THEN o.classification ELSE "current",
             dpd |-> 0, reason |-> "current"]
       ELSE [status |-> IF classification = "defaulted" THEN "defaulted"
                                                        ELSE "delinquent",
             classification |-> classification, dpd |-> dpd,
             reason |-> reasonForClassification(classification)]

allowedPairs ==
  {<<"created", "current">>, <<"delinquent", "grace_period">>,
   <<"delinquent", "past_due">>}
  \cup ({"active", "partially_repaid", "fully_repaid"} \X {"current", "cured"})
  \cup {<<s, s>> : s \in {"defaulted", "restructured", "repurchased", "written_off"}}

assertSandboxServicingState(o) ==
  /\ <<o.status, o.classification>> \in allowedPairs
  /\ o.classification = "current" => o.dpd = 0
  /\ o.status = "defaulted" => o.dpd >= DEFAULT_DPD
  /\ (\A k \in DOMAIN o.rows : installmentOutstandingMinor(o.rows[k]) = 0) => o.dpd = 0

applyDerivedServicing(o, derived) ==
  [o EXCEPT !.status = derived.status, !.classification = derived.classification,
            !.dpd = derived.dpd, !.reason = derived.reason]

ChecksForgetWriteOff(o) ==
  /\ <<o.status, o.classification>> \in allowedPairs
  /\ o.sequence <= MAX_SEQUENCE
  /\ o.remainder < DENOMINATOR

\* The table's own constraints on an obligation.
obligationsChecks(o) ==
  /\ <<o.status, o.classification>> \in allowedPairs
  /\ o.writtenOff > 0 <=> o.status = "written_off"
  /\ o.sequence <= MAX_SEQUENCE
  /\ o.remainder < DENOMINATOR

\* The obligation is written; a resolution approved for what it was is stale.
writeServicedObligation(l, o) ==
  /\ obligationsChecks(o)
  /\ shared' = [shared EXCEPT ![l] = o]

findSandboxExecutionReceiptByObligation(l) == l \in receipts

writeSandboxExecutionReceipt(l) == receipts' = receipts \cup {l}

writeLedgerTransaction(l, b) == books' = [books EXCEPT ![l] = b]

writeCreditLine(line) == creditLine' = line

writeLockbox(l, status) == lockboxes' = [lockboxes EXCEPT ![l] = status]

staleResolution(l, o) ==
  [resolutions EXCEPT ![l] =
     IF @ # Absent /\ o # shared[l] THEN [@ EXCEPT !.fresh = FALSE] ELSE @]

-----------------------------------------------------------------------------
\* Execution.

assertCurrentAuthority(operation) ==
  \/ standing = "current"
  \/ standing = "noRepayment" /\ operation = "execute"

\* The obligation, its subject, principal, authority and provenance.
loadObligationContext(l, operation) ==
  shared[l] # Absent /\ assertCurrentAuthority(operation)

getAgentCreditExposure ==
  LET open == {l \in AgentLoans : executed(l)}
  IN [obligations |-> open,
      outstanding |-> MapThenSumSet(LAMBDA l : shared[l].outstanding.principal, open),
      committed |-> MapThenSumSet(LAMBDA l : terms[l].principal, open)]

verifyCreditLineProjection(line, exposure) ==
  IF line = Absent THEN exposure.obligations = {}
  ELSE line.status = "approved" /\ line.limit = exposure.committed
       /\ line.utilized = exposure.outstanding

deriveAgentCreditLineProjection(l, exposure, delta) ==
  [status |-> "approved", utilized |-> exposure.outstanding + delta,
   limit |-> exposure.committed + (IF delta > 0 THEN terms[l].principal ELSE 0)]

creditLineCapacity(l, exposure, delta) ==
  LET next == deriveAgentCreditLineProjection(l, exposure, delta)
  IN /\ delta <= terms[l].principal
     /\ delta > 0 <=> l \notin exposure.obligations
     /\ 0 <= next.utilized /\ next.utilized <= next.limit

planAgentCreditLineUtilization(l, delta) ==
  LET exposure == getAgentCreditExposure
  IN /\ verifyCreditLineProjection(creditLine, exposure)
     /\ creditLineCapacity(l, exposure, delta)
     /\ writeCreditLine(deriveAgentCreditLineProjection(l, exposure, delta))

assertAgentProviderTarget(p) == p \in facilityProviders

createAgentLockboxProjection == "active"

planAgentLockboxCreation(l) ==
  lockboxes[l] = "absent" /\ writeLockbox(l, createAgentLockboxProjection)

\* A transaction posts its debits and credits together or not at all.
createBalancedTransaction(b, debits, credits) ==
  [a \in LedgerAccounts |->
     b[a] + (IF a \in DOMAIN debits THEN debits[a] ELSE 0)
          - (IF a \in DOMAIN credits THEN credits[a] ELSE 0)]

executeSandboxObligation(o, at) ==
  [o EXCEPT !.status = "active", !.accruedAt = at, !.remainder = 0]

sandboxCreditExecution(b, o) ==
  createBalancedTransaction(b, [principal |-> o.outstanding.principal],
                               [funding |-> o.outstanding.principal])

executionWrites(l, o) ==
  /\ writeSandboxExecutionReceipt(l)
  /\ writeLedgerTransaction(l, sandboxCreditExecution(books[l], shared[l]))
  /\ writeServicedObligation(l, o)
  /\ resolutions' = staleResolution(l, o)
  /\ UNCHANGED <<clock, standing>>

executeSandboxObligationCommand(l, p) == \E at \in admissionTimes :
  /\ loadObligationContext(l, "execute")
  /\ shared[l].status = "created"
  /\ ~findSandboxExecutionReceiptByObligation(l)
  /\ IF l \in AgentLoans
       THEN /\ planAgentCreditLineUtilization(l, terms[l].principal)
            /\ assertAgentProviderTarget(p)
            /\ planAgentLockboxCreation(l)
       ELSE UNCHANGED <<creditLine, lockboxes>>
  /\ executionWrites(l, executeSandboxObligation(shared[l], at))

-----------------------------------------------------------------------------
\* Repayment.

elapsedDays(o, at) == (at - o.accruedAt) \div DAY

accrualNumerator(o, at) ==
  o.remainder + o.outstanding.principal * rateBps * elapsedDays(o, at)

rowPaid(row) ==
  row.paid.principal + row.paid.interest # 0 /\ installmentOutstandingMinor(row) = 0

accrueOn(rows, accrued) ==
  LET open == {k \in DOMAIN rows : ~rowPaid(rows[k])}
      target == IF open = {} THEN Len(rows) ELSE Min(open)
  IN [rows EXCEPT ![target].scheduled.interest = @ + accrued]

accrueSimpleInterest(o, at) ==
  LET accrued == accrualNumerator(o, at) \div DENOMINATOR
  IN [o EXCEPT !.outstanding.interest = @ + accrued,
               !.remainder = accrualNumerator(o, at) % DENOMINATOR,
               !.accruedAt = @ + elapsedDays(o, at) * DAY,
               !.rows = accrueOn(@, accrued)]

available(rows, c, k) == rows[k].scheduled[c] - rows[k].paid[c]

availableBefore(rows, c, k) ==
  MapThenSumSet(LAMBDA j : available(rows, c, j), 1..(k - 1))

reconciles(rows, c, amount) == amount <= availableBefore(rows, c, Len(rows) + 1)

allocateAcrossInstallments(rows, c, amount) ==
  [k \in DOMAIN rows |->
     [rows[k] EXCEPT !.paid[c] = @ +
        Max({0, Min({available(rows, c, k),
                     amount - availableBefore(rows, c, k)})})]]

RepayableStatuses ==
  {"active", "partially_repaid", "delinquent", "defaulted", "restructured",
   "repurchased"}

\* Interest first, then principal; what is left over is not taken.
waterfall(o, amount) ==
  LET interest == Min({amount, o.outstanding.interest})
  IN [interest |-> interest,
      principal |-> Min({amount - interest, o.outstanding.principal})]

repaidObligation(o, applied) ==
  LET rows == allocateAcrossInstallments(
                allocateAcrossInstallments(o.rows, "interest", applied.interest),
                "principal", applied.principal)
      next == [o EXCEPT !.outstanding = [c \in Components |-> @[c] - applied[c]],
                        !.repaid = @ + applied.interest + applied.principal,
                        !.rows = rows]
  IN [next EXCEPT !.status = IF total(next) = 0 THEN "fully_repaid"
                                                ELSE "partially_repaid"]

applySandboxServicingAfterRepayment(previous, o, at) ==
  LET derived == deriveSandboxServicing(o, at)
      wasAdverse == \/ previous.status \in {"delinquent", "defaulted"}
                    \/ previous.classification \in
                         {"grace_period", "past_due", "defaulted"}
  IN applyDerivedServicing(o,
       IF wasAdverse /\ derived.dpd = 0
         THEN [derived EXCEPT !.status = basePerformingStatus(o),
                              !.classification = "cured", !.reason = "cured"]
         ELSE derived)

sandboxInterestAccrual(b, accrued) ==
  createBalancedTransaction(b, [interest |-> accrued], [income |-> accrued])

sandboxRepayment(b, applied) ==
  createBalancedTransaction(b,
    [clearing |-> applied.interest + applied.principal], applied)

updateAgentLockboxAfterRepayment(status, o) ==
  IF o.status = "fully_repaid" THEN "closed" ELSE status

\* An agent's repayment of principal releases its line; each one needs the
\* lockbox.
agentRepayment(l, o, principal) ==
  /\ IF principal > 0 THEN planAgentCreditLineUtilization(l, -principal)
                      ELSE UNCHANGED creditLine
  /\ lockboxes[l] \in {"active", "frozen"}
  /\ writeLockbox(l, updateAgentLockboxAfterRepayment(lockboxes[l], o))

repaymentWrites(l, o, accrued, applied) ==
  /\ writeLedgerTransaction(l,
       sandboxRepayment(sandboxInterestAccrual(books[l], accrued), applied))
  /\ writeServicedObligation(l, o)
  /\ resolutions' = staleResolution(l, o)
  /\ UNCHANGED <<clock, receipts, standing>>

postSandboxRepayment(l, amount, at) ==
  LET current == accrueSimpleInterest(shared[l], at)
      applied == waterfall(current, amount)
      o == applySandboxServicingAfterRepayment(shared[l],
             repaidObligation(current, applied), at)
      accrued == current.outstanding.interest - shared[l].outstanding.interest
  IN /\ applied.interest + applied.principal > 0
     /\ \A c \in Components : reconciles(current.rows, c, applied[c])
     /\ assertSandboxServicingState(o)
     /\ IF l \in AgentLoans THEN agentRepayment(l, o, applied.principal)
                            ELSE UNCHANGED <<creditLine, lockboxes>>
     /\ repaymentWrites(l, o, accrued, applied)

postSandboxRepaymentCommand(l, amount) == \E at \in admissionTimes :
  /\ loadObligationContext(l, "repay")
  /\ shared[l].status \in RepayableStatuses
  /\ at >= shared[l].accruedAt
  /\ postSandboxRepayment(l, amount, at)

-----------------------------------------------------------------------------
\* The servicing worker, and the resolutions two operators approved.

advanceSandboxServicing(o, at) ==
  applyDerivedServicing(o, deriveSandboxServicing(o, at))

workerAdvanceSandboxServicing(l) == \E at \in admissionTimes :
  LET o == advanceSandboxServicing(shared[l], at)
  IN /\ executed(l)
     /\ assertSandboxServicingState(o)
     /\ writeServicedObligation(l, o)
     /\ resolutions' = staleResolution(l, o)
     /\ UNCHANGED <<clock, receipts, books, creditLine, lockboxes, standing>>

Resolutions == {"restructure", "repurchase", "writeOff"}

assertResolutionEligible(o, op) ==
  o.status \in
    CASE op = "restructure" -> {"delinquent", "defaulted"}
      [] op = "repurchase" -> {"delinquent", "defaulted", "restructured"}
      [] op = "writeOff" -> {"defaulted", "restructured", "repurchased"}

\* Two operators approve a resolution of the obligation they saw; one the
\* obligation is not eligible for could only be refused later.
resolutionApproved(l, op) ==
  /\ executed(l) /\ assertResolutionEligible(shared[l], op)
  /\ resolutions' = [resolutions EXCEPT ![l] = [op |-> op, fresh |-> TRUE]]
  /\ UNCHANGED <<clock, shared, receipts, books, creditLine, lockboxes, standing>>

resolve(o, status) ==
  [o EXCEPT !.status = status, !.classification = status, !.reason = status]

restructureSandboxObligation(o, at) ==
  [resolve(o, "restructured") EXCEPT
     !.sequence = @ + 1, !.dpd = 0,
     !.rows = <<[due |-> at + DAY, scheduled |-> o.outstanding,
                 paid |-> [c \in Components |-> 0]]>>]

repurchaseSandboxObligation(o) ==
  [resolve(o, "repurchased") EXCEPT
     !.owner = IF @ = "sandbox_platform" THEN "sandbox_originator"
                                         ELSE "sandbox_platform"]

writeOffSandboxObligation(o) ==
  [resolve(o, "written_off") EXCEPT !.writtenOff = total(o)]

createSandboxWriteOffTransaction(b, o) ==
  createBalancedTransaction(b, [loss |-> total(o)], o.outstanding)

applyResolution(op, o, at) ==
  CASE op = "restructure" -> restructureSandboxObligation(o, at)
    [] op = "repurchase" -> repurchaseSandboxObligation(o)
    [] op = "writeOff" -> writeOffSandboxObligation(o)

loadApprovalProposal(l) == resolutions[l] # Absent

resolutionWrites(l, op, o) ==
  /\ IF op = "writeOff"
       THEN writeLedgerTransaction(l, createSandboxWriteOffTransaction(books[l], shared[l]))
       ELSE UNCHANGED books
  /\ writeServicedObligation(l, o)
  /\ resolutions' = [resolutions EXCEPT ![l] = Absent]
  /\ UNCHANGED <<clock, receipts, creditLine, lockboxes, standing>>

sandboxServicingResolution(l) == \E at \in admissionTimes :
  LET op == resolutions[l].op
      o == applyResolution(op, shared[l], at)
  IN /\ executed(l)
     /\ loadApprovalProposal(l)
     /\ resolutions[l].fresh
     /\ assertResolutionEligible(shared[l], op)
     /\ op = "writeOff" => total(shared[l]) > 0
     /\ assertSandboxServicingState(o)
     /\ resolutionWrites(l, op, o)

-----------------------------------------------------------------------------
\* The authority is revoked or expires, or the subject or its line is frozen.
standingLost ==
  /\ standing' = "blocked"
  /\ UNCHANGED <<clock, shared, receipts, books, creditLine, lockboxes, resolutions>>

TimePasses ==
  /\ clock < MaxClock /\ clock' = clock + 1
  /\ UNCHANGED <<shared, receipts, books, creditLine, lockboxes, resolutions, standing>>

ServicingNext ==
  \/ standingLost
  \/ \E l \in Loans :
       \/ \E p \in Providers : executeSandboxObligationCommand(l, p)
       \/ \E amount \in Payments : postSandboxRepaymentCommand(l, amount)
       \/ workerAdvanceSandboxServicing(l)
       \/ \E op \in Resolutions : resolutionApproved(l, op)
       \/ sandboxServicingResolution(l)

-----------------------------------------------------------------------------
\* Whatever order executions, repayments, worker runs and resolutions commit
\* in, the records of one obligation agree: what its ledger says is receivable
\* is what the obligation says is outstanding (and once written off nothing is
\* receivable and the loss is what was outstanding), the unpaid part of its
\* schedule is its outstanding balance, the agent's credit line carries the
\* principal of all its loans, and a lockbox is closed just when its loan is
\* repaid.
BooksReconcile ==
  /\ \A l \in {k \in Loans : executed(k)} :
       LET o == shared[l]
       IN /\ MapThenSumSet(LAMBDA a : books[l][a], LedgerAccounts) = 0
          /\ \A c \in Components :
               /\ books[l][c] = IF o.status = "written_off" THEN 0
                                                           ELSE o.outstanding[c]
               /\ availableBefore(o.rows, c, Len(o.rows) + 1) = o.outstanding[c]
          /\ books[l].loss = o.writtenOff
          /\ l \in AgentLoans =>
               (lockboxes[l] = "closed" <=> o.status = "fully_repaid")
  /\ verifyCreditLineProjection(creditLine, getAgentCreditExposure)
=============================================================================
