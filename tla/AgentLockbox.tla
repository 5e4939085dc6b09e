---------------------------- MODULE AgentLockbox ----------------------------
(***************************************************************************)
(* The in-memory credit services behind the interactive sandbox: mandates, *)
(* spend policies, the risk engine's credit line, the revenue lockbox over *)
(* a double-entry ledger, obligations and their repayment, credit learning *)
(* and the transfer rail, with the sandbox API that runs them.             *)
(*                                                                         *)
(* Part "demo": one session of the interactive demo.  Its operations run   *)
(* one at a time over services that share no transaction, so an operation  *)
(* that throws keeps what it had already changed; an operator may change   *)
(* the services underneath.  The session works from copies of the line,    *)
(* the lockbox and the obligations.                                        *)
(* Part "rail": commands on transfer intents by concurrent callers.        *)
(* Part "api": concurrent requests against the table of sandbox sessions.  *)
(*                                                                         *)
(* Amounts are thousands of minor units; every amount of the demo is one.  *)
(***************************************************************************)
EXTENDS Calls, SequencesExt

CONSTANTS DemoProviders,      \* the allow-listed providers of the demo
          MaxSpends,          \* bound: approved spends
          MaxCaptured,        \* bound: revenue captured into the lockbox
          MaxEvents,          \* bound: evaluations, operator or calendar events
          TransferIntents,    \* transfer intents of the rail
          QUOTE_TTL,          \* ticks a transfer quote stands
          MaxVersion,         \* bound: events of one transfer intent
          SandboxSessions,    \* session ids clients send
          SANDBOX_SESSION_LIMIT, SANDBOX_SESSION_TTL,
          MAX_SANDBOX_MUTATIONS, MAX_CONCURRENT_REQUESTS, REQUESTS_PER_WINDOW,
          MaxEntries          \* bound: session entries created

VARIABLES world,              \* the demo's services and its session
          events,             \* evaluations, operator and calendar events so far
          railStreams,        \* railStreams[t]: the events of transfer intent t
          railAuthority,      \* the spend decision and its mandate are live
          entries,            \* session entries, in the order they were created
          sandboxSessions,    \* the session table, least recently used first
          windowRequestCount, \* requests admitted in the current window
          activeRequestCount  \* requests admitted and not yet finished

demoVars == <<world, events>>

railVars == <<railStreams, railAuthority>>

apiVars == <<entries, sandboxSessions, windowRequestCount, activeRequestCount>>

lockboxVars == <<demoVars, railVars, apiVars>>

Absent == [is |-> "absent"]

Present(x) == x # Absent

-----------------------------------------------------------------------------
(* A service call returns or throws; either way it leaves a world behind. *)

returns(w) == [ok |-> TRUE, world |-> w]

throws(w) == [ok |-> FALSE, world |-> w]

andThen(r, Op(_)) == IF r.ok THEN Op(r.world) ELSE r

when(condition, w, Op(_)) == IF condition THEN Op(w) ELSE returns(w)

total(s, amount(_)) == FoldLeft(LAMBDA sum, x : sum + amount(x), 0, s)

noted(w, signal) ==
  IF Contains(w.evidence, signal) THEN w ELSE [w EXCEPT !.evidence = Append(@, signal)]

-----------------------------------------------------------------------------
(* Ledger: every posting debits one account and credits another. *)

LedgerAccounts == {"lockbox", "revenue", "repayment"}

openAccounts == [a \in LedgerAccounts |-> [debit |-> 0, credit |-> 0]]

postTransaction(ledger, debited, credited, amount) ==
  [ledger EXCEPT ![debited].debit = @ + amount, ![credited].credit = @ + amount]

getAccountBalance(ledger, account) == ledger[account].debit - ledger[account].credit

getTrialBalance(ledger) ==
  [debit |-> ledger["lockbox"].debit + ledger["revenue"].debit + ledger["repayment"].debit,
   credit |-> ledger["lockbox"].credit + ledger["revenue"].credit + ledger["repayment"].credit]

-----------------------------------------------------------------------------
(* Lockbox *)

LockboxTransitions == {
  <<"created", "active">>, <<"created", "closed">>, <<"active", "frozen">>,
  <<"active", "closed">>, <<"frozen", "active">>, <<"frozen", "closed">>}

setLockboxStatus(w, status) ==
  IF <<w.box, status>> \in LockboxTransitions THEN returns([w EXCEPT !.box = status]) ELSE throws(w)

getLockbox(w) == [status |-> w.box, balance |-> getAccountBalance(w.ledger, "lockbox")]

captureIntoLockbox(w, amount) ==
  IF w.box # "active" THEN throws(w)
  ELSE returns(LET posted == [w EXCEPT !.ledger = postTransaction(@, "lockbox", "revenue", amount)]
               IN IF amount >= 50 THEN noted(posted, "high_revenue_capture") ELSE posted)

reduceBalance(w, amount) ==
  IF w.box = "closed" \/ getAccountBalance(w.ledger, "lockbox") < amount THEN throws(w)
  ELSE returns([w EXCEPT !.ledger = postTransaction(@, "repayment", "lockbox", amount)])

-----------------------------------------------------------------------------
(* Mandate *)

PER_ACTION_LIMIT == 500

AGGREGATE_LIMIT == 500

MandateTransitions == {
  <<"draft", "active">>, <<"draft", "revoked">>, <<"draft", "expired">>,
  <<"active", "suspended">>, <<"active", "revoked">>, <<"active", "expired">>,
  <<"suspended", "active">>, <<"suspended", "revoked">>, <<"suspended", "expired">>}

setMandateStatus(w, status) ==
  CASE w.mandate.status = status -> returns(w)
    [] <<w.mandate.status, status>> \in MandateTransitions ->
         returns([w EXCEPT !.mandate.status = status])
    [] OTHER -> throws(w)

\* Past its expiry the first check also marks the mandate expired.
assertAuthorized(w, amount, enforceAggregateLimit) ==
  LET m == IF w.mandate.lapsed /\ w.mandate.status \notin {"expired", "revoked"}
           THEN [w EXCEPT !.mandate.status = "expired"] ELSE w
  IN IF /\ m.mandate.status = "active"
        /\ amount <= PER_ACTION_LIMIT
        /\ enforceAggregateLimit => amount + m.mandate.utilized <= AGGREGATE_LIMIT
     THEN returns(m) ELSE throws(m)

reserveMandate(w, amount) ==
  andThen(assertAuthorized(w, amount, TRUE),
          LAMBDA v : returns([v EXCEPT !.mandate.utilized = @ + amount]))

-----------------------------------------------------------------------------
(* Credit line *)

GLOBAL_SUBJECT_CAP == 1000

\* The limit the rules compute from the revenue the demo reports.
grossLimit(providerCap) ==
  Min({(1000 * 30) \div 100, (400 * 90) \div 100, GLOBAL_SUBJECT_CAP, 1000, providerCap})

decisionStatus(w, lockboxStatus, overdueCount, available) ==
  CASE overdueCount > 0 -> "frozen"
    [] lockboxStatus # "active" -> "rejected"
    [] ~assertAuthorized(w, available, FALSE).ok -> "rejected"
    [] available = 0 -> "rejected"
    [] OTHER -> "approved"

\* The decision, with the line only when it approves; a subject keeps its
\* line and the line its first limit.
decideCreditLine(w, lockboxStatus, overdueCount, outstanding, providerCap) ==
  LET available == Max({0, grossLimit(providerCap) - outstanding})
      v == assertAuthorized(w, available, FALSE).world
      status == decisionStatus(w, lockboxStatus, overdueCount, available)
      granted == [status |-> "approved", limit |-> available, utilized |-> 0]
  IN CASE status # "approved" -> [ok |-> TRUE, world |-> v, line |-> Absent]
       [] ~Present(v.line) -> [ok |-> TRUE, world |-> [v EXCEPT !.line = granted], line |-> granted]
       [] v.line.status = "closed" \/ v.line.utilized # outstanding ->
            [ok |-> FALSE, world |-> v, line |-> Absent]
       [] OTHER -> [ok |-> TRUE, world |-> v, line |-> v.line]

reserveLine(w, amount) ==
  IF w.line.status # "approved" \/ w.line.utilized + amount > w.line.limit THEN throws(w)
  ELSE returns([w EXCEPT !.line.utilized = @ + amount, !.utilizationMoved = TRUE])

releaseLine(w, amount) ==
  IF w.line.status = "closed" \/ amount > w.line.utilized THEN throws(w)
  ELSE returns([w EXCEPT !.line.utilized = @ - amount, !.utilizationMoved = TRUE])

setCreditLineStatus(w, status) ==
  CASE w.line.status = "closed" -> throws(w)
    [] w.line.status = status -> returns(w)
    [] OTHER -> returns(LET v == [w EXCEPT !.line.status = status]
                        IN IF status = "frozen" THEN noted(v, "admin_freeze") ELSE v)

adjustCreditLine(w, limit) ==
  IF limit < w.line.utilized THEN throws(w) ELSE returns([w EXCEPT !.line.limit = limit])

-----------------------------------------------------------------------------
(* Obligations and their repayment *)

RepayableStatuses == {"active", "partially_repaid", "overdue"}

ObligationTransitions ==
  {<<"active", "partially_repaid">>, <<"active", "fully_repaid">>,
   <<"active", "overdue">>, <<"active", "defaulted">>,
   <<"partially_repaid", "fully_repaid">>, <<"partially_repaid", "overdue">>,
   <<"partially_repaid", "defaulted">>, <<"overdue", "partially_repaid">>,
   <<"overdue", "fully_repaid">>, <<"overdue", "defaulted">>}

createObligation(w, amount) ==
  [w EXCEPT !.obligations = Append(@, [amount |-> amount, outstanding |-> amount,
                                       repaid |-> 0, status |-> "active", due |-> FALSE])]

setObligationStatus(w, i, status) ==
  IF <<w.obligations[i].status, status>> \in ObligationTransitions
  THEN returns([w EXCEPT !.obligations[i].status = status]) ELSE throws(w)

\* Repays obligation i with at most amount.
applyRepayment(w, i, amount) ==
  LET o == w.obligations[i]
      applied == Min({amount, o.outstanding})
      status == IF applied = o.outstanding THEN "fully_repaid" ELSE "partially_repaid"
      repaid == [w EXCEPT !.obligations[i] =
                   [o EXCEPT !.outstanding = @ - applied, !.repaid = @ + applied, !.status = status]]
      timely == IF o.due THEN repaid ELSE noted(repaid, "on_time_repayment")
  IN IF status = "fully_repaid" THEN noted(timely, "full_repayment") ELSE timely

\* What each obligation takes of the amount, oldest due date first.
repaymentPlan(obligations, amount) ==
  LET outstanding(i) == IF obligations[i].status \in RepayableStatuses
                        THEN obligations[i].outstanding ELSE 0
      before(i) == total([j \in 1 .. i - 1 |-> j], outstanding)
  IN [i \in DOMAIN obligations |-> Max({0, Min({outstanding(i), amount - before(i)})})]

\* Mutant: the lockbox is debited the amount offered, not the amount applied.
applyLockboxRevenueInFull(w, amount, line) ==
  LET plan == repaymentPlan(w.obligations, amount)
      applied == total(plan, LAMBDA x : x)
      repaid == FoldLeft(LAMBDA v, i : IF plan[i] = 0 THEN v ELSE applyRepayment(v, i, plan[i]),
                         w, [i \in DOMAIN plan |-> i])
  IN IF \/ w.box \notin {"active", "frozen"}
        \/ amount > getAccountBalance(w.ledger, "lockbox")
        \/ Present(line) /\ applied > w.line.utilized
     THEN throws(w)
     ELSE IF applied = 0 THEN returns(w)
     ELSE andThen(reduceBalance(repaid, amount),
                  LAMBDA v : IF Present(line) THEN releaseLine(v, applied) ELSE returns(v))

\* Repays the obligations, then debits the lockbox, then frees the line when
\* the caller names one.
applyLockboxRevenue(w, amount, line) ==
  LET plan == repaymentPlan(w.obligations, amount)
      applied == total(plan, LAMBDA x : x)
      repaid == FoldLeft(LAMBDA v, i : IF plan[i] = 0 THEN v ELSE applyRepayment(v, i, plan[i]),
                         w, [i \in DOMAIN plan |-> i])
      freed(v) ==
        LET r == IF Present(line) THEN releaseLine(v, applied) ELSE returns(v)
        IN IF Present(line) /\ r.ok THEN r
           ELSE [r EXCEPT !.world.unreleased = @ + applied]
  IN IF \/ w.box \notin {"active", "frozen"}
        \/ amount > getAccountBalance(w.ledger, "lockbox")
        \/ Present(line) /\ applied > w.line.utilized
     THEN throws(w)
     ELSE IF applied = 0 THEN returns(w)
     ELSE andThen(reduceBalance(repaid, applied), freed)

-----------------------------------------------------------------------------
(* Credit learning *)

SIGNAL_RULES ==
  [on_time_repayment |-> 25, full_repayment |-> 20, high_revenue_capture |-> 15,
   low_utilization |-> 10, healthy_repeat_cycle |-> 15, late_repayment |-> -40,
   rejected_risky_spend |-> -15, high_utilization |-> -20, default_event |-> -120,
   admin_freeze |-> -80]

clampScore(score) == Max({300, Min({850, score})})

tierForScore(score) ==
  CASE score >= 750 -> "prime" [] score >= 650 -> "strong" [] score >= 550 -> "standard"
    [] score >= 450 -> "watch" [] OTHER -> "restricted"

recommendationForTier(tier, limit) ==
  LET percent == [prime |-> 150, strong |-> 125, standard |-> 110, watch |-> 80, restricted |-> 0]
  IN (limit * percent[tier]) \div 100

evaluate(w, limit, signals) ==
  LET score == FoldLeft(LAMBDA s, signal : clampScore(s + SIGNAL_RULES[signal]), w.profile.score, signals)
  IN [w EXCEPT !.profile = [score |-> score, limit |-> limit,
                            recommended |-> recommendationForTier(tierForScore(score), limit)]]

cycleSignals(cycleType) ==
  CASE cycleType = "healthy" -> <<"on_time_repayment", "full_repayment", "high_revenue_capture",
                                  "low_utilization", "healthy_repeat_cycle">>
    [] cycleType = "risky" -> <<"late_repayment", "rejected_risky_spend", "high_utilization">>
    [] OTHER -> <<"on_time_repayment", "high_revenue_capture", "low_utilization">>

-----------------------------------------------------------------------------
(* The demo's session *)

resetState ==
  [agent |-> FALSE, wallet |-> FALSE, box |-> "none", ledger |-> openAccounts,
   mandate |-> [status |-> "draft", utilized |-> 0, lapsed |-> FALSE],
   policies |-> [p \in DemoProviders |-> [spent |-> 0, today |-> TRUE]],
   spends |-> <<>>, line |-> Absent, obligations |-> <<>>,
   profile |-> [score |-> 500, limit |-> 0, recommended |-> 0],
   evidence |-> <<>>, utilizationMoved |-> FALSE, unreleased |-> 0,
   session |-> [box |-> Absent, line |-> Absent, obligations |-> <<>>]]

requireAgent(w, Op(_)) == IF w.agent THEN Op(w) ELSE throws(w)

createAgent(w) ==
  returns(IF w.agent THEN w ELSE [w EXCEPT !.agent = TRUE, !.mandate.status = "active"])

bindWallet(w) == requireAgent(w, LAMBDA v : returns([v EXCEPT !.wallet = TRUE]))

createLockbox(w) ==
  requireAgent(w, LAMBDA v :
    when(~Present(v.session.box), v, LAMBDA u :
      andThen(setLockboxStatus([u EXCEPT !.box = "created"], "active"),
              LAMBDA t : returns([t EXCEPT !.session.box = getLockbox(t)]))))

recommendedCap(w) == IF w.profile.recommended > 0 THEN w.profile.recommended ELSE 500

requestCreditLine(w) ==
  requireAgent(w, LAMBDA v : andThen(createLockbox(v), LAMBDA u :
    LET copies == u.session.obligations
        decided == decideCreditLine(u, u.session.box.status,
                     Len(SelectSeq(copies, LAMBDA o : o.status = "overdue")),
                     total(copies, LAMBDA o : o.outstanding), recommendedCap(u))
        kept == [decided.world EXCEPT !.session.line = decided.line]
    IN IF ~decided.ok THEN throws(decided.world)
       ELSE returns(evaluate(kept, IF Present(decided.line) THEN decided.line.limit ELSE 0, <<>>))))

PER_TX_LIMIT == 100

DAILY_LIMIT == 250

OBLIGATION_CAP == 100

dailySpent(w, provider) == IF w.policies[provider].today THEN w.policies[provider].spent ELSE 0

\* The spend the policy, the mandate or the line's headroom turns down.
spendRejected(w, r, creditAvailable) ==
  \/ r.provider \notin DemoProviders
  \/ ~r.purposeAllowed
  \/ ~assertAuthorized(w, r.amount, TRUE).ok
  \/ r.amount > PER_TX_LIMIT
  \/ r.amount + dailySpent(w, r.provider) > DAILY_LIMIT
  \/ r.amount > OBLIGATION_CAP
  \/ r.amount > creditAvailable

requestSpend(w, r, creditAvailable) ==
  IF spendRejected(w, r, creditAvailable)
  THEN LET v == IF r.provider \in DemoProviders /\ r.purposeAllowed
                THEN assertAuthorized(w, r.amount, TRUE).world ELSE w
       IN [approved |-> FALSE, world |-> noted(v, "rejected_risky_spend")]
  ELSE [approved |-> TRUE,
        world |-> [reserveMandate(w, r.amount).world EXCEPT
          !.policies[r.provider] = [spent |-> dailySpent(w, r.provider) + r.amount, today |-> TRUE],
          !.spends = Append(@, [amount |-> r.amount, status |-> "approved", transfer |-> "none"])]]

\* The transfer intent is created, quoted and authorized under the mandate.
prepareProviderPayment(w) ==
  andThen(assertAuthorized(w, Last(w.spends).amount, FALSE),
          LAMBDA v : returns([v EXCEPT !.spends[Len(v.spends)].transfer = "authorized"]))

\* An approved spend reserves the mandate first, then the line; a line that
\* refuses leaves the spend approved and the mandate reserved.
spendApproved(w, amount) ==
  andThen(reserveLine(w, amount), LAMBDA v :
    LET u == createObligation([v EXCEPT !.session.line = v.line], amount)
    IN prepareProviderPayment([u EXCEPT !.session.obligations = Append(@, Last(u.obligations))]))

submitSpendRequest(w, r) ==
  requireAgent(w, LAMBDA v :
    andThen(when(~Present(v.session.line), v, requestCreditLine), LAMBDA u :
      IF ~Present(u.session.line) THEN throws(u)
      ELSE LET decided == requestSpend(u, r, u.session.line.limit - u.session.line.utilized)
           IN IF decided.approved THEN spendApproved(decided.world, r.amount)
              ELSE returns(decided.world)))

\* Submits the authorized transfer and records its final receipt.
recordSettlement(w, i) ==
  IF w.spends[i].status # "approved" THEN returns(w)
  ELSE IF w.spends[i].transfer \in {"none", "lapsed"} THEN throws(w)
  ELSE andThen(assertAuthorized(w, w.spends[i].amount, FALSE), LAMBDA v :
         returns([v EXCEPT !.spends[i].status = "settled", !.spends[i].transfer = "settled"]))

captureRevenue(w, amount) ==
  requireAgent(w, LAMBDA v : andThen(createLockbox(v), LAMBDA u :
    andThen(assertAuthorized(u, amount, FALSE), LAMBDA t :
      andThen(captureIntoLockbox(t, amount), LAMBDA s :
        returns([s EXCEPT !.session.box = getLockbox(s)])))))

autoRepay(w) ==
  requireAgent(w, LAMBDA v :
    IF \/ ~Present(v.session.box)
       \/ \A i \in DOMAIN v.obligations : v.obligations[i].status \notin RepayableStatuses
       \/ v.session.box.balance <= 0
    THEN returns(v)
    ELSE andThen(assertAuthorized(v, v.session.box.balance, FALSE), LAMBDA u :
           andThen(applyLockboxRevenue(u, u.session.box.balance, u.session.line), LAMBDA t :
             returns([t EXCEPT !.session =
               [box |-> getLockbox(t),
                line |-> IF Present(t.session.line) THEN t.line ELSE Absent,
                obligations |-> t.obligations]]))))

utilizationSignal(w) ==
  IF /\ Present(w.session.line) /\ w.session.line.limit > 0
     /\ (w.session.line.utilized * 10000) \div w.session.line.limit > 5000
  THEN "high_utilization" ELSE "low_utilization"

evaluateCreditLearning(w) ==
  requireAgent(w, LAMBDA v :
    LET signals == IF v.utilizationMoved THEN Append(v.evidence, utilizationSignal(v)) ELSE v.evidence
        limit == IF Present(v.session.line) THEN v.session.line.limit ELSE v.profile.limit
    IN returns([evaluate(v, limit, signals) EXCEPT !.evidence = <<>>, !.utilizationMoved = FALSE]))

\* The limit is read before the cycle's own operations.
runCycle(w, cycleType) ==
  requireAgent(w, LAMBDA v :
    LET limit == IF Present(v.session.line) THEN v.session.line.limit ELSE v.profile.limit
        operations ==
          CASE cycleType = "healthy" -> andThen(captureRevenue(v, 90), autoRepay)
            [] cycleType = "risky" ->
                 submitSpendRequest(v, [provider |-> "unlisted", amount |-> 50, purposeAllowed |-> FALSE])
            [] OTHER -> andThen(captureRevenue(v, 40), autoRepay)
    IN andThen(operations, LAMBDA u : returns(evaluate(u, limit, cycleSignals(cycleType)))))

-----------------------------------------------------------------------------
SpendInputs ==
  [provider : DemoProviders, amount : {100, 110}, purposeAllowed : {TRUE}]
    \cup [provider : {"unlisted"}, amount : {50}, purposeAllowed : {FALSE}]

afterwards(r) == world' = r.world /\ UNCHANGED events

\* An operation of the session, over the API.
SessionOperation ==
  \/ afterwards(createAgent(world))
  \/ afterwards(bindWallet(world))
  \/ afterwards(createLockbox(world))
  \/ afterwards(requestCreditLine(world))
  \/ Len(world.spends) < MaxSpends /\ \E r \in SpendInputs : afterwards(submitSpendRequest(world, r))
  \/ \E i \in DOMAIN world.spends : afterwards(recordSettlement(world, i))
  \/ world.ledger["lockbox"].debit < MaxCaptured /\ afterwards(captureRevenue(world, 65))
  \/ afterwards(autoRepay(world))
  \/ afterwards(returns(resetState))

LearningOperation ==
  /\ events < MaxEvents /\ events' = events + 1
  /\ \/ world' = evaluateCreditLearning(world).world
     \/ \E cycleType \in {"healthy", "risky", "recovery"} : world' = runCycle(world, cycleType).world

\* An operator uses the services directly.
operatorActs ==
  \/ /\ Present(world.line)
     /\ \/ \E status \in {"frozen", "closed"} : world' = setCreditLineStatus(world, status).world
        \/ world' = adjustCreditLine(world, 100).world
  \/ \E status \in {"suspended", "revoked"} : world' = setMandateStatus(world, status).world
  \/ \E status \in {"frozen", "closed"} : world' = setLockboxStatus(world, status).world
  \/ \E i \in DOMAIN world.obligations :
       \/ world' = setObligationStatus(world, i, "overdue").world
       \/ LET r == setObligationStatus(world, i, "defaulted")
          IN world' = IF r.ok THEN noted(r.world, "default_event") ELSE r.world

\* Time passes: the day turns, due dates go by, quotes lapse, the mandate ends.
calendarTurns ==
  \/ world' = [world EXCEPT !.policies = [p \in DemoProviders |-> [@[p] EXCEPT !.today = FALSE]]]
  \/ world' = [world EXCEPT !.obligations = [i \in DOMAIN @ |-> [@[i] EXCEPT !.due = TRUE]]]
  \/ world' = [world EXCEPT !.spends =
        [i \in DOMAIN @ |-> IF @[i].transfer = "authorized" THEN [@[i] EXCEPT !.transfer = "lapsed"] ELSE @[i]]]
  \/ world' = [world EXCEPT !.mandate.lapsed = TRUE]

Intervention ==
  /\ events < MaxEvents /\ events' = events + 1
  /\ operatorActs \/ calendarTurns

DemoInit == world = resetState /\ events = 0

DemoNext ==
  (SessionOperation \/ LearningOperation \/ Intervention) /\ UNCHANGED <<callVars, railVars, apiVars>>

\* Across services that share no transaction, and after operations that
\* threw half-way, the books of a session agree: the mandate's utilization
\* is the sum of the approved spends, what each obligation owes and was
\* repaid is its amount, the lockbox holds what was captured less what was
\* repaid, the ledger balances, and the line's utilization is the debt plus
\* what was repaid without freeing the line.  The session's copy of the line
\* has the line's utilization.
SandboxBooksAgree ==
  LET w == world
      repaid == total(w.obligations, LAMBDA o : o.repaid)
  IN /\ w.mandate.utilized = total(w.spends, LAMBDA s : s.amount)
     /\ w.mandate.utilized <= AGGREGATE_LIMIT
     /\ \A i \in DOMAIN w.obligations :
          LET o == w.obligations[i]
          IN o.amount = o.outstanding + o.repaid /\ (o.status = "fully_repaid" <=> o.outstanding = 0)
     /\ getTrialBalance(w.ledger).debit = getTrialBalance(w.ledger).credit
     /\ getAccountBalance(w.ledger, "lockbox") = w.ledger["lockbox"].debit - repaid
     /\ Present(w.line) =>
          /\ w.line.utilized = total(w.obligations, LAMBDA o : o.outstanding) + w.unreleased
          /\ w.line.utilized <= w.line.limit
     /\ Present(w.session.line) => w.session.line.utilized = w.line.utilized

-----------------------------------------------------------------------------
(* Transfer rail: a command looks for its replay, reads the intent and      *)
(* checks, then appends; other callers run between the steps.               *)

TransferIntentTransitions == {
  <<"created", "quoted">>, <<"created", "expired">>, <<"quoted", "authorized">>,
  <<"quoted", "failed">>, <<"quoted", "expired">>, <<"authorized", "submitted">>,
  <<"authorized", "failed">>, <<"authorized", "expired">>, <<"submitted", "pending">>,
  <<"submitted", "settled">>, <<"submitted", "failed">>, <<"pending", "pending">>,
  <<"pending", "settled">>, <<"pending", "failed">>, <<"settled", "reversed">>}

\* The receipts an adapter can make: a failure or a reversal is final.
ReceiptInputs ==
  [outcome : {"succeeded"}, finality : {"pending"}, providerEvent : {"e1"}]
    \cup [outcome : {"succeeded"}, finality : {"finalized"}, providerEvent : {"e1", "e2"}]
    \cup [outcome : {"failed", "reversed"}, finality : {"finalized"}, providerEvent : {"e2"}]

statusForReceipt(r) ==
  CASE r.outcome = "failed" -> "failed"
    [] r.outcome = "reversed" -> "reversed"
    [] OTHER -> IF r.finality = "finalized" THEN "settled" ELSE "pending"

RailCommands ==
  [name : {"create", "quote", "authorize", "submit", "expire"}, receipt : {Absent}]
    \cup [name : {"settle"}, receipt : ReceiptInputs]

resultingStatus(c) ==
  CASE c.name = "settle" -> statusForReceipt(c.receipt)
    [] OTHER -> [create |-> "created", quote |-> "quoted", authorize |-> "authorized",
                 submit |-> "submitted", expire |-> "expired"][c.name]

\* The intent its events add up to.
reduce(stream) ==
  [status |-> Last(stream).status, version |-> Len(stream),
   quoteExpiry |-> IF Len(stream) > 1 THEN stream[2].at + QUOTE_TTL ELSE -1]

recordedUnder(key) == \E t \in TransferIntents : \E i \in DOMAIN railStreams[t] : railStreams[t][i].key = key

\* A command arrives with the version its caller last saw and a key that is
\* the caller's own or the one of an earlier attempt.  A creation draws a new
\* intent id.
railArrives(w, c, t, attempt) ==
  /\ call[w] = Idle
  /\ c.name = "create" <=> railStreams[t] = <<>>
  /\ c.name = "create" => \A v \in Workers : call[v].op = "rail" => call[v].t # t
  /\ Len(railStreams[t]) < MaxVersion
  /\ LET key == <<c.name, t, attempt>>
     IN /\ c.name # "settle" => attempt = 1
        /\ ~recordedUnder(key)
        /\ hold(w, [op |-> "rail", step |-> "check", c |-> c, t |-> t, key |-> key,
                    at |-> IF c.name \in {"create", "settle"} THEN 0 ELSE now,
                    version |-> Len(railStreams[t])])
  /\ UNCHANGED railVars

listSettlementReceipts ==
  {e.receipt : e \in {x \in UNION {Range(railStreams[t]) : t \in TransferIntents} : x.c = "settle"}}

assertQuoteCurrent(i, at) == i.quoteExpiry # -1 /\ at < i.quoteExpiry

assertLivePolicyAndMandate == railAuthority

checksPass(k) ==
  IF k.c.name = "create" THEN railAuthority
  ELSE /\ railStreams[k.t] # <<>>
       /\ LET i == reduce(railStreams[k.t])
          IN /\ i.version = k.version
             /\ <<i.status, resultingStatus(k.c)>> \in TransferIntentTransitions
             /\ k.c.name \in {"authorize", "submit"} =>
                  assertQuoteCurrent(i, k.at) /\ assertLivePolicyAndMandate
             /\ k.c.name = "expire" => i.quoteExpiry # -1 /\ k.at >= i.quoteExpiry
             /\ k.c.name = "settle" =>
                  \A r \in listSettlementReceipts : r.providerEvent # k.c.receipt.providerEvent

railChecks(w) ==
  /\ call[w].op = "rail" /\ call[w].step = "check"
  /\ IF checksPass(call[w]) THEN hold(w, [call[w] EXCEPT !.step = "append"]) ELSE ends(w)
  /\ UNCHANGED railVars


\* Appends queue up; each looks for its key and the stream's version again.
appendCommand(w) ==
  /\ call[w].op = "rail" /\ call[w].step = "append"
  /\ LET k == call[w]
         event == [c |-> k.c.name, version |-> k.version + 1, key |-> k.key,
                   at |-> IF k.c.name = "quote" THEN k.at ELSE 0,
                   status |-> resultingStatus(k.c), receipt |-> k.c.receipt]
     IN railStreams' = IF ~recordedUnder(k.key) /\ Len(railStreams[k.t]) = k.version
                       THEN [railStreams EXCEPT ![k.t] = Append(@, event)] ELSE railStreams
  /\ ends(w)
  /\ UNCHANGED railAuthority

\* Nothing after the submission depends on the clock or the mandate.
unsubmitted == \E t \in TransferIntents : Len(railStreams[t]) < 4

authorityEnds ==
  unsubmitted /\ railAuthority /\ railAuthority' = FALSE /\ UNCHANGED <<railStreams, callVars>>

RailInit == railStreams = [t \in TransferIntents |-> <<>>] /\ railAuthority = TRUE

RailNext ==
  /\ \/ \E w \in Workers :
          \/ \E c \in RailCommands, t \in TransferIntents, attempt \in {1, 2} : railArrives(w, c, t, attempt)
          \/ railChecks(w)
          \/ appendCommand(w)
     \/ authorityEnds
     \/ unsubmitted /\ Tick /\ UNCHANGED railVars
  /\ UNCHANGED <<demoVars, apiVars>>


-----------------------------------------------------------------------------
(* Sandbox API: a request is admitted and given its session's entry, reads  *)
(* its body, waits its turn in the entry's queue, runs, and is counted out. *)

\* Whether a request starts a new window is a matter of the clock.
admitRequest(count) == count < REQUESTS_PER_WINDOW /\ activeRequestCount < MAX_CONCURRENT_REQUESTS

unexpired == SelectSeq(sandboxSessions, LAMBDA s : s.seen >= now - SANDBOX_SESSION_TTL)

\* The table after a request of session id: expired sessions go, a known one
\* moves to the end, a new one pushes out the least recently used.
entryForSession(id) ==
  LET others == SelectSeq(unexpired, LAMBDA s : s.id # id)
      known == SelectSeq(unexpired, LAMBDA s : s.id = id)
      room == IF Len(others) >= SANDBOX_SESSION_LIMIT
              THEN SubSeq(others, Len(others) - SANDBOX_SESSION_LIMIT + 2, Len(others)) ELSE others
  IN IF known # <<>>
     THEN [table |-> Append(others, [known[1] EXCEPT !.seen = now]), entry |-> known[1].entry, new |-> FALSE]
     ELSE [table |-> Append(room, [id |-> id, seen |-> now, entry |-> Len(entries) + 1]),
           entry |-> Len(entries) + 1, new |-> TRUE]

apiArrives(w, id, kind) ==
  /\ call[w] = Idle
  /\ \E count \in {0, windowRequestCount} :
       /\ admitRequest(count)
       /\ windowRequestCount' = count + 1
  /\ activeRequestCount' = activeRequestCount + 1
  /\ LET e == entryForSession(id)
     IN /\ e.new => Len(entries) < MaxEntries
        /\ sandboxSessions' = e.table
        /\ entries' = IF e.new THEN Append(entries, [mutationCount |-> 0, queue |-> <<>>]) ELSE entries
        /\ hold(w, [op |-> "api", step |-> "body", entry |-> e.entry, kind |-> kind])

requestEnds(w) == activeRequestCount' = activeRequestCount - 1 /\ ends(w)

\* Mutant: a refused body is not counted out.
readJsonUncounted(w) ==
  /\ call[w].op = "api" /\ call[w].step = "body"
  /\ \/ /\ entries' = [entries EXCEPT ![call[w].entry].queue = Append(@, w)]
        /\ hold(w, [call[w] EXCEPT !.step = "queued"])
     \/ ends(w) /\ UNCHANGED entries
  /\ UNCHANGED <<sandboxSessions, windowRequestCount, activeRequestCount>>

\* The body is read and the operation queued, or the body is refused.
readJson(w) ==
  /\ call[w].op = "api" /\ call[w].step = "body"
  /\ \/ /\ entries' = [entries EXCEPT ![call[w].entry].queue = Append(@, w)]
        /\ hold(w, [call[w] EXCEPT !.step = "queued"])
        /\ UNCHANGED activeRequestCount
     \/ requestEnds(w) /\ UNCHANGED entries
  /\ UNCHANGED <<sandboxSessions, windowRequestCount>>

consumeMutationBudget(entry) ==
  IF entry.mutationCount >= MAX_SANDBOX_MUTATIONS THEN entry
  ELSE [entry EXCEPT !.mutationCount = @ + 1]

\* The operation at the head of the queue runs and answers, or throws.
queueSessionOperation(w) ==
  /\ call[w].op = "api" /\ call[w].step = "queued"
  /\ LET k == call[w]
         entry == [entries[k.entry] EXCEPT !.queue = Tail(@)]
     IN /\ Head(entries[k.entry].queue) = w
        /\ entries' = [entries EXCEPT ![k.entry] =
             CASE k.kind = "reset" -> [entry EXCEPT !.mutationCount = 0]
               [] k.kind = "mutation" -> consumeMutationBudget(entry)
               [] OTHER -> entry]
  /\ requestEnds(w)
  /\ UNCHANGED <<sandboxSessions, windowRequestCount>>

ApiInit ==
  entries = <<>> /\ sandboxSessions = <<>> /\ windowRequestCount = 0 /\ activeRequestCount = 0

ApiNext ==
  /\ \/ \E w \in Workers :
          \/ \E id \in SandboxSessions, kind \in {"read", "mutation", "reset"} : apiArrives(w, id, kind)
          \/ readJson(w)
          \/ queueSessionOperation(w)
     \/ Tick /\ UNCHANGED apiVars
  /\ UNCHANGED <<demoVars, railVars>>

\* The API's counters are what they count: every admitted request is counted
\* out exactly once, on its error paths too; a session never outspends its
\* mutation budget; the table keeps one entry for a session and no more
\* sessions than its limit; a waiting request is in its entry's queue.
ApiRequestsAccounted ==
  /\ activeRequestCount = Cardinality({w \in Workers : call[w].op = "api"})
  /\ activeRequestCount <= MAX_CONCURRENT_REQUESTS
  /\ \A i \in DOMAIN entries : entries[i].mutationCount <= MAX_SANDBOX_MUTATIONS
  /\ Len(sandboxSessions) <= SANDBOX_SESSION_LIMIT
  /\ \A i, j \in DOMAIN sandboxSessions :
       i # j => /\ sandboxSessions[i].id # sandboxSessions[j].id
                /\ sandboxSessions[i].entry # sandboxSessions[j].entry
  /\ \A w \in Workers : call[w].op = "api" =>
       (call[w].step = "queued" <=> Contains(entries[call[w].entry].queue, w))

LockboxInit == DemoInit /\ RailInit /\ ApiInit
=============================================================================
