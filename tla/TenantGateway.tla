---------------------------- MODULE TenantGateway ----------------------------
(***************************************************************************)
(* One tenant's requests at the command gateway: admission against the     *)
(* tenant's budgets, then one transaction that locks the admission, finds  *)
(* a replay, checks the pause, authorizes, commits the command and         *)
(* completes the admission.                                                *)
(*                                                                         *)
(* The transaction runs at READ COMMITTED: its statements are steps, its   *)
(* writes appear when it commits, and the rows and advisory locks it holds *)
(* are functions of the step each process has reached.  The reservation    *)
(* and completion of an admission outside it are serializable transactions *)
(* and single steps.  Replies are lost and processes die anywhere.         *)
(***************************************************************************)
EXTENDS Calls, FiniteSets, FiniteSetsExt, Functions

CONSTANTS Requests,     \* requests: operation, key, payload, approval artifact
          policies,     \* policies[operation]: kind, ownership, approval, delta
          RateLimits,   \* RateLimits[d]: requests of a window in dimension d
          Dimensions,   \* the rate dimensions, in the order they are charged
          WINDOW, CONCURRENCY, RESOURCES, LEASE, COMMAND_RETENTION,
          MaxAdmissions,        \* bound: admissions in a behaviour
          MaxChanges            \* bound: pauses and changes of membership or grant

VARIABLES quota,        \* the tenant's rate and capacity buckets, admissions and charges
          commandExecutions,   \* commandExecutions[k]: what ran under key k
          audit,        \* authorization decisions recorded
          directory,    \* membership, resource and access grant
          paused        \* the pause record, the commands that had run and the
                        \* transactions that were open when it was committed

gatewayVars == <<quota, commandExecutions, audit, directory, paused>>

Keys == {r.key : r \in Requests}

policyOf(r) == policies[r.operationId]

isCommand(r) == policyOf(r).kind = "command"

NoCharge == [status |-> "none", admission |-> 0, expiresAt |-> 0]

NeverRan == [payload |-> "none", admission |-> 0, times |-> 0, delta |-> 0]

GatewayInit ==
  /\ quota = [rate |-> [d \in DOMAIN RateLimits |-> 0], windowStartedAt |-> 0,
              concurrency |-> 0, resources |-> 0, issued |-> 0,
              admissions |-> << >>, charges |-> [k \in Keys |-> NoCharge]]
  /\ commandExecutions = [k \in Keys |-> NeverRan]
  /\ audit = {}
  /\ directory = [membership |-> [status |-> "active", version |-> 1],
                  resource |-> [status |-> "active", version |-> 1],
                  accessGrant |-> [status |-> "active", version |-> 1]]
  /\ paused = [is |-> FALSE, ran |-> {}, open |-> {}]

-----------------------------------------------------------------------------
\* The quota store: what one statement does to the tenant's quota q.

\* A replay reserves no command-scoped resources.
reserved(a) == IF a.replayed THEN 0 ELSE policyOf(a.request).resourceDelta

releaseAdmissionCapacities(q, id, outcome) ==
  [q EXCEPT !.concurrency = @ - 1,
            !.resources = IF outcome = "succeeded" THEN @
                          ELSE @ - reserved(q.admissions[id])]

SettledAsSucceeded(q, id, status) ==
  [q EXCEPT !.charges[q.admissions[id].request.key].status =
              IF @ = "pending" THEN "succeeded" ELSE @]

\* Only the admission that holds a pending charge settles it.
settleCharge(q, id, status) ==
  LET a == q.admissions[id]
      k == a.request.key
  IN  IF isCommand(a.request) /\ ~a.replayed
         /\ q.charges[k].admission = id /\ q.charges[k].status = "pending"
      THEN [q EXCEPT !.charges[k].status = status,
                     !.charges[k].expiresAt = now + COMMAND_RETENTION]
      ELSE q

completeLockedAdmission(q, id, outcome, retainPersistentResources) ==
  LET freed == releaseAdmissionCapacities(
                 q, id, IF retainPersistentResources THEN outcome ELSE "failed")
      closed == [freed EXCEPT
                   !.admissions[id].state =
                      IF outcome = "expired" THEN "expired" ELSE "completed",
                   !.admissions[id].completedAt = now]
  IN  settleCharge(closed, id,
                   IF outcome = "succeeded" THEN "succeeded" ELSE "failed")

expiredAdmissions(q) ==
  {i \in DOMAIN q.admissions : /\ q.admissions[i].state = "pending"
                               /\ q.admissions[i].expiresAt <= now}

cleanupExpired(q, excluded) ==
  FoldSet(LAMBDA i, s : completeLockedAdmission(s, i, "expired", FALSE),
          q, expiredAdmissions(q) \ excluded)

\* Old charges, and old admissions that no charge and no execution refers to.
forget(q) ==
  LET stale(c) == c.status # "pending" /\ c.expiresAt <= now
      charges == [k \in Keys |-> IF stale(q.charges[k]) THEN NoCharge
                                 ELSE q.charges[k]]
      kept == {i \in DOMAIN q.admissions :
                 \/ q.admissions[i].state = "pending"
                 \/ q.admissions[i].completedAt > now - COMMAND_RETENTION
                 \/ \E k \in Keys : i \in {charges[k].admission,
                                           commandExecutions[k].admission}}
  IN  [q EXCEPT !.charges = charges, !.admissions = Restrict(@, kept)]

\* The window of the fixed-window rate buckets that is current.
windowNow == (now \div WINDOW) * WINDOW

currentRates(q) ==
  IF q.windowStartedAt = windowNow THEN q
  ELSE [q EXCEPT !.windowStartedAt = windowNow,
                 !.rate = [d \in DOMAIN RateLimits |-> 0]]

\* The dimensions are charged in turn: those before the refusing one stay
\* charged.
chargeable(q) ==
  {i \in DOMAIN Dimensions :
     \A j \in 1..i : q.rate[Dimensions[j]] < RateLimits[Dimensions[j]]}

chargeRates(q) ==
  [q EXCEPT !.rate = [d \in DOMAIN RateLimits |->
     @[d] + Cardinality({i \in chargeable(q) : Dimensions[i] = d})]]

replayedCharge(q, r) ==
  /\ isCommand(r)
  /\ q.charges[r.key].status = "succeeded" /\ q.charges[r.key].expiresAt > now

pendingCharge(q, r) ==
  /\ isCommand(r)
  /\ q.charges[r.key].status = "pending" /\ q.charges[r.key].expiresAt > now

\* Resources the tenant's committed commands created.
loadResourceBaselines ==
  FoldSet(LAMBDA k, n : n + commandExecutions[k].delta, 0, Keys)

capacityFor(q, units) ==
  /\ q.concurrency + 1 <= CONCURRENCY
  /\ units > 0 => Max({q.resources, loadResourceBaselines}) + units <= RESOURCES

issueAdmission(q, r, replayed) ==
  LET id == q.issued + 1
      a == [request |-> r, replayed |-> replayed, state |-> "pending",
            expiresAt |-> now + LEASE, completedAt |-> 0]
      units == reserved(a)
      open == [q EXCEPT
                 !.issued = id,
                 !.admissions = [i \in DOMAIN @ \cup {id} |->
                                   IF i = id THEN a ELSE @[i]],
                 !.concurrency = @ + 1,
                 !.resources = IF units = 0 THEN @
                               ELSE Max({@, loadResourceBaselines}) + units]
  IN  IF isCommand(r) /\ ~replayed
      THEN [open EXCEPT !.charges[r.key] =
              [status |-> "pending", admission |-> id,
               expiresAt |-> now + COMMAND_RETENTION]]
      ELSE open

-----------------------------------------------------------------------------
\* Locks held by the transactions that are open.

inTransaction(w) ==
  call[w].op = "gateway" /\ call[w].step \in {"locked", "checked", "authorized"}

rowLocked(i) == \E w \in Workers : inTransaction(w) /\ call[w].admission = i

\* findCommandInTransaction(lock: true): one transaction per command key.
keyLocked(k, w) ==
  \E v \in Workers \ {w} : /\ inTransaction(v) /\ call[v].step # "locked"
                           /\ isCommand(call[v].request)
                           /\ call[v].request.key = k

\* requireActiveMembership and resolveResource hold advisory locks.
directoryLocked(w) == \E v \in Workers \ {w} :
                        call[v].op = "gateway" /\ call[v].step = "authorized"

\* A serializable transaction that would clean up a locked row waits for it.
mayCleanUp(excluded) ==
  \A i \in expiredAdmissions(quota) \ excluded : ~rowLocked(i)

-----------------------------------------------------------------------------
\* Admission.

\* Refused requests have been charged to the rates they passed.
admitTenant(w) ==
  /\ call[w] = Idle /\ mayCleanUp({}) /\ quota.issued < MaxAdmissions
  /\ \E r \in Requests :
       LET q == currentRates(forget(cleanupExpired(quota, {})))
           charged == chargeRates(q)
           replayed == replayedCharge(q, r)
           units == IF replayed THEN 0 ELSE policyOf(r).resourceDelta
           admitted == /\ chargeable(q) = DOMAIN Dimensions
                       /\ ~pendingCharge(q, r)
                       /\ capacityFor(charged, units)
       IN  IF admitted
           THEN /\ quota' = issueAdmission(charged, r, replayed)
                /\ hold(w, [op |-> "gateway", step |-> "admitted", request |-> r,
                            admission |-> q.issued + 1, replay |-> replayed])
           ELSE quota' = charged /\ UNCHANGED callVars
  /\ UNCHANGED <<commandExecutions, audit, directory, paused>>

-----------------------------------------------------------------------------
\* The transaction.

at(w, step) == call[w].op = "gateway" /\ call[w].step = step

goto(w, step) == hold(w, [call[w] EXCEPT !.step = step])

lockAdmissionForTransaction(w) ==
  /\ at(w, "admitted") /\ ~rowLocked(call[w].admission)
  /\ LET i == call[w].admission
     IN  IF /\ i \in DOMAIN quota.admissions
            /\ quota.admissions[i].state = "pending"
            /\ quota.admissions[i].expiresAt > now
         THEN goto(w, "locked")
         ELSE ends(w)           \* consumed or expired: nothing left to complete
  /\ UNCHANGED gatewayVars

\* The transaction commits with quota q and the reply may be lost.
commits(w, q) ==
  /\ quota' = q
  /\ \/ ends(w)                 \* confirmAdmissionTransactionCommit
     \/ goto(w, "unsettled")

assertReplay(r) == commandExecutions[r.key].payload = r.payload

\* The command ran before: its response is returned if it is the same request.
replayCommand(w) ==
  LET r == call[w].request
  IN  /\ at(w, "locked") /\ isCommand(r) /\ ~keyLocked(r.key, w)
      /\ commandExecutions[r.key].times > 0
      /\ IF assertReplay(r)
         THEN commits(w, completeLockedAdmission(quota, call[w].admission,
                                                 "succeeded", FALSE))
         ELSE goto(w, "unsettled") /\ UNCHANGED quota
      /\ UNCHANGED <<commandExecutions, audit, directory, paused>>

\* A new command: not a lost replay, and the tenant is not paused.
assertTenantCommandsNotPaused(w) ==
  LET r == call[w].request
  IN  /\ at(w, "locked")
      /\ isCommand(r) => /\ ~keyLocked(r.key, w)
                         /\ commandExecutions[r.key].times = 0
      /\ IF isCommand(r) /\ (call[w].replay \/ paused.is)
         THEN goto(w, "unsettled") ELSE goto(w, "checked")
      /\ UNCHANGED gatewayVars

\* The access the policy asks for, in the directory as it is.
resolveResourceAccess(policy) ==
  CASE policy.ownershipRule = "none" -> TRUE
    [] policy.ownershipRule = "tenant" -> policy.ownTenant
    [] OTHER -> policy.ownTenant \/ directory.accessGrant.status = "active"

verifyApproval(policy, r) ==
  CASE policy.approvalRequirement = "prohibited" -> FALSE
    [] policy.approvalRequirement = "dual_control" -> r.approvalArtifact
    [] OTHER -> ~r.approvalArtifact

\* authorize and revalidate: the locks keep the facts until the commit.
authorized(r) == /\ directory.membership.status = "active"
                 /\ resolveResourceAccess(policyOf(r))
                 /\ verifyApproval(policyOf(r), r)

decisionFor(w, decision) ==
  [admission |-> call[w].admission, decision |-> decision]

\* A denial is recorded and the admission completed; both commit.
authorize(w) ==
  /\ at(w, "checked") /\ ~directoryLocked(w)
  /\ IF authorized(call[w].request)
     THEN goto(w, "authorized") /\ UNCHANGED <<audit, quota>>
     ELSE /\ audit' = audit \cup {decisionFor(w, "deny")}
          /\ commits(w, completeLockedAdmission(quota, call[w].admission,
                                                "failed", FALSE))
  /\ UNCHANGED <<commandExecutions, directory, paused>>

\* GREATEST of the bucket and what the durable rows say is needed.
synchronizePersistentResources(q, units) ==
  [q EXCEPT !.resources = IF units = 0 THEN @
                          ELSE Max({@, loadResourceBaselines + units})]

recordExecution(w, r) ==
  [commandExecutions EXCEPT ![r.key] =
     [payload |-> r.payload, admission |-> call[w].admission,
      times |-> @.times + 1, delta |-> policyOf(r).resourceDelta]]

RESOURCE_TRANSITIONS ==
  {<<"active", "frozen">>, <<"active", "closed">>,
   <<"frozen", "active">>, <<"frozen", "closed">>}

transitionResource(policy) ==
  IF policy.nextStatus = "none" THEN directory
  ELSE [directory EXCEPT !.resource = [status |-> policy.nextStatus,
                                       version |-> @.version + 1]]

mayTransition(policy) ==
  \/ policy.nextStatus = "none"
  \/ <<directory.resource.status, policy.nextStatus>> \in RESOURCE_TRANSITIONS

\* Plan, commit, transition the resource, record the execution, complete the
\* admission: one commit.
executeCommand(w) ==
  LET r == call[w].request
      q == synchronizePersistentResources(quota, policyOf(r).resourceDelta)
  IN  /\ at(w, "authorized") /\ isCommand(r)
      /\ q.resources <= RESOURCES /\ mayTransition(policyOf(r))
      /\ commandExecutions' = recordExecution(w, r)
      /\ directory' = transitionResource(policyOf(r))
      /\ audit' = audit \cup {decisionFor(w, "allow")}
      /\ commits(w, completeLockedAdmission(q, call[w].admission,
                                            "succeeded", TRUE))
      /\ UNCHANGED paused

executeQuery(w) ==
  /\ at(w, "authorized") /\ ~isCommand(call[w].request)
  /\ audit' = audit \cup {decisionFor(w, "allow")}
  /\ commits(w, completeLockedAdmission(quota, call[w].admission,
                                        "succeeded", FALSE))
  /\ UNCHANGED <<commandExecutions, directory, paused>>

\* A plan is refused, a statement fails or a version is stale: roll back.
rollback(w) ==
  inTransaction(w) /\ goto(w, "unsettled") /\ UNCHANGED gatewayVars

DoubleRelease(q, id) ==
  IF id \notin DOMAIN q.admissions THEN q
  ELSE completeLockedAdmission(q, id, "failed", FALSE)

\* PostgresQuotaStore.finish: an admission that is not pending is left alone.
finish(q, id) ==
  IF id \notin DOMAIN q.admissions \/ q.admissions[id].state # "pending" THEN q
  ELSE completeLockedAdmission(q, id, IF q.admissions[id].expiresAt <= now
                                      THEN "expired" ELSE "failed", FALSE)

\* After a rollback, or a commit whose reply was lost: an admission that has
\* expired by then is left to the next clean-up.
failAdmissionAfterTransactionRollback(w) ==
  LET i == call[w].admission
  IN  /\ at(w, "unsettled") /\ ~rowLocked(i) /\ mayCleanUp({i})
      /\ IF i \in DOMAIN quota.admissions /\ quota.admissions[i].expiresAt <= now
         THEN UNCHANGED quota
         ELSE quota' = finish(cleanupExpired(quota, {i}), i)
      /\ ends(w)
      /\ UNCHANGED <<commandExecutions, audit, directory, paused>>

gatewayDies(w) == call[w] # Idle /\ ends(w) /\ UNCHANGED gatewayVars

-----------------------------------------------------------------------------
\* Beside the requests.

changes == (directory.membership.version - 1)
             + (directory.accessGrant.version - 1) + (IF paused.is THEN 1 ELSE 0)

pause ==
  /\ ~paused.is /\ changes < MaxChanges
  /\ paused' = [is   |-> TRUE,
                ran  |-> {k \in Keys : commandExecutions[k].times > 0},
                open |-> {call[w].admission : w \in
                  {v \in Workers : inTransaction(v) /\ call[v].step # "locked"}}]
  /\ UNCHANGED <<callVars, quota, commandExecutions, audit, directory>>

setMembershipStatus ==
  /\ changes < MaxChanges
  /\ \A w \in Workers : ~at(w, "authorized")
  /\ directory' = [directory EXCEPT !.membership =
                     [status |-> "suspended", version |-> @.version + 1]]
  /\ UNCHANGED <<callVars, quota, commandExecutions, audit, paused>>

\* registerAccessGrant and revokeAccessGrant.
setAccessGrant ==
  /\ changes < MaxChanges
  /\ \A w \in Workers : ~at(w, "authorized")
  /\ directory' = [directory EXCEPT !.accessGrant =
       [status |-> IF @.status = "active" THEN "revoked" ELSE "active",
        version |-> @.version + 1]]
  /\ UNCHANGED <<callVars, quota, commandExecutions, audit, paused>>

-----------------------------------------------------------------------------
GatewayNext ==
  \/ \E w \in Workers :
       \/ admitTenant(w) \/ lockAdmissionForTransaction(w) \/ replayCommand(w)
       \/ assertTenantCommandsNotPaused(w) \/ authorize(w)
       \/ executeCommand(w) \/ executeQuery(w) \/ rollback(w)
       \/ failAdmissionAfterTransactionRollback(w) \/ gatewayDies(w)
  \/ pause \/ setMembershipStatus \/ setAccessGrant
  \/ Tick /\ UNCHANGED gatewayVars

(***************************************************************************)
(* Whatever interleaving of completions, lost replies, lease expiries and  *)
(* deaths: the concurrency bucket counts exactly the pending admissions,   *)
(* and the resource bucket exactly the resources of committed commands and *)
(* of pending admissions, so that no unit leaks and none is given twice.   *)
(***************************************************************************)
CapacityAccounted ==
  LET pending == {i \in DOMAIN quota.admissions :
                    quota.admissions[i].state = "pending"}
  IN  /\ quota.concurrency = Cardinality(pending)
      /\ quota.resources = loadResourceBaselines
           + FoldSet(LAMBDA i, n : n + reserved(quota.admissions[i]), 0, pending)
      /\ quota.concurrency <= CONCURRENCY /\ quota.resources <= RESOURCES

(***************************************************************************)
(* A command key runs at most once, although admissions expire, charges    *)
(* are forgotten and keys are reused with another payload; its charge      *)
(* succeeds only if it ran; it ran with a recorded permission; and once a  *)
(* pause is committed, a command runs only in a transaction that had       *)
(* passed assertTenantCommandsNotPaused by then.                           *)
(***************************************************************************)
CommandsRunOnce ==
  \A k \in Keys :
    /\ commandExecutions[k].times <= 1
    /\ quota.charges[k].status = "succeeded" => commandExecutions[k].times = 1
    /\ commandExecutions[k].times = 1 =>
         /\ [admission |-> commandExecutions[k].admission, decision |-> "allow"] \in audit
         /\ paused.is => k \in paused.ran \/ commandExecutions[k].admission \in paused.open
=============================================================================
