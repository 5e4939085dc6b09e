---------------------------- MODULE VenueAdapter ----------------------------
(***************************************************************************)
(* The HyperCore venue adapter.  A facility's account binding gets         *)
(* delegates: API wallets, whose address may serve one delegate ever.  A   *)
(* delegate registered at the venue is handed to the submission service,   *)
(* which prepares attempts with nonces of that signer, has a founder       *)
(* approve one, claims it, calls the exchange once and records what came   *)
(* back.  The call may be lost, its answer may be lost, and the process    *)
(* may die between any two steps.  Last, the authorization an agent gets to *)
(* use its secured facility, and the one opening composed under it.        *)
(***************************************************************************)
EXTENDS Calls, FiniteSets, FiniteSetsExt, Sequences

CONSTANTS Addresses,            \* API wallet addresses
          DelegateLifetime,     \* MAX_DELEGATE_LIFETIME_MS, and the one asked for
          PROOF_WINDOW, REQUEST_EXPIRY, MAX_SUBMISSIONS,
          EconomicActions,      \* what an attempt would do at the venue
          actionKind,           \* actionKind[e]
          MaxDelegates,         \* bound: delegates prepared
          MaxSigners,           \* bound: delegates prepared for submissions
          MaxAttempts,          \* bound: attempts prepared
          SubmissionTicks,      \* bound: ticks in a behaviour of submissions
          MaxIntents,           \* bound: stable intents prepared
          MaxResourceVersion    \* bound: changes of a resource

VARIABLES
  bindingRecorded,      \* the facility's account binding is on record
  delegates,            \* the delegates, in the order of their preparation
  tombstones,           \* addresses of terminated delegates
  addressOwners,        \* the in-memory repository's index of its delegates
  handoffs,             \* handoffs[d]: the signer handoff of delegate d
  nonceHeads,           \* nonceHeads[d]: last nonce given under that handoff
  attempts,             \* the submission attempts
  approvals,            \* approvals[i]: the founder's approval of attempt i
  exchange,             \* the venue: open orders, position, what it executed
  resources,            \* resources[r]: what a facility authorization rests on
  facilityGrant,        \* the facility's authorization record
  stableIntents,        \* stable intents of the facility: orders and cancels
  compositions,         \* the openings composed and stored
  closeReceipts,        \* protective closes, each of one composition
  incidents             \* recovery incidents, each of one composition

delegateVars == <<bindingRecorded, delegates, tombstones, addressOwners>>

submissionVars == <<handoffs, nonceHeads, attempts, approvals, exchange>>

compositionVars ==
  <<resources, facilityGrant, stableIntents, compositions, closeReceipts, incidents>>

venueAdapterVars == <<delegateVars, submissionVars, compositionVars>>

TERMINAL_STATUSES == {"REVOKED", "EXPIRED", "COMPROMISED", "RETIRED"}

\* Nothing there: no time yet, no handoff, no approval.
NotYet == -1

NoHandoff == [status |-> "none"]

\* The records an authorization rests on play the same part; one stands for
\* the mandate, account, obligation, pool binding, pool projection and facility.
Resources == {"facilityState"}

VenueAdapterInit ==
  /\ bindingRecorded = FALSE
  /\ delegates = <<>> /\ tombstones = {} /\ addressOwners = {}
  /\ handoffs = [d \in 1..MaxDelegates |-> NoHandoff]
  /\ nonceHeads = [d \in 1..MaxDelegates |-> 0]
  /\ attempts = <<>> /\ approvals = <<>>
  /\ exchange = [open |-> 0, position |-> 0, executed |-> <<>>]
  /\ resources = [r \in Resources |-> [version |-> 1, available |-> TRUE]]
  /\ facilityGrant = [status |-> "none"]
  /\ stableIntents = <<>> /\ compositions = <<>>
  /\ closeReceipts = {} /\ incidents = <<>>

-----------------------------------------------------------------------------
(* Account binding and delegates                                           *)

\* The address the venue knows the account by; a signer is never the account.
accountAddress == "account"

\* The account the facility trades from; queries about it never name a signer.
createHypercoreAccountBinding == [account |-> accountAddress, query |-> accountAddress]

verifyHypercoreAccountBinding(b) == b.account = accountAddress /\ b.query = b.account

recordBinding ==
  /\ verifyHypercoreAccountBinding(createHypercoreAccountBinding)
  /\ ~bindingRecorded /\ bindingRecorded' = TRUE
  /\ UNCHANGED <<delegates, tombstones, addressOwners>>

\* A delegate as prepared; with its version it stands for the delegate hash.
preparedDelegateFromHashes(a) ==
  [address |-> a, status |-> "PREPARED", prepared |-> now, activated |-> NotYet,
   terminal |-> NotYet, expires |-> now + DelegateLifetime, version |-> 1]

acceptableSigner(a) == a # accountAddress /\ now < now + DelegateLifetime

\* What a stored delegate's status says of its times.
verifyHypercoreDelegate(d) ==
  /\ d.expires > d.prepared /\ d.expires - d.prepared <= DelegateLifetime
  /\ d.address # accountAddress
  /\ d.status = "PREPARED" => d.activated = NotYet
  /\ d.status = "SIMULATED_ACTIVE" => d.activated # NotYet
  /\ d.activated # NotYet => d.prepared <= d.activated /\ d.activated < d.expires
  /\ d.terminal # NotYet => d.prepared <= d.terminal /\ d.activated <= d.terminal
  /\ (d.status \in TERMINAL_STATUSES) = (d.terminal # NotYet)

assertAddressUnused(a) ==
  /\ \A d \in DOMAIN delegates : delegates[d].address # a
  /\ a \notin tombstones

mayTransition(d, status) ==
  /\ verifyHypercoreDelegate(d)
  /\ d.status \notin TERMINAL_STATUSES
  /\ status = "SIMULATED_ACTIVE" => d.status = "PREPARED" /\ now < d.expires
  /\ status \in TERMINAL_STATUSES \cup {"SIMULATED_ACTIVE"}

transitionHypercoreDelegate(d, status) ==
  [d EXCEPT !.status = status, !.version = @ + 1,
            !.activated = IF status = "SIMULATED_ACTIVE" THEN now ELSE @,
            !.terminal = IF status \in TERMINAL_STATUSES THEN now ELSE NotYet]

\* What stays of a terminated delegate: its address, and that it is spent.
createHypercoreDelegateTombstone(d) == d.address

verifyHypercoreDelegateTombstone(t, d) ==
  t = d.address /\ d.status \in TERMINAL_STATUSES /\ d.terminal # NotYet

\* Prepared by the repository or by the gateway's operation; the advisory lock
\* on the address makes the check and the insertion one step.
prepareDelegate(a) ==
  /\ bindingRecorded /\ Len(delegates) < MaxSigners
  /\ acceptableSigner(a) /\ assertAddressUnused(a)
  /\ delegates' = Append(delegates, preparedDelegateFromHashes(a))
  /\ UNCHANGED <<bindingRecorded, tombstones, addressOwners>>

\* The caller names the delegate by the hash it has read; the tombstone is
\* written with the terminal status.
terminate(d, expected, status) ==
  /\ status \in TERMINAL_STATUSES
  /\ delegates[d].version = expected /\ mayTransition(delegates[d], status)
  /\ delegates' = [delegates EXCEPT ![d] = transitionHypercoreDelegate(@, status)]
  /\ tombstones' = tombstones \cup {createHypercoreDelegateTombstone(delegates[d])}
  /\ UNCHANGED <<bindingRecorded, addressOwners>>

\* The in-memory repository serves one operation at a time from its own index.
unusedInMemory(a) == a \notin addressOwners \cup tombstones

prepareInMemory(a) ==
  /\ Len(delegates) < MaxDelegates /\ acceptableSigner(a) /\ unusedInMemory(a)
  /\ delegates' = Append(delegates, preparedDelegateFromHashes(a))
  /\ addressOwners' = addressOwners \cup {a}
  /\ UNCHANGED <<bindingRecorded, tombstones>>

simulateActivation(d, expected) ==
  /\ delegates[d].version = expected
  /\ mayTransition(delegates[d], "SIMULATED_ACTIVE")
  /\ delegates' = [delegates EXCEPT ![d] =
                     transitionHypercoreDelegate(@, "SIMULATED_ACTIVE")]
  /\ UNCHANGED <<bindingRecorded, tombstones, addressOwners>>

\* The delegate is retired and its replacement prepared, or neither is.
rotate(d, expected, a) ==
  /\ delegates[d].version = expected /\ Len(delegates) < MaxDelegates
  /\ mayTransition(delegates[d], "RETIRED")
  /\ acceptableSigner(a) /\ a # delegates[d].address /\ unusedInMemory(a)
  /\ delegates' = Append([delegates EXCEPT ![d] =
                            transitionHypercoreDelegate(@, "RETIRED")],
                         preparedDelegateFromHashes(a))
  /\ tombstones' = tombstones \cup {createHypercoreDelegateTombstone(delegates[d])}
  /\ addressOwners' = addressOwners \cup {a}
  /\ UNCHANGED bindingRecorded

\* A repository built from an exported snapshot: every record is verified, and
\* the index is made anew from the records.
restore ==
  /\ \A d \in DOMAIN delegates : verifyHypercoreDelegate(delegates[d])
  /\ \A t \in tombstones : \E d \in DOMAIN delegates :
       verifyHypercoreDelegateTombstone(t, delegates[d])
  /\ addressOwners' = {delegates[d].address : d \in DOMAIN delegates}
  /\ UNCHANGED <<bindingRecorded, delegates, tombstones>>

DelegateMemoryNext ==
  /\ \/ /\ \/ \E a \in Addresses : prepareInMemory(a)
           \/ \E d \in DOMAIN delegates, expected \in 1..3 :
                \/ simulateActivation(d, expected)
                \/ \E status \in TERMINAL_STATUSES : terminate(d, expected, status)
                \/ \E a \in Addresses : rotate(d, expected, a)
           \/ restore
        /\ UNCHANGED callVars
     \/ Tick /\ UNCHANGED delegateVars
  /\ UNCHANGED <<submissionVars, compositionVars>>

-----------------------------------------------------------------------------
(* Signer handoffs and attempts                                            *)

\* The delegate is registered at the venue; the handoff names its hash.
recordSignerHandoff(d) ==
  /\ verifyHypercoreDelegate(delegates[d]) /\ delegates[d].status = "PREPARED"
  /\ now < delegates[d].expires /\ handoffs[d] = NoHandoff
  /\ handoffs' = [handoffs EXCEPT ![d] =
       [status |-> "VERIFIED", delegate |-> delegates[d].version,
        expires |-> delegates[d].expires, version |-> 1]]
  /\ UNCHANGED <<nonceHeads, attempts, approvals, exchange>>

verifyHypercoreTestnetSignerHandoff(h) ==
  h.version = IF h.status = "VERIFIED" THEN 1 ELSE 2

createHypercoreTestnetSubmissionAttempt(d, e, nonce) ==
  [handoff |-> d, action |-> e, nonce |-> nonce, state |-> "PREPARED", version |-> 1,
   expires |-> Min({now + PROOF_WINDOW, handoffs[d].expires}), disposition |-> "none"]

\* A retry under the same key is answered with its attempt, one under another
\* key is refused: the table holds one attempt for an action.  Otherwise
\* handoff, delegate and binding are locked and the signer's next nonce is the
\* time, or one more than the last.
prepareAttempt(d, e) ==
  LET nonce == Max({nonceHeads[d] + 1, now})
      h == handoffs[d]
  IN
  /\ Len(attempts) < MaxAttempts
  /\ \A i \in DOMAIN attempts : attempts[i].action # e
  /\ bindingRecorded /\ h # NoHandoff
  /\ verifyHypercoreTestnetSignerHandoff(h) /\ verifyHypercoreDelegate(delegates[d])
  /\ h.status = "VERIFIED" /\ delegates[d].version = h.delegate /\ now < h.expires
  /\ nonceHeads' = [nonceHeads EXCEPT ![d] = nonce]
  /\ attempts' = Append(attempts,
                        createHypercoreTestnetSubmissionAttempt(d, e, nonce))
  /\ approvals' = Append(approvals, [status |-> "none"])
  /\ UNCHANGED <<handoffs, exchange>>

\* Version and disposition of an attempt follow from its state.
lifecycleOf(a) ==
  [PREPARED |-> 1, APPROVED |-> 2, SUBMITTING |-> 3, SUBMITTED |-> 4, REJECTED |-> 4,
   UNKNOWN |-> 4, RECONCILED |-> 5, CLOSED |-> 6][a.state]

verifyHypercoreTestnetSubmissionAttempt(a) ==
  /\ a.version = lifecycleOf(a)
  /\ (a.disposition # "none") = (a.version >= 4)
  /\ a.version = 4 => a.disposition = [SUBMITTED |-> "confirmed", REJECTED |-> "rejected",
                                       UNKNOWN |-> "unknown"][a.state]

\* The attempt is past its claim.
claimed(a) == a.version >= 3

\* Every transition is written under the state and version it was read at.
persistAttemptTransition(i, next) ==
  attempts' = [attempts EXCEPT ![i] = [next EXCEPT !.version = @ + 1]]

verifyHypercoreTestnetFounderApproval(p) ==
  p.version = IF p.status = "APPROVED" THEN 1 ELSE 2

createHypercoreTestnetFounderApproval(i) ==
  [status |-> "APPROVED", expires |-> attempts[i].expires, version |-> 1]

approve(i) ==
  /\ verifyHypercoreTestnetSubmissionAttempt(attempts[i])
  /\ attempts[i].state = "PREPARED" /\ attempts[i].expires > now
  /\ approvals' = [approvals EXCEPT ![i] = createHypercoreTestnetFounderApproval(i)]
  /\ persistAttemptTransition(i, [attempts[i] EXCEPT !.state = "APPROVED"])
  /\ UNCHANGED <<handoffs, nonceHeads, exchange>>

-----------------------------------------------------------------------------
(* Submission                                                              *)

\* The orders a plan of an action leaves at the venue when it is executed.
executedAction(kind, outcome) ==
  CASE kind = "order" -> [exchange EXCEPT !.open = IF outcome = "filled" THEN @ ELSE @ + 1,
                                          !.position = IF outcome = "filled" THEN @ + 1 ELSE @]
    [] kind \in {"cancel", "cancelByCloid"} -> [exchange EXCEPT !.open = 0]
    [] OTHER -> exchange

ALLOWED_ACTIONS ==
  {"order", "reduceOnlyOrder", "cancel", "cancelByCloid", "modify", "scheduleCancel"}

\* The class of an action fixes whether its order may only reduce.
compileHypercoreExecutionAction(e) ==
  [kind |-> actionKind[e], reduceOnly |-> actionKind[e] = "reduceOnlyOrder"]

verifyHypercorePreparedAction(a) == a.kind \in ALLOWED_ACTIONS

\* The limits of a proof; a submission outside them is never authorized.
createHypercoreTestnetProofPolicy ==
  [maxOpenOrders |-> 1, maxSubmissions |-> MAX_SUBMISSIONS,
   requestExpiry |-> REQUEST_EXPIRY, until |-> PROOF_WINDOW]

verifyHypercoreTestnetProofPolicy(policy) ==
  policy.maxOpenOrders = 1 /\ policy.maxSubmissions = MAX_SUBMISSIONS

\* What is known of the account when a submission is considered: the snapshot
\* must be fresh, reconciled and of an account that is not paused.
riskSnapshot ==
  [open |-> exchange.open, position |-> exchange.position,
   unknown |-> Cardinality({i \in DOMAIN attempts : attempts[i].state = "UNKNOWN"}),
   submissions |-> Cardinality({i \in DOMAIN attempts : claimed(attempts[i])})]

assertActionPolicy(kind, risk) ==
  CASE kind = "order" -> risk.open = 0
    [] kind = "modify" -> risk.open = 1
    [] kind = "reduceOnlyOrder" -> risk.position # 0
    [] OTHER -> kind \in {"cancel", "cancelByCloid", "scheduleCancel"}

\* The founder's confirmation, the risk snapshot and the policy must be current.
authorityCurrent(i, risk) ==
  LET policy == createHypercoreTestnetProofPolicy IN
  /\ verifyHypercoreTestnetProofPolicy(policy)
  /\ verifyHypercorePreparedAction(compileHypercoreExecutionAction(attempts[i].action))
  /\ now < approvals[i].expires
  /\ risk.submissions <= policy.maxSubmissions /\ risk.open <= policy.maxOpenOrders

authorizeHypercoreTestnetAction(i, risk) ==
  /\ risk.unknown = 0 /\ risk.submissions < MAX_SUBMISSIONS
  /\ approvals[i].status = "APPROVED"
  /\ assertActionPolicy(actionKind[attempts[i].action], risk)

effectiveUntil(i) == Min({now + REQUEST_EXPIRY, approvals[i].expires})

\* What the isolated signer is asked to sign: an action of a class it may sign,
\* the attempt's nonce and when the exchange is to refuse it.
createHypercoreL1SigningRequest(i) ==
  [action |-> attempts[i].action, nonce |-> attempts[i].nonce,
   signer |-> delegates[attempts[i].handoff].address, until |-> effectiveUntil(i)]

verifyHypercoreOfficialSigningRequest(r) ==
  /\ compileHypercoreExecutionAction(r.action).kind \in ALLOWED_ACTIONS
  /\ r.signer # accountAddress

\* The signature is refused unless it recovers to the approved signer.
sign(r) == [request |-> r, recovered |-> r.signer]

createHypercoreTestnetExchangeEnvelope(i, signed) ==
  [attempt |-> i, nonce |-> signed.request.nonce, signer |-> signed.recovered,
   until |-> signed.request.until]

verifyHypercoreTestnetExchangeEnvelope(v) ==
  v.nonce = attempts[v.attempt].nonce
  /\ v.signer = delegates[attempts[v.attempt].handoff].address

\* The action is authorized on a snapshot just taken, signed for the attempt's
\* nonce and wrapped in an envelope that the exchange refuses once out of date.
submitExact(w, i) ==
  /\ call[w] = Idle /\ attempts[i].state = "APPROVED"
  /\ authorityCurrent(i, riskSnapshot) /\ authorizeHypercoreTestnetAction(i, riskSnapshot)
  /\ LET request == createHypercoreL1SigningRequest(i)
         envelope == createHypercoreTestnetExchangeEnvelope(i, sign(request))
     IN
     /\ verifyHypercoreOfficialSigningRequest(request) /\ now < request.until
     /\ verifyHypercoreTestnetExchangeEnvelope(envelope)
     /\ hold(w, [op |-> "submit", step |-> "claim", attempt |-> i,
                 envelope |-> envelope, until |-> envelope.until,
                 disposition |-> "none"])
  /\ UNCHANGED submissionVars

\* The approval is looked at, but not that the attempt is still unclaimed.
claimableAgain(i, until) ==
  /\ attempts[i].state \in {"APPROVED", "SUBMITTING"}
  /\ now < Min({approvals[i].expires, attempts[i].expires, until})

claimable(i, until) ==
  /\ verifyHypercoreTestnetSubmissionAttempt(attempts[i])
  /\ attempts[i].state = "APPROVED" /\ approvals[i].status = "APPROVED"
  /\ verifyHypercoreTestnetFounderApproval(approvals[i])
  /\ now < Min({approvals[i].expires, attempts[i].expires, until})

\* One transaction: attempt, approval and handoff are locked, the approval is
\* consumed and the attempt is in flight before the exchange is called.
claim(w) ==
  LET i == call[w].attempt
      h == handoffs[attempts[i].handoff]
  IN
  /\ call[w].op = "submit" /\ call[w].step = "claim"
  /\ IF h.status = "VERIFIED" /\ now < h.expires /\ claimable(i, call[w].until)
     THEN /\ approvals' = [approvals EXCEPT ![i].status = "CONSUMED", ![i].version = 2]
          /\ persistAttemptTransition(i, [attempts[i] EXCEPT !.state = "SUBMITTING"])
          /\ hold(w, [call[w] EXCEPT !.step = "transport"])
     ELSE ends(w) /\ UNCHANGED <<approvals, attempts>>
  /\ UNCHANGED <<handoffs, nonceHeads, exchange>>

\* What the exchange answers to an action, as the transport reads it.
normalizeExchangeDisposition(kind, answer) ==
  CASE answer = "err" -> "rejected"
    [] answer = "error" -> IF kind = "scheduleCancel" THEN "unknown" ELSE "rejected"
    [] answer = "default" -> IF kind = "scheduleCancel" THEN "confirmed" ELSE "unknown"
    [] answer \in {"resting", "filled"} ->
         IF kind \in {"order", "reduceOnlyOrder", "modify"} THEN "confirmed" ELSE "unknown"
    [] answer = "success" ->
         IF kind \in {"cancel", "cancelByCloid"} THEN "confirmed"
         ELSE IF kind = "scheduleCancel" THEN "unknown" ELSE "rejected"
    [] OTHER -> "unknown"

\* The answers of the exchange to an action it executes, and to one it refuses.
executedAnswers(kind) ==
  CASE kind \in {"order", "modify", "reduceOnlyOrder"} -> {"resting", "filled"}
    [] kind \in {"cancel", "cancelByCloid"} -> {"success"}
    [] OTHER -> {"default"}

dispositionOf(kind, answer, arrives) ==
  IF arrives THEN normalizeExchangeDisposition(kind, answer) ELSE "unknown"

\* Only a refusal settles that nothing needs to be reconciled.
exchangeResult(disposition) ==
  [disposition |-> disposition, reconciliationRequired |-> disposition # "rejected"]

verifyHypercoreTestnetExchangeResult(r) ==
  /\ r.disposition \in {"confirmed", "rejected", "unknown"}
  /\ r.reconciliationRequired = (r.disposition # "rejected")

\* The process calls the exchange.  It also refuses an authorization it has sent
\* before, but that memory dies with it.  The exchange may execute the action,
\* refuse it or never see it, and the answer may be lost (a timeout, a server
\* error, a body too long or unreadable).
transport(w) ==
  LET i == call[w].attempt
      kind == actionKind[attempts[i].action]
      answered(answer, executes, arrives) ==
        /\ exchange' = IF executes
                       THEN [executedAction(kind, answer) EXCEPT !.executed = Append(@, i)]
                       ELSE exchange
        /\ hold(w, [call[w] EXCEPT !.step = "result",
                                   !.disposition = dispositionOf(kind, answer, arrives)])
  IN
  /\ call[w].op = "submit" /\ call[w].step = "transport"
  /\ verifyHypercoreTestnetExchangeEnvelope(call[w].envelope)
  /\ \E arrives \in BOOLEAN :
       \/ now < call[w].until /\ \E answer \in executedAnswers(kind) : answered(answer, TRUE, arrives)
       \/ answered("error", FALSE, arrives)
  /\ UNCHANGED <<handoffs, nonceHeads, attempts, approvals>>

resolveAttempt(i, disposition) ==
  persistAttemptTransition(i,
    [attempts[i] EXCEPT !.state = [confirmed |-> "SUBMITTED", rejected |-> "REJECTED",
                                   unknown |-> "UNKNOWN"][disposition],
                        !.disposition = disposition])

recordsResult(w) ==
  LET i == call[w].attempt IN
  /\ call[w].op = "submit" /\ call[w].step = "result" /\ ends(w)
  /\ verifyHypercoreTestnetExchangeResult(exchangeResult(call[w].disposition))
  /\ IF attempts[i].state = "SUBMITTING"
     THEN resolveAttempt(i, call[w].disposition)
     ELSE UNCHANGED attempts
  /\ UNCHANGED <<handoffs, nonceHeads, approvals, exchange>>

\* The process dies.
submitterDies(w) ==
  /\ call[w].op = "submit" /\ ends(w) /\ UNCHANGED submissionVars

\* An attempt left in flight is declared unknown by an operator.
recoverInFlight(i) ==
  /\ verifyHypercoreTestnetSubmissionAttempt(attempts[i])
  /\ attempts[i].state = "SUBMITTING" /\ resolveAttempt(i, "unknown")
  /\ UNCHANGED <<callVars, handoffs, nonceHeads, approvals, exchange>>

-----------------------------------------------------------------------------
(* Closure                                                                 *)

reconcileAttempt(i) ==
  /\ verifyHypercoreTestnetSubmissionAttempt(attempts[i])
  /\ attempts[i].state \in {"SUBMITTED", "REJECTED", "UNKNOWN"}
  /\ persistAttemptTransition(i, [attempts[i] EXCEPT !.state = "RECONCILED"])
  /\ UNCHANGED <<handoffs, nonceHeads, approvals, exchange>>

\* A handoff is retired once; the database asks for the delegate's tombstone.
retireSignerHandoff(d) ==
  /\ handoffs[d] # NoHandoff /\ handoffs[d].status = "VERIFIED"
  /\ delegates[d].address \in tombstones
  /\ handoffs' = [handoffs EXCEPT ![d] = [@ EXCEPT !.status = "RETIRED", !.version = 2]]
  /\ UNCHANGED <<nonceHeads, attempts, approvals, exchange>>

close(i) ==
  /\ verifyHypercoreTestnetSubmissionAttempt(attempts[i])
  /\ attempts[i].state = "RECONCILED"
  /\ handoffs[attempts[i].handoff].status = "RETIRED"
  /\ persistAttemptTransition(i, [attempts[i] EXCEPT !.state = "CLOSED"])
  /\ UNCHANGED <<handoffs, nonceHeads, approvals, exchange>>

SubmissionNext ==
  /\ UNCHANGED compositionVars
  /\ \/ /\ \/ recordBinding
           \/ \E a \in Addresses : prepareDelegate(a)
           \/ \E d \in DOMAIN delegates : terminate(d, delegates[d].version, "RETIRED")
        /\ UNCHANGED <<callVars, submissionVars>>
     \/ /\ \/ \E d \in DOMAIN delegates :
                \/ recordSignerHandoff(d) \/ retireSignerHandoff(d)
                \/ \E e \in EconomicActions : prepareAttempt(d, e)
           \/ \E i \in DOMAIN attempts : approve(i) \/ reconcileAttempt(i) \/ close(i)
        /\ UNCHANGED <<callVars, delegateVars>>
     \/ /\ \/ \E i \in DOMAIN attempts : recoverInFlight(i)
           \/ \E w \in Workers :
                \/ \E i \in DOMAIN attempts : submitExact(w, i)
                \/ claim(w) \/ transport(w) \/ recordsResult(w)
                \/ submitterDies(w)
        /\ UNCHANGED delegateVars
     \/ /\ now < SubmissionTicks /\ Len(attempts) = MaxAttempts    \* bound
        /\ Tick /\ UNCHANGED <<delegateVars, submissionVars>>

-----------------------------------------------------------------------------
(* The agent's secured facility                                            *)

\* The mandate the authorization ends with, and the facility's maturity.
authorityUntil == [mandate |-> SubmissionTicks + 1, facility |-> MaxTime + 1]

\* A resource's record changes: a projection refreshed, a facility at risk.
resourceMoves(r, available) ==
  /\ resources[r].version < MaxResourceVersion
  /\ resources' = [resources EXCEPT ![r] = [version |-> @.version + 1,
                                            available |-> available]]
  /\ UNCHANGED <<facilityGrant, stableIntents, compositions, closeReceipts, incidents>>

\* Parties, mandate, account, obligation, pool and facility are all in order.
currentAuthority ==
  /\ \A r \in Resources : resources[r].available
  /\ now < authorityUntil.mandate /\ now < authorityUntil.facility

\* What the authorization records of each resource.
loadResources == [r \in Resources |-> resources[r].version]

createAgentSecuredFacilityAuthorization ==
  [status |-> "active", version |-> 1, resources |-> loadResources,
   expires |-> Min({authorityUntil.mandate, authorityUntil.facility})]

\* One record for a facility, ever: a revoked one is not replaced.
agentCreateSecuredFacilityAuthorization ==
  /\ currentAuthority /\ facilityGrant.status = "none"
  /\ facilityGrant' = createAgentSecuredFacilityAuthorization
  /\ UNCHANGED <<resources, stableIntents, compositions, closeReceipts, incidents>>

agentRevokeSecuredFacilityAuthorization(expected) ==
  /\ facilityGrant.status = "active" /\ facilityGrant.version = expected
  /\ facilityGrant' = [facilityGrant EXCEPT !.status = "revoked", !.version = @ + 1]
  /\ UNCHANGED <<resources, stableIntents, compositions, closeReceipts, incidents>>

\* An intent is admitted on what its author has just read of the resources.
authorizeAgentSecuredFacilityIntent(version, read) ==
  /\ facilityGrant.status = "active" /\ facilityGrant.version = version
  /\ now < facilityGrant.expires
  /\ read = facilityGrant.resources

createHypercoreStableExecutionIntent ==
  /\ Len(stableIntents) < MaxIntents
  /\ stableIntents' = Append(stableIntents,
       [kind |-> "order", parent |-> 0, expires |-> now + PROOF_WINDOW])
  /\ UNCHANGED <<resources, facilityGrant, compositions, closeReceipts, incidents>>

\* A cancel names the order it cancels.
createHypercoreStableCancelExecutionIntent(p) ==
  /\ Len(stableIntents) < MaxIntents /\ stableIntents[p].kind = "order"
  /\ stableIntents' = Append(stableIntents,
       [kind |-> "cancel", parent |-> p, expires |-> now + PROOF_WINDOW])
  /\ UNCHANGED <<resources, facilityGrant, compositions, closeReceipts, incidents>>

\* Composed outside the transaction that stores it.
createM2BSecuredFacilityComposition(w, x) ==
  LET until == Min({facilityGrant.expires, stableIntents[x].expires}) IN
  /\ call[w] = Idle
  /\ authorizeAgentSecuredFacilityIntent(facilityGrant.version, loadResources)
  /\ stableIntents[x].kind = "order" /\ now < until
  /\ hold(w, [op |-> "compose", intent |-> x, authorization |-> facilityGrant.version,
              resources |-> loadResources, prepared |-> now, expires |-> until])
  /\ UNCHANGED compositionVars

composition(w) ==
  [f \in {"intent", "authorization", "resources", "prepared", "expires"} |-> call[w][f]]

verifyM2BSecuredFacilityComposition(c) == c.prepared < c.expires /\ c.authorization >= 1

\* A second composition under the authorization or of the intent is refused.
storeComposition(w) ==
  /\ call[w].op = "compose" /\ ends(w)
  /\ verifyM2BSecuredFacilityComposition(composition(w))
  /\ compositions' = IF compositions = <<>> THEN <<composition(w)>> ELSE compositions
  /\ UNCHANGED <<resources, facilityGrant, stableIntents, closeReceipts, incidents>>


\* The opening is closed by the cancel of its own order, under the same
\* authorization and with the resources as they were.
createM2BProtectiveCloseReceipt(c, x) ==
  /\ verifyM2BSecuredFacilityComposition(compositions[c])
  /\ authorizeAgentSecuredFacilityIntent(compositions[c].authorization, loadResources)
  /\ stableIntents[x].kind = "cancel" /\ stableIntents[x].parent = compositions[c].intent
  /\ now < stableIntents[x].expires
  /\ closeReceipts' = closeReceipts \cup {<<c, x>>}
  /\ UNCHANGED <<resources, facilityGrant, stableIntents, compositions, incidents>>

DualRiskStates == <<"NORMAL", "WARNING", "REDUCE_ONLY", "FLATTEN", "SETTLEMENT">>

maxState(states) == Max(states)

\* A side of the risk as observed: its rank, what it is worth, and its health.
riskSides ==
  {[state |-> 1, trusted |-> TRUE, health |-> "HEALTHY"],
   [state |-> 2, trusted |-> TRUE, health |-> "WARNING"],
   [state |-> 1, trusted |-> FALSE, health |-> "UNKNOWN"],
   [state |-> 1, trusted |-> TRUE, health |-> "CRITICAL"]}

\* Pool and venue combined: never below either, critical health means flatten,
\* anything stale, unreconciled or unknown means reduce only.
createM2BDualRiskSnapshot(pool, venue) ==
  maxState({pool.state, venue.state}
           \cup {4 : side \in {s \in {pool, venue} : s.health = "CRITICAL"}}
           \cup {3 : side \in {s \in {pool, venue} : ~s.trusted \/ s.health = "UNKNOWN"}}
           \cup {2 : side \in {s \in {pool, venue} : s.health = "WARNING"}})

verifyM2BDualRiskSnapshot(risk) == risk \in DOMAIN DualRiskStates

StageOrder ==
  <<"FREEZE_NEW_RISK", "CANCEL", "REDUCE_OR_FLATTEN", "RECONCILE",
    "REPAY_OR_LIQUIDATE", "SETTLEMENT_REVIEW">>

\* The stage still to be done first: the freeze, unless it was observed.
initialStagePlan(frozen) == IF frozen THEN 2 ELSE 1

verifyM2BDualRiskRecoveryIncident(incident) == incident.stage \in DOMAIN StageOrder

createM2BDualRiskRecoveryIncident(c, risk, frozen) ==
  [composition |-> c, risk |-> risk, stage |-> initialStagePlan(frozen)]

\* Normal risk with nothing frozen opens no incident; one incident for a
\* composition, never changed.
openIncident(c, pool, venue, frozen) ==
  LET risk == createM2BDualRiskSnapshot(pool, venue)
      incident == createM2BDualRiskRecoveryIncident(c, risk, frozen)
  IN
  /\ verifyM2BDualRiskSnapshot(risk) /\ verifyM2BDualRiskRecoveryIncident(incident)
  /\ risk # 1 \/ frozen
  /\ \A i \in DOMAIN incidents : incidents[i].composition # c
  /\ incidents' = Append(incidents, incident)
  /\ UNCHANGED <<resources, facilityGrant, stableIntents, compositions, closeReceipts>>

CompositionNext ==
  /\ UNCHANGED <<delegateVars, submissionVars>>
  /\ \/ /\ \/ \E r \in Resources, available \in BOOLEAN : resourceMoves(r, available)
           \/ agentCreateSecuredFacilityAuthorization
           \/ \E expected \in 1..2 : agentRevokeSecuredFacilityAuthorization(expected)
           \/ createHypercoreStableExecutionIntent
           \/ \E p \in DOMAIN stableIntents : createHypercoreStableCancelExecutionIntent(p)
           \/ \E c \in DOMAIN compositions :
                \/ \E x \in DOMAIN stableIntents : createM2BProtectiveCloseReceipt(c, x)
                \/ \E pool, venue \in riskSides, frozen \in BOOLEAN :
                     openIncident(c, pool, venue, frozen)
        /\ UNCHANGED callVars
     \/ \E w \in Workers :
          \/ \E x \in DOMAIN stableIntents : createM2BSecuredFacilityComposition(w, x)
          \/ storeComposition(w)
     \/ /\ now < SubmissionTicks             \* bound
        /\ Tick /\ UNCHANGED compositionVars

-----------------------------------------------------------------------------
\* A signer's authority is used once: an address serves one delegate ever and
\* never again after its tombstone; whatever crashes and retries there are, an
\* approved action is executed at most once, only after its approval was
\* consumed, and is never recorded as rejected; a closed attempt's signer is
\* gone (prepare, rotate, terminate; claim, submit, resolve, recover, close).
SigningAuthorityOnce ==
  /\ \A d, e \in DOMAIN delegates : delegates[d].address = delegates[e].address => d = e
  /\ \A d \in DOMAIN delegates :
       delegates[d].address \in tombstones <=> delegates[d].status \in TERMINAL_STATUSES
  /\ \A n \in DOMAIN exchange.executed :
       LET i == exchange.executed[n] IN
       /\ approvals[i].status = "CONSUMED" /\ attempts[i].state # "REJECTED"
       /\ \A m \in DOMAIN exchange.executed : exchange.executed[m] = i => m = n
       /\ \A j \in DOMAIN attempts : attempts[j].action = attempts[i].action => j = i
  /\ \A i, j \in DOMAIN attempts : i # j /\ attempts[i].handoff = attempts[j].handoff
       => attempts[i].nonce # attempts[j].nonce
  /\ \A i \in DOMAIN attempts :
       /\ verifyHypercoreTestnetSubmissionAttempt(attempts[i])
       /\ attempts[i].state = "CLOSED"
            => delegates[attempts[i].handoff].status \in TERMINAL_STATUSES

=============================================================================
