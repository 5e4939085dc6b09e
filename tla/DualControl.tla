----------------------------- MODULE DualControl -----------------------------
(***************************************************************************)
(* Dual control and break glass.  A high-impact command runs only after    *)
(* two people of two required roles approved one proposal for it; in an    *)
(* emergency two custodians open a bounded incident in which its requester *)
(* may act protectively, and which must be reviewed afterwards.            *)
(*                                                                         *)
(* Every operation first checks its actor and reads the record, and later  *)
(* commits against the version it read.  Authority may be changed by the   *)
(* identity services at any time in between.                               *)
(***************************************************************************)
EXTENDS Calls, FiniteSets

CONSTANTS Actors,               \* people and the expiry worker
          roleBundle,           \* roleBundle[a]: the role of a's membership
          requesterActor, custodianActorIds, reviewOwnerActorId,
          MAX_APPROVAL_WINDOW, MAX_MFA_AGE, MAX_BREAK_GLASS_WINDOW,
          BREAK_GLASS_ACTIVATION_WINDOW, BREAK_GLASS_REVIEW_WINDOW,
          CommandActors,        \* who may run the command proposed
          MaxAuthority          \* bound: versions of an authority

requiredApproverRoleBundles == {"risk_operator", "operations_operator"}

\* createBreakGlassRuntimeConfig: the duties are separated.
ASSUME createBreakGlassRuntimeConfig ==
  /\ roleBundle \in [Actors -> STRING]
  /\ custodianActorIds \subseteq Actors /\ Cardinality(custodianActorIds) = 2
  /\ requesterActor \notin custodianActorIds
  /\ reviewOwnerActorId \notin custodianActorIds \cup {requesterActor}
  /\ MAX_BREAK_GLASS_WINDOW \in Nat

VARIABLES authority,    \* authority[a]: version and liveness of membership and credential
          proposal,     \* the proposal for one command, and its decisions
          executions_approved,  \* how often the approved command ran
          incident,     \* the break-glass incident
          acted         \* protective actions taken: when, and in which version

dualControlVars == <<authority, proposal, executions_approved, incident, acted>>

NoProposal == [status |-> "none", version |-> 0, proposer |-> requesterActor,
               commandActor |-> requesterActor, expiresAt |-> 0,
               decisions |-> {}]

NoIncident == [status |-> "none", version |-> 0, confirmations |-> {},
               activationDeadline |-> 0, expiresAt |-> 0, reviewDueAt |-> 0,
               reviewStatus |-> "not_required", reviews |-> 0]

DualControlInit ==
  /\ authority = [a \in Actors |-> [version |-> 1, active |-> TRUE]]
  /\ proposal = NoProposal
  /\ executions_approved = 0
  /\ incident = NoIncident
  /\ acted = {}

-----------------------------------------------------------------------------
\* Authority.

\* Active credential and membership, with the capability and recent strong
\* authentication.
assertActorAuthority(a, roles) ==
  authority[a].active /\ roleBundle[a] \in roles

\* A recorded approver still has the very authority of the decision, and the
\* authentication behind it is recent.
revalidateRecordedApprover(d) ==
  /\ authority[d.actor] = [version |-> d.version, active |-> TRUE]
  /\ now - d.authTime <= MAX_MFA_AGE

\* The identity services replace, revoke or restore an authority.
AuthorityChanges ==
  /\ \A a \in Actors : authority[a].version < MaxAuthority
  /\ \E a \in Actors, b \in BOOLEAN :
       authority' = [authority EXCEPT ![a] =
                       [version |-> @.version + 1, active |-> b]]
  /\ UNCHANGED <<proposal, executions_approved, incident, acted, callVars>>

LastWriterWins(current, expectedVersion) == TRUE

\* One transaction: the stream still has the version the call read.
commitCommand(current, expectedVersion) == current.version = expectedVersion

-----------------------------------------------------------------------------
\* Proposals.

allowedProposalTransition(status, next) ==
  \/ status = "pending" /\ next \in {"approved", "rejected", "canceled",
                                     "expired", "superseded"}
  \/ status = "approved" /\ next \in {"executed", "canceled", "expired",
                                      "superseded"}

\* The next version of a proposal.
Revised(p, status, decisions) ==
  [status |-> status, version |-> p.version + 1, proposer |-> p.proposer,
   commandActor |-> p.commandActor, expiresAt |-> p.expiresAt,
   decisions |-> decisions]

transitionApprovalProposal(p, next) == Revised(p, next, p.decisions)

createApprovalProposal(proposer, commandActor, expiresAt) ==
  [status |-> "pending", version |-> 1, proposer |-> proposer,
   commandActor |-> commandActor, expiresAt |-> expiresAt, decisions |-> {}]

propose(w) ==
  /\ call[w] = Idle /\ proposal = NoProposal
  /\ \E proposer \in Actors, commandActor \in CommandActors :
       /\ assertActorAuthority(proposer, {"credit_operator", "risk_operator"})
       /\ proposal' = createApprovalProposal(proposer, commandActor,
                                             now + MAX_APPROVAL_WINDOW)
  /\ UNCHANGED <<callVars, authority, executions_approved, incident, acted>>

approvals(decisions) == {d \in decisions : d.decision = "approve"}

approvedRoles(decisions) == {d.role : d \in approvals(decisions)}

\* Separation of duties, over the decisions read.
mayDecide(a, p) ==
  /\ p.status = "pending" /\ p.expiresAt > now
  /\ a \notin {p.proposer, p.commandActor}
  /\ roleBundle[a] \in requiredApproverRoleBundles
  /\ \A d \in p.decisions : d.actor # a
  /\ roleBundle[a] \notin approvedRoles(p.decisions)

createApprovalDecision(a, decision) ==
  [actor |-> a, role |-> roleBundle[a], decision |-> decision,
   version |-> authority[a].version, authTime |-> now]

\* The proposal after decision d: a rejection ends it, the last role approves.
decided(p, d) ==
  LET all == p.decisions \cup {d}
  IN  IF d.decision = "reject" THEN Revised(p, "rejected", all)
      ELSE IF approvedRoles(all) = requiredApproverRoleBundles
      THEN Revised(p, "approved", all)
      ELSE Revised(p, p.status, all)

decide(w) ==
  /\ call[w] = Idle
  /\ \E a \in Actors, decision \in {"approve", "reject"} :
       /\ assertActorAuthority(a, requiredApproverRoleBundles)
       /\ mayDecide(a, proposal)
       /\ hold(w, [op |-> "approval", expected |-> proposal.version,
                   next |-> decided(proposal,
                                    createApprovalDecision(a, decision))])
  /\ UNCHANGED dualControlVars

\* cancel and supersede by the proposer, expire by the worker.
terminalTransition(w) ==
  /\ call[w] = Idle
  /\ proposal.status \in {"pending", "approved"}
  /\ \E a \in Actors, status \in {"canceled", "superseded", "expired"} :
       /\ allowedProposalTransition(proposal.status, status)
       /\ assertActorAuthority(a, {roleBundle[a]})
       /\ IF status = "expired"
          THEN roleBundle[a] = "system_worker" /\ now >= proposal.expiresAt
          ELSE a = proposal.proposer
       /\ hold(w, [op |-> "approval", expected |-> proposal.version,
                   next |-> transitionApprovalProposal(proposal, status)])
  /\ UNCHANGED dualControlVars

commitProposal(w) ==
  /\ call[w].op = "approval"
  /\ commitCommand(proposal, call[w].expected)
  /\ proposal' = call[w].next
  /\ ends(w)
  /\ UNCHANGED <<authority, executions_approved, incident, acted>>

assertApproved(p) ==
  /\ p.status = "approved" /\ p.expiresAt > now
  /\ Cardinality(approvals(p.decisions)) = 2
  /\ approvedRoles(p.decisions) = requiredApproverRoleBundles
  /\ \A d \in approvals(p.decisions) :
       /\ d.actor \notin {p.proposer, p.commandActor}
       /\ revalidateRecordedApprover(d)

\* Verify and build the mutation; events, execution record and proposal are
\* then written together.
executeApprovedCommand(w) ==
  /\ call[w] = Idle
  /\ assertApproved(proposal)
  /\ hold(w, [op |-> "execute_approved", expected |-> proposal.version,
              next |-> transitionApprovalProposal(proposal, "executed")])
  /\ UNCHANGED dualControlVars

commitApprovedExecution(w) ==
  /\ call[w].op = "execute_approved"
  /\ commitCommand(proposal, call[w].expected)
  /\ proposal' = call[w].next
  /\ executions_approved' = executions_approved + 1
  /\ ends(w)
  /\ UNCHANGED <<authority, incident, acted>>

-----------------------------------------------------------------------------
\* Break glass.

assertConfiguredActor(a, actorIds) == a \in actorIds /\ authority[a].active

createBreakGlassIncident ==
  [status |-> "pending_custodians", version |-> 1, confirmations |-> {},
   activationDeadline |-> now + BREAK_GLASS_ACTIVATION_WINDOW,
   expiresAt |-> 0, reviewDueAt |-> 0,
   reviewStatus |-> "not_required", reviews |-> 0]

\* The next version of an incident; completing the review writes its row.
transitionBreakGlassIncident(i, confirmations, status, reviewStatus, expiresAt, reviewDueAt) ==
  [status |-> status, version |-> i.version + 1,
   confirmations |-> confirmations,
   activationDeadline |-> i.activationDeadline,
   expiresAt |-> expiresAt, reviewDueAt |-> reviewDueAt,
   reviewStatus |-> reviewStatus,
   reviews |-> IF reviewStatus = "completed" THEN i.reviews + 1 ELSE i.reviews]

declareIncident(w) ==
  /\ call[w] = Idle /\ incident = NoIncident
  /\ assertConfiguredActor(requesterActor, {requesterActor})
  /\ incident' = createBreakGlassIncident
  /\ UNCHANGED <<callVars, authority, proposal, executions_approved, acted>>

\* The second custodian starts the session.
confirmed(i, a) ==
  LET all == i.confirmations \cup {a}
  IN  IF all = custodianActorIds
      THEN transitionBreakGlassIncident(
             i, all, "active", "not_required", now + MAX_BREAK_GLASS_WINDOW,
             now + MAX_BREAK_GLASS_WINDOW + BREAK_GLASS_REVIEW_WINDOW)
      ELSE transitionBreakGlassIncident(
             i, all, "pending_custodians", "not_required", i.expiresAt,
             i.reviewDueAt)

confirmCustodian(w) ==
  /\ call[w] = Idle
  /\ incident.status = "pending_custodians"
  /\ incident.activationDeadline > now
  /\ \E a \in custodianActorIds \ incident.confirmations :
       /\ assertConfiguredActor(a, custodianActorIds)
       /\ hold(w, [op |-> "incident", expected |-> incident.version,
                   next |-> confirmed(incident, a)])
  /\ UNCHANGED dualControlVars

sessionOver(i) == i.status = "active" /\ i.expiresAt <= now

\* Any use of a session that is over records its end first, and then fails.
expireIncident(w) ==
  /\ call[w] = Idle
  /\ sessionOver(incident)
  /\ hold(w, [op |-> "incident", expected |-> incident.version,
              next |-> transitionBreakGlassIncident(
                         incident, incident.confirmations, "expired",
                         IF incident.reviewDueAt <= now THEN "overdue"
                         ELSE "pending",
                         incident.expiresAt, incident.reviewDueAt)])
  /\ UNCHANGED dualControlVars

\* A protective authorization, bound to the incident version it was issued in.
assertProtectiveScope(w) ==
  /\ call[w] = Idle
  /\ incident.status = "active" /\ ~sessionOver(incident)
  /\ assertConfiguredActor(requesterActor, {requesterActor})
  /\ hold(w, [op |-> "protect", version |-> incident.version,
              expiresAt |-> incident.expiresAt,
              authority |-> authority[requesterActor].version])
  /\ UNCHANGED dualControlVars

\* It is checked again against the current incident when it is used.
revalidateProtectiveAuthorization(w) ==
  /\ call[w].op = "protect"
  /\ call[w].expiresAt > now
  /\ assertConfiguredActor(requesterActor, {requesterActor})
  /\ authority[requesterActor].version = call[w].authority
  /\ incident.status = "active" /\ ~sessionOver(incident)
  /\ incident.version = call[w].version
  /\ acted' = acted \cup {[at |-> now, confirmations |-> incident.confirmations]}
  /\ ends(w)
  /\ UNCHANGED <<authority, proposal, executions_approved, incident>>

closeIncident(w) ==
  /\ call[w] = Idle
  /\ incident.status = "active" /\ ~sessionOver(incident)
  /\ \E a \in custodianActorIds \cup {requesterActor} :
       assertConfiguredActor(a, custodianActorIds \cup {requesterActor})
  /\ hold(w, [op |-> "incident", expected |-> incident.version,
              next |-> transitionBreakGlassIncident(
                         incident, incident.confirmations, "closed",
                         "pending", incident.expiresAt,
                         now + BREAK_GLASS_REVIEW_WINDOW)])
  /\ UNCHANGED dualControlVars

review(w) ==
  /\ call[w] = Idle
  /\ assertConfiguredActor(reviewOwnerActorId, {reviewOwnerActorId})
  /\ incident.status \in {"closed", "expired"}
  /\ incident.reviewStatus \in {"pending", "overdue"}
  /\ incident.reviews = 0
  /\ hold(w, [op |-> "incident", expected |-> incident.version,
              next |-> transitionBreakGlassIncident(
                         incident, incident.confirmations,
                         incident.status, "completed",
                         incident.expiresAt, incident.reviewDueAt)])
  /\ UNCHANGED dualControlVars

commitIncident(w) ==
  /\ call[w].op = "incident"
  /\ commitCommand(incident, call[w].expected)
  /\ incident' = call[w].next
  /\ ends(w)
  /\ UNCHANGED <<authority, proposal, executions_approved, acted>>

-----------------------------------------------------------------------------
dualControlCallEnds(w) ==
  call[w] # Idle /\ ends(w) /\ UNCHANGED dualControlVars

ApprovalNext ==
  \/ \E w \in Workers :
       \/ propose(w) \/ decide(w) \/ terminalTransition(w)
       \/ executeApprovedCommand(w) \/ commitProposal(w)
       \/ commitApprovedExecution(w) \/ dualControlCallEnds(w)
  \/ AuthorityChanges
  \/ Tick /\ UNCHANGED dualControlVars

BreakGlassNext ==
  \/ \E w \in Workers :
       \/ declareIncident(w) \/ confirmCustodian(w) \/ expireIncident(w)
       \/ assertProtectiveScope(w) \/ revalidateProtectiveAuthorization(w)
       \/ closeIncident(w) \/ review(w) \/ commitIncident(w)
       \/ dualControlCallEnds(w)
  \/ AuthorityChanges
  \/ Tick /\ UNCHANGED dualControlVars

DualControlSpec ==
  /\ CallsInit /\ DualControlInit
  /\ [][ApprovalNext \/ BreakGlassNext]_<<callVars, dualControlVars>>

(***************************************************************************)
(* An approved command ran at most once, with an approval of each required *)
(* role from people other than its proposer and its actor, and although    *)
(* decisions race, never beside a recorded rejection.  A protective action *)
(* was taken only in a session both custodians opened, before its end, and *)
(* a session that ended was reviewed at most once and is not forgotten.    *)
(***************************************************************************)
TwoPersonRule ==
  /\ executions_approved <= 1
  /\ executions_approved = 1 =>
       /\ proposal.status = "executed"
       /\ approvedRoles(proposal.decisions) = requiredApproverRoleBundles
       /\ \A d \in proposal.decisions :
            /\ d.decision = "approve"
            /\ d.actor \notin {proposal.proposer, proposal.commandActor}
  /\ \A a \in acted : /\ a.confirmations = custodianActorIds
                      /\ a.at < incident.expiresAt
  /\ incident.reviews = (IF incident.reviewStatus = "completed" THEN 1 ELSE 0)
  /\ incident.status \in {"closed", "expired"}
       => incident.reviewStatus # "not_required"
=============================================================================
