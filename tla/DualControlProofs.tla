-------------------------- MODULE DualControlProofs --------------------------
(***************************************************************************)
(* Proofs about DualControl, for any number of processes and any people:   *)
(* what two processes that decide on the same version of a record may      *)
(* never bring about together.                                             *)
(***************************************************************************)
EXTENDS DualControl, TLAPS
-----------------------------------------------------------------------------
\* A proposal that may still run, or has run, holds approvals only, from
\* people other than its proposer and its actor; all roles once approved.
SoundProposal(p) ==
    /\ p.version \in Nat
    /\ p.status \in {"pending", "approved", "executed"} =>
          \A d \in p.decisions : d.decision = "approve" /\ d.actor \notin {p.proposer, p.commandActor}
    /\ p.status \in {"approved", "executed"} =>
          approvedRoles(p.decisions) = requiredApproverRoleBundles

\* What a process is about to commit to the proposal is sound, and bound to
\* a version in which the proposal could still change.
SoundDecision(c, p) ==
    /\ c.expected \in Nat /\ c.expected <= p.version
    /\ SoundProposal(c.next) /\ c.next.version = c.expected + 1
    /\ c.op = "execute_approved" <=> c.next.status = "executed"
    /\ c.expected = p.version => p.status \in {"pending", "approved"}

ApprovalInv ==
    /\ SoundProposal(proposal)
    /\ executions_approved = IF proposal.status = "executed" THEN 1 ELSE 0
    /\ \A w \in Workers : call[w].op \in {"approval", "execute_approved"} => SoundDecision(call[w], proposal)

SoundIncident(i) ==
    /\ i.version \in Nat /\ i.expiresAt \in Nat
    /\ i.status \in {"active", "closed", "expired"} => i.confirmations = custodianActorIds
    /\ i.status \in {"none", "pending_custodians", "active"} => i.reviewStatus = "not_required"
    /\ i.status \in {"closed", "expired"} => i.reviewStatus # "not_required"
    /\ i.reviews = IF i.reviewStatus = "completed" THEN 1 ELSE 0

\* What a process is about to commit to the incident is sound, and the end
\* of a session that has begun stays.
SoundTransition(c, i) ==
    /\ c.expected \in Nat /\ c.expected <= i.version
    /\ SoundIncident(c.next) /\ c.next.version = c.expected + 1
    /\ c.expected = i.version =>
          /\ i.status # "none"
          /\ i.status \in {"active", "closed", "expired"} =>
                c.next.status \in {"closed", "expired"} /\ c.next.expiresAt = i.expiresAt

BreakGlassInv ==
    /\ now \in Nat
    /\ SoundIncident(incident)
    /\ \A a \in acted : a.confirmations = custodianActorIds /\ a.at < incident.expiresAt
    /\ acted # {} => incident.status \in {"active", "closed", "expired"}
    /\ \A w \in Workers : call[w].op = "incident" => SoundTransition(call[w], incident)

DualControlInv == call = [w \in Workers |-> call[w]] /\ ApprovalInv /\ BreakGlassInv

\* Nothing is proposed, declared or held.
LEMMA InitDualControlInv == CallsInit /\ DualControlInit => DualControlInv
BY DEF CallsInit, DualControlInit, DualControlInv, ApprovalInv, BreakGlassInv, SoundProposal,
       SoundIncident, NoProposal, NoIncident, Idle

\* A process that holds nothing for a record adds nothing to prove about it.
LEMMA HoldKeepsOthers ==
    ASSUME DualControlInv, NEW w \in Workers, NEW c, hold(w, c), UNCHANGED dualControlVars,
           c.op \in {"approval", "execute_approved"} => SoundDecision(c, proposal),
           c.op = "incident" => SoundTransition(c, incident)
    PROVE  DualControlInv'
<1>1. call' = [v \in Workers |-> IF v = w THEN c ELSE call[v]]
  BY Zenon DEF hold, DualControlInv
<1>2. \A v \in Workers : call'[v] = IF v = w THEN c ELSE call[v]
  BY <1>1
<1>3. call' = [v \in Workers |-> call'[v]]
  BY <1>1, <1>2
<1>4. /\ proposal' = proposal /\ executions_approved' = executions_approved
      /\ incident' = incident /\ acted' = acted /\ now' = now
  BY DEF dualControlVars, hold
<1>5. ApprovalInv'
  BY <1>2, <1>4 DEF DualControlInv, ApprovalInv, SoundDecision, SoundProposal
<1>6. BreakGlassInv'
  BY <1>2, <1>4 DEF DualControlInv, BreakGlassInv, SoundTransition, SoundIncident
<1> QED BY <1>3, <1>5, <1>6 DEF DualControlInv

\* propose: the first version of the proposal, when nothing can be held for it.
LEMMA ProposeKeepsInv ==
    ASSUME DualControlInv, NEW w \in Workers, propose(w)
    PROVE  DualControlInv'
<1>1. PICK proposer \in Actors, commandActor \in CommandActors :
          proposal' = createApprovalProposal(proposer, commandActor, now + MAX_APPROVAL_WINDOW)
  BY DEF propose
<1>2. /\ proposal'.version = 1 /\ proposal'.status = "pending" /\ proposal'.decisions = {}
      /\ proposal.version = 0 /\ proposal.status = "none"
      /\ UNCHANGED <<call, now, executions_approved, incident, acted>>
  BY <1>1 DEF propose, createApprovalProposal, NoProposal, callVars
<1>3. SoundProposal(proposal')
  BY <1>2 DEF SoundProposal
<1>4. \A v \in Workers : call[v].op \notin {"approval", "execute_approved"}
  BY <1>2 DEF DualControlInv, ApprovalInv, SoundDecision
<1>5. ApprovalInv'
  BY <1>2, <1>3, <1>4 DEF DualControlInv, ApprovalInv, SoundProposal
<1>6. BreakGlassInv'
  BY <1>2 DEF DualControlInv, BreakGlassInv, SoundTransition, SoundIncident
<1> QED BY <1>2, <1>5, <1>6 DEF DualControlInv

\* decide: a rejection ends the proposal, an approval comes from an actor of
\* neither side, and the last role approves.
LEMMA DecideKeepsInv ==
    ASSUME DualControlInv, NEW w \in Workers, decide(w)
    PROVE  DualControlInv'
<1>1. PICK a \in Actors, decision \in {"approve", "reject"} :
          /\ mayDecide(a, proposal)
          /\ hold(w, [op |-> "approval", expected |-> proposal.version,
                      next |-> decided(proposal, createApprovalDecision(a, decision))])
  BY DEF decide
<1> DEFINE d == createApprovalDecision(a, decision)
           n == decided(proposal, d)
           c == [op |-> "approval", expected |-> proposal.version, next |-> n]
<1>2. /\ proposal.status = "pending" /\ a \notin {proposal.proposer, proposal.commandActor}
      /\ d.actor = a /\ d.decision = decision
  BY <1>1 DEF mayDecide, createApprovalDecision
<1>3. /\ n.version = proposal.version + 1 /\ n.proposer = proposal.proposer
      /\ n.commandActor = proposal.commandActor /\ n.decisions = proposal.decisions \cup {d}
      /\ n.status \in {"pending", "approved", "rejected"}
      /\ d.decision = "reject" => n.status = "rejected"
      /\ n.status = "approved" => approvedRoles(n.decisions) = requiredApproverRoleBundles
  BY <1>2 DEF decided, Revised
<1> HIDE DEF d, n
<1>4. SoundProposal(n)
  BY <1>2, <1>3 DEF DualControlInv, ApprovalInv, SoundProposal
<1>5. SoundDecision(c, proposal)
  <2>1. c.op = "approval" /\ c.expected = proposal.version /\ c.next = n /\ proposal.version \in Nat
    BY DEF DualControlInv, ApprovalInv, SoundProposal
  <2> HIDE DEF c
  <2> QED BY <1>2, <1>3, <1>4, <2>1 DEF SoundDecision
<1>6. c.op = "approval"
  OBVIOUS
<1> QED BY <1>1, <1>5, <1>6, HoldKeepsOthers DEF decide, n, d

\* cancel, supersede and expire leave a proposal that never runs.
LEMMA TerminalKeepsInv ==
    ASSUME DualControlInv, NEW w \in Workers, terminalTransition(w)
    PROVE  DualControlInv'
<1>1. PICK status \in {"canceled", "superseded", "expired"} :
          hold(w, [op |-> "approval", expected |-> proposal.version,
                   next |-> transitionApprovalProposal(proposal, status)])
  BY DEF terminalTransition
<1> DEFINE c == [op |-> "approval", expected |-> proposal.version,
                 next |-> transitionApprovalProposal(proposal, status)]
<1>2. SoundDecision(c, proposal)
  BY DEF terminalTransition, transitionApprovalProposal, Revised, SoundDecision, SoundProposal,
         DualControlInv, ApprovalInv
<1> QED BY <1>1, <1>2, HoldKeepsOthers DEF terminalTransition

\* executeApprovedCommand holds the execution of an approved proposal.
LEMMA ExecuteKeepsInv ==
    ASSUME DualControlInv, NEW w \in Workers, executeApprovedCommand(w)
    PROVE  DualControlInv'
<1> DEFINE c == [op |-> "execute_approved", expected |-> proposal.version,
                 next |-> transitionApprovalProposal(proposal, "executed")]
<1>1. proposal.status = "approved" /\ hold(w, c) /\ UNCHANGED dualControlVars
  BY DEF executeApprovedCommand, assertApproved
<1>2. SoundDecision(c, proposal)
  BY <1>1 DEF transitionApprovalProposal, Revised, SoundDecision, SoundProposal,
              DualControlInv, ApprovalInv
<1> QED BY <1>1, <1>2, HoldKeepsOthers

\* A commit moves the proposal past every version the others hold.
LEMMA CommitKeepsApproval ==
    ASSUME DualControlInv, NEW w \in Workers,
           call[w].op \in {"approval", "execute_approved"},
           proposal.version = call[w].expected, proposal' = call[w].next,
           executions_approved' = IF call[w].op = "approval" THEN executions_approved
                                  ELSE executions_approved + 1,
           ends(w), UNCHANGED <<incident, acted>>
    PROVE  DualControlInv'
<1>1. call' = [v \in Workers |-> IF v = w THEN Idle ELSE call[v]]
  BY Zenon DEF ends, hold, DualControlInv
<1>2. \A v \in Workers : call'[v] = IF v = w THEN Idle ELSE call[v]
  BY <1>1
<1>3. call' = [v \in Workers |-> call'[v]]
  BY <1>1, <1>2
<1>4. /\ SoundProposal(proposal') /\ proposal'.version = proposal.version + 1
      /\ proposal.status \in {"pending", "approved"} /\ proposal.version \in Nat
      /\ call[w].op = "execute_approved" <=> proposal'.status = "executed"
  BY DEF DualControlInv, ApprovalInv, SoundDecision, SoundProposal
<1>5. executions_approved' = IF proposal'.status = "executed" THEN 1 ELSE 0
  BY <1>4 DEF DualControlInv, ApprovalInv
<1>6. \A v \in Workers : call'[v].op \in {"approval", "execute_approved"} => SoundDecision(call'[v], proposal')
  BY <1>2, <1>4 DEF DualControlInv, ApprovalInv, SoundDecision, SoundProposal, Idle
<1>7. ApprovalInv'
  BY <1>4, <1>5, <1>6 DEF ApprovalInv, SoundProposal
<1>8. BreakGlassInv'
  BY <1>2 DEF DualControlInv, BreakGlassInv, SoundTransition, SoundIncident, ends, hold, Idle
<1> QED BY <1>3, <1>7, <1>8 DEF DualControlInv

\* declareIncident: the first version of the incident, when nothing can be
\* held for it and nothing was done in it.
LEMMA DeclareKeepsInv ==
    ASSUME DualControlInv, NEW w \in Workers, declareIncident(w)
    PROVE  DualControlInv'
<1>1. /\ incident'.version = 1 /\ incident'.status = "pending_custodians" /\ incident'.expiresAt = 0
      /\ incident'.reviewStatus = "not_required" /\ incident'.reviews = 0
      /\ incident.version = 0 /\ incident.status = "none"
      /\ UNCHANGED <<call, now, proposal, executions_approved, acted>>
  BY DEF declareIncident, createBreakGlassIncident, NoIncident, callVars
<1>2. SoundIncident(incident')
  BY <1>1 DEF SoundIncident
<1>3. acted = {} /\ \A v \in Workers : call[v].op # "incident"
  BY <1>1 DEF DualControlInv, BreakGlassInv, SoundTransition
<1>4. BreakGlassInv'
  BY <1>1, <1>2, <1>3 DEF DualControlInv, BreakGlassInv, SoundIncident
<1>5. ApprovalInv'
  BY <1>1 DEF DualControlInv, ApprovalInv, SoundDecision, SoundProposal
<1> QED BY <1>1, <1>4, <1>5 DEF DualControlInv

\* confirmCustodian: the confirmation that completes the two starts the session.
LEMMA ConfirmKeepsInv ==
    ASSUME DualControlInv, NEW w \in Workers, confirmCustodian(w)
    PROVE  DualControlInv'
<1>1. PICK a \in custodianActorIds \ incident.confirmations :
          hold(w, [op |-> "incident", expected |-> incident.version, next |-> confirmed(incident, a)])
  BY DEF confirmCustodian
<1> DEFINE n == confirmed(incident, a)
           c == [op |-> "incident", expected |-> incident.version, next |-> n]
<1>2. /\ incident.status = "pending_custodians" /\ incident.reviewStatus = "not_required"
      /\ incident.version \in Nat /\ incident.expiresAt \in Nat /\ incident.reviews = 0
      /\ now + MAX_BREAK_GLASS_WINDOW \in Nat
  BY createBreakGlassRuntimeConfig
     DEF confirmCustodian, DualControlInv, BreakGlassInv, SoundIncident
<1>3. /\ n.version = incident.version + 1 /\ n.reviews = 0 /\ n.reviewStatus = "not_required"
      /\ \/ n.status = "active" /\ n.expiresAt = now + MAX_BREAK_GLASS_WINDOW /\ n.confirmations = custodianActorIds
         \/ n.status = "pending_custodians" /\ n.expiresAt = incident.expiresAt
  BY <1>2 DEF confirmed, transitionBreakGlassIncident
<1> HIDE DEF n
<1>5. SoundIncident(n)
  BY <1>2, <1>3 DEF SoundIncident
<1>6. c.op = "incident" /\ c.expected = incident.version /\ c.next = n
  OBVIOUS
<1>7. SoundTransition(c, incident)
  BY <1>2, <1>3, <1>5, <1>6 DEF SoundTransition
<1> QED BY <1>1, <1>6, <1>7, HoldKeepsOthers DEF confirmCustodian, n

\* A transition out of a session that has begun keeps its end, and completes
\* at most one review.
LEMMA TransitionSound ==
    ASSUME DualControlInv, NEW status \in {"closed", "expired"}, NEW due,
           NEW reviewStatus \in {"pending", "overdue", "completed"},
           incident.status \in {"active", "closed", "expired"},
           incident.reviewStatus # "completed"
    PROVE  SoundTransition([op |-> "incident", expected |-> incident.version,
                            next |-> transitionBreakGlassIncident(incident, incident.confirmations, status, reviewStatus,
                                                                  incident.expiresAt, due)], incident)
<1> DEFINE n == transitionBreakGlassIncident(incident, incident.confirmations, status, reviewStatus, incident.expiresAt, due)
           c == [op |-> "incident", expected |-> incident.version, next |-> n]
<1>1. /\ incident.version \in Nat /\ incident.expiresAt \in Nat /\ incident.reviews = 0
      /\ incident.confirmations = custodianActorIds
  BY DEF DualControlInv, BreakGlassInv, SoundIncident
<1>2. /\ n.version = incident.version + 1 /\ n.status = status /\ n.reviewStatus = reviewStatus
      /\ n.expiresAt = incident.expiresAt /\ n.confirmations = custodianActorIds
      /\ n.reviews = IF reviewStatus = "completed" THEN 1 ELSE 0
  BY <1>1 DEF transitionBreakGlassIncident
<1> HIDE DEF n
<1>3. SoundIncident(n)
  BY <1>1, <1>2 DEF SoundIncident
<1>4. c.op = "incident" /\ c.expected = incident.version /\ c.next = n
  OBVIOUS
<1>5. SoundTransition(c, incident)
  BY <1>1, <1>2, <1>3, <1>4 DEF SoundTransition
<1> QED BY <1>5 DEF n

\* expire, close and review, by the process that read a session that has begun.
LEMMA SessionEndKeepsInv ==
    ASSUME DualControlInv, NEW w \in Workers, expireIncident(w) \/ closeIncident(w) \/ review(w)
    PROVE  DualControlInv'
<1>1. PICK status \in {"closed", "expired"}, reviewStatus \in {"pending", "overdue", "completed"},
           due \in {incident.reviewDueAt, now + BREAK_GLASS_REVIEW_WINDOW} :
         /\ incident.status \in {"active", "closed", "expired"}
         /\ incident.reviewStatus # "completed"
         /\ hold(w, [op |-> "incident", expected |-> incident.version,
                     next |-> transitionBreakGlassIncident(incident, incident.confirmations, status, reviewStatus,
                                                           incident.expiresAt, due)])
         /\ UNCHANGED dualControlVars
  <2>1. CASE expireIncident(w)
    BY <2>1 DEF expireIncident, sessionOver, DualControlInv, BreakGlassInv, SoundIncident
  <2>2. CASE closeIncident(w)
    BY <2>2 DEF closeIncident, DualControlInv, BreakGlassInv, SoundIncident
  <2>3. CASE review(w)
    BY <2>3 DEF review, DualControlInv, BreakGlassInv, SoundIncident
  <2> QED BY <2>1, <2>2, <2>3
<1> DEFINE c == [op |-> "incident", expected |-> incident.version,
                 next |-> transitionBreakGlassIncident(incident, incident.confirmations, status, reviewStatus,
                                                       incident.expiresAt, due)]
<1>2. SoundTransition(c, incident) /\ c.op = "incident"
  BY <1>1, TransitionSound, Zenon
<1> QED BY <1>1, <1>2, HoldKeepsOthers

\* A protective authorization is no claim on the records.
LEMMA ScopeKeepsInv ==
    ASSUME DualControlInv, NEW w \in Workers, assertProtectiveScope(w)
    PROVE  DualControlInv'
<1> DEFINE c == [op |-> "protect", version |-> incident.version, expiresAt |-> incident.expiresAt,
                 authority |-> authority[requesterActor].version]
<1>1. hold(w, c) /\ UNCHANGED dualControlVars /\ c.op = "protect"
  BY DEF assertProtectiveScope
<1> QED BY <1>1, HoldKeepsOthers

\* The action is taken in an active session, before its end.
LEMMA ProtectKeepsInv ==
    ASSUME DualControlInv, NEW w \in Workers, revalidateProtectiveAuthorization(w)
    PROVE  DualControlInv'
<1>1. call' = [v \in Workers |-> IF v = w THEN Idle ELSE call[v]]
  BY Zenon DEF revalidateProtectiveAuthorization, ends, hold, DualControlInv
<1>2. \A v \in Workers : call'[v] = IF v = w THEN Idle ELSE call[v]
  BY <1>1
<1>3. call' = [v \in Workers |-> call'[v]]
  BY <1>1, <1>2
<1>4. /\ UNCHANGED <<now, proposal, executions_approved, incident>>
      /\ incident.status = "active" /\ now < incident.expiresAt
      /\ acted' = acted \cup {[at |-> now, confirmations |-> incident.confirmations]}
  BY DEF revalidateProtectiveAuthorization, sessionOver, ends, hold, DualControlInv, BreakGlassInv,
         SoundIncident
<1>5. BreakGlassInv'
  BY <1>2, <1>4 DEF DualControlInv, BreakGlassInv, SoundTransition, SoundIncident, Idle
<1>6. ApprovalInv'
  BY <1>2, <1>4 DEF DualControlInv, ApprovalInv, SoundDecision, SoundProposal, Idle
<1> QED BY <1>3, <1>5, <1>6 DEF DualControlInv

\* A commit moves the incident past every version the others hold.
LEMMA CommitKeepsIncident ==
    ASSUME DualControlInv, NEW w \in Workers, commitIncident(w)
    PROVE  DualControlInv'
<1>1. call' = [v \in Workers |-> IF v = w THEN Idle ELSE call[v]]
  BY Zenon DEF commitIncident, ends, hold, DualControlInv
<1>2. \A v \in Workers : call'[v] = IF v = w THEN Idle ELSE call[v]
  BY <1>1
<1>3. call' = [v \in Workers |-> call'[v]]
  BY <1>1, <1>2
<1>4. /\ call[w].op = "incident" /\ incident.version = call[w].expected /\ incident' = call[w].next
      /\ UNCHANGED <<now, proposal, executions_approved, acted>>
  BY DEF commitIncident, commitCommand, ends, hold
<1>5. SoundTransition(call[w], incident) /\ SoundIncident(incident)
  BY <1>4 DEF DualControlInv, BreakGlassInv
<1>6. /\ SoundIncident(incident') /\ incident'.version = incident.version + 1
      /\ incident.version \in Nat
      /\ incident.status \in {"active", "closed", "expired"} =>
            incident'.status \in {"closed", "expired"} /\ incident'.expiresAt = incident.expiresAt
  BY <1>4, <1>5 DEF SoundTransition, SoundIncident
<1>7. \A v \in Workers : call'[v].op = "incident" => SoundTransition(call'[v], incident')
  BY <1>2, <1>4, <1>6 DEF DualControlInv, BreakGlassInv, SoundTransition, Idle
<1>8. BreakGlassInv'
  BY <1>4, <1>6, <1>7 DEF DualControlInv, BreakGlassInv, SoundIncident
<1>9. ApprovalInv'
  BY <1>2, <1>4 DEF DualControlInv, ApprovalInv, SoundDecision, SoundProposal, Idle
<1> QED BY <1>3, <1>8, <1>9 DEF DualControlInv

\* Every step of either service keeps the invariant.
LEMMA NextKeepsDualControlInv ==
    DualControlInv /\ [ApprovalNext \/ BreakGlassNext]_<<callVars, dualControlVars>> => DualControlInv'
<1> SUFFICES ASSUME DualControlInv, [ApprovalNext \/ BreakGlassNext]_<<callVars, dualControlVars>>
             PROVE  DualControlInv'
  OBVIOUS
<1>1. ASSUME NEW w \in Workers, commitProposal(w) \/ commitApprovedExecution(w) PROVE DualControlInv'
  <2>1. /\ call[w].op \in {"approval", "execute_approved"} /\ proposal.version = call[w].expected
        /\ proposal' = call[w].next /\ ends(w) /\ UNCHANGED <<incident, acted>>
        /\ executions_approved' = IF call[w].op = "approval" THEN executions_approved
                                  ELSE executions_approved + 1
    BY <1>1 DEF commitProposal, commitApprovedExecution, commitCommand
  <2> QED BY <2>1, CommitKeepsApproval
<1>2. ASSUME NEW w \in Workers, dualControlCallEnds(w) PROVE DualControlInv'
  <2>1. hold(w, Idle) /\ UNCHANGED dualControlVars /\ Idle.op = "idle"
    BY <1>2 DEF dualControlCallEnds, ends, Idle
  <2> QED BY <2>1, HoldKeepsOthers
<1>3. ASSUME UNCHANGED <<call, proposal, executions_approved, incident, acted>>, now' \in {now, now + 1}
      PROVE  DualControlInv'
  <2>1. ApprovalInv'
    BY <1>3 DEF DualControlInv, ApprovalInv, SoundDecision, SoundProposal
  <2>2. BreakGlassInv'
    BY <1>3 DEF DualControlInv, BreakGlassInv, SoundTransition, SoundIncident
  <2> QED BY <1>3, <2>1, <2>2 DEF DualControlInv
<1>6. AuthorityChanges \/ (Tick /\ UNCHANGED dualControlVars) => DualControlInv'
  BY <1>3 DEF AuthorityChanges, Tick, callVars, dualControlVars
<1>7. CASE UNCHANGED <<callVars, dualControlVars>>
  BY <1>3, <1>7 DEF callVars, dualControlVars
<1>4. CASE ApprovalNext
  <2>1. ASSUME NEW w \in Workers, propose(w) \/ decide(w) \/ terminalTransition(w) \/ executeApprovedCommand(w)
        PROVE  DualControlInv'
    BY <2>1, ProposeKeepsInv, DecideKeepsInv, TerminalKeepsInv, ExecuteKeepsInv
  <2> QED BY <1>1, <1>2, <1>4, <1>6, <2>1, Zenon DEF ApprovalNext
<1>5. CASE BreakGlassNext
  <2>1. ASSUME NEW w \in Workers,
               \/ declareIncident(w) \/ confirmCustodian(w) \/ assertProtectiveScope(w)
               \/ revalidateProtectiveAuthorization(w) \/ commitIncident(w)
        PROVE  DualControlInv'
    BY <2>1, DeclareKeepsInv, ConfirmKeepsInv, ScopeKeepsInv, ProtectKeepsInv, CommitKeepsIncident
  <2>2. ASSUME NEW w \in Workers, expireIncident(w) \/ closeIncident(w) \/ review(w)
        PROVE  DualControlInv'
    BY <2>2, SessionEndKeepsInv
  <2> QED BY <1>2, <1>5, <1>6, <2>1, <2>2, Zenon DEF BreakGlassNext
<1> QED BY <1>4, <1>5, <1>7

(***************************************************************************)
(* Dual control and break glass, running beside each other in any number   *)
(* of processes: an approved command runs once, on the approvals of all    *)
(* required roles and beside no rejection, and protective actions are      *)
(* taken only in a session both custodians opened.                         *)
(***************************************************************************)
THEOREM DualControlTwoPersonRule == DualControlSpec => []TwoPersonRule
<1>1. DualControlInv => TwoPersonRule
  BY DEF DualControlInv, ApprovalInv, SoundProposal, BreakGlassInv, SoundIncident, TwoPersonRule
<1> QED BY <1>1, InitDualControlInv, NextKeepsDualControlInv, PTL DEF DualControlSpec
=============================================================================
