------------------------- MODULE BorrowerAuthority -------------------------
(***************************************************************************)
(* Who may borrow: Human and Agent subjects, the Consent and the synthetic *)
(* identity reference behind a Human, the Mandate and the proven account   *)
(* behind an Agent, and the execution accounts either of them binds.       *)
(*                                                                         *)
(* Every command is one transaction that locks the rows it reads, so it is *)
(* one step.  Its clock, however, was read when it was admitted, and may   *)
(* lag behind the rows it then finds.  A subject has one consent or one    *)
(* mandate here; the code keys each application to one of them.            *)
(***************************************************************************)
EXTENDS Calls, FiniteSets, FiniteSetsExt

CONSTANTS Subjects,
          subjectType,          \* subjectType[s]: "human" or "agent"
          Accounts,             \* CAIP-10 accounts
          Terms,                \* lifetimes a consent or a mandate may be given
          CHALLENGE_TTL, REFERENCE_TTL,
          AuthorityLimit,       \* the principal a consent or mandate allows
          MaxLag                \* bound: how far a command's clock may lag

VARIABLES subjects,             \* subjects[s]: the status of the subject
          consents,             \* consents[s]: its consent record
          identityReferences,   \* identityReferences[s]: for that consent
          mandates,             \* mandates[s]: its mandate
          challenges,           \* challenges[s]: its last account challenge
          accountBindings,      \* accountBindings[a]: who proved account a
          riskState             \* riskState[s]: adverse obligations, frozen lines

authorityVars == <<subjects, consents, identityReferences, mandates,
                   challenges, accountBindings, riskState>>

None == [status |-> "none"]

AuthorityInit ==
  /\ subjects = [s \in Subjects |-> "none"]
  /\ consents = [s \in Subjects |-> None]
  /\ identityReferences = [s \in Subjects |-> None]
  /\ mandates = [s \in Subjects |-> None]
  /\ challenges = [s \in Subjects |-> None]
  /\ accountBindings = [a \in Accounts |-> None]
  /\ riskState = [s \in Subjects |-> "clear"]

\* The clocks a command running now may have been admitted at.
admitted == {t \in 0..now : now - t <= MaxLag}

\* An upsert: the row is new, or only its mutable columns differ.
upsert(old, new, mutable) ==
  old = None \/ \A f \in DOMAIN old \ mutable : new[f] = old[f]

within(record, at) == record.validFrom <= at /\ at < record.expiresAt

-----------------------------------------------------------------------------
\* Subjects.

createSubject(s) == subjects[s] = "none" /\ subjects' = [subjects EXCEPT ![s] = "pending"]

SubjectTransitions ==
  {<<"pending", "active">>, <<"pending", "suspended">>, <<"pending", "closed">>,
   <<"active", "suspended">>, <<"active", "closed">>,
   <<"suspended", "active">>, <<"suspended", "closed">>}

writeSubject(s, status) == subjects' = [subjects EXCEPT ![s] = status]

activateSubject(s) ==
  <<subjects[s], "active">> \in SubjectTransitions /\ writeSubject(s, "active")

createHumanSubject(s) ==
  /\ subjectType[s] = "human"
  /\ createSubject(s)
  /\ UNCHANGED <<consents, identityReferences, mandates, challenges,
                 accountBindings, riskState, callVars>>

createAgentSubject(s) ==
  /\ subjectType[s] = "agent"
  /\ createSubject(s)
  /\ UNCHANGED <<consents, identityReferences, mandates, challenges,
                 accountBindings, riskState, callVars>>

-----------------------------------------------------------------------------
\* Consent and identity of a Human.

decisionPurposes == {"identity_reference_use", "credit_decision"}

allPurposes == {"credit_application", "credit_offer_acceptance",
                "obligation_servicing"}
               \cup decisionPurposes

createConsentRecord(purposes, term, at) ==
  [status |-> "active", purposes |-> purposes, limit |-> AuthorityLimit,
   validFrom |-> at, expiresAt |-> at + term]

revokeConsentRecord(consent) == [consent EXCEPT !.status = "revoked"]

writeConsentRecord(s, value) ==
  /\ upsert(consents[s], value, {"status"})
  /\ consents' = [consents EXCEPT ![s] = value]

assertHumanSubject(s) ==
  subjectType[s] = "human" /\ subjects[s] \in {"pending", "active"}

createConsent(s) ==
  /\ assertHumanSubject(s)
  /\ consents[s] = None
  /\ \E at \in admitted, term \in Terms,
        purposes \in {allPurposes, {"credit_application"}} :
       writeConsentRecord(s, createConsentRecord(purposes, term, at))
  /\ UNCHANGED <<subjects, identityReferences, mandates, challenges,
                 accountBindings, riskState, callVars>>

revokeConsent(s) ==
  /\ consents[s].status = "active"
  /\ writeConsentRecord(s, revokeConsentRecord(consents[s]))
  /\ UNCHANGED <<subjects, identityReferences, mandates, challenges,
                 accountBindings, riskState, callVars>>

\* An active consent in its window covers the reference's purposes.
assertConsentForIdentityReference(s, purposeCodes, at) ==
  /\ consents[s].status = "active"
  /\ purposeCodes \cup {"identity_reference_use"} \subseteq consents[s].purposes
  /\ within(consents[s], at)

createHumanIdentityReference(s, at) ==
  [status |-> "active", validFrom |-> at,
   expiresAt |-> Min({consents[s].expiresAt, at + REFERENCE_TTL})]

\* The synthetic provider: one reference for a consent, by the database's clock.
ensureIdentityReference(s) ==
  /\ identityReferences[s] = None
  /\ assertConsentForIdentityReference(s, decisionPurposes
                                          \cup {"credit_offer_acceptance"}, now)
  /\ identityReferences' =
       [identityReferences EXCEPT ![s] = createHumanIdentityReference(s, now)]
  /\ UNCHANGED <<subjects, consents, mandates, challenges, accountBindings,
                 riskState, callVars>>

assertHumanIdentityReferenceUsable(s, purposeCode, at) ==
  /\ identityReferences[s].status = "active"
  /\ within(identityReferences[s], at)
  /\ assertConsentForIdentityReference(s, {purposeCode}, at)

activateSandboxHumanSubject(s) ==
  /\ subjectType[s] = "human" /\ subjects[s] = "pending"
  /\ \E at \in admitted :
       /\ consents[s].status = "active" /\ within(consents[s], at)
       /\ decisionPurposes \subseteq consents[s].purposes
       /\ identityReferences[s].status = "active"
       /\ within(identityReferences[s], at)
  /\ riskState[s] = "clear"
  /\ activateSubject(s)
  /\ UNCHANGED <<consents, identityReferences, mandates, challenges,
                 accountBindings, riskState, callVars>>

-----------------------------------------------------------------------------
\* Mandate of an Agent.

activationCapabilities == {"request_credit", "accept_credit_offer",
                           "execute_sandbox_credit"}

createMandate(capabilities, term, at) ==
  [status |-> "draft", capabilities |-> capabilities, limit |-> AuthorityLimit,
   validFrom |-> at, expiresAt |-> at + term, updatedAt |-> at]

MandateTransitions ==
  {<<"draft", "active">>, <<"draft", "revoked">>, <<"draft", "expired">>,
   <<"active", "suspended">>, <<"active", "revoked">>, <<"active", "expired">>,
   <<"suspended", "active">>, <<"suspended", "revoked">>,
   <<"suspended", "expired">>}

\* The hash a row keeps is over every term of the mandate.
writeMandate(s, value) ==
  /\ upsert(mandates[s], value, {"status", "updatedAt"})
  /\ mandates' = [mandates EXCEPT ![s] = value]

createDraftMandate(s) ==
  /\ subjectType[s] = "agent" /\ subjects[s] \in {"pending", "active"}
  /\ mandates[s] = None
  /\ \E at \in admitted, term \in Terms,
        capabilities \in {activationCapabilities, {"request_credit"}} :
       writeMandate(s, createMandate(capabilities, term, at))
  /\ UNCHANGED <<subjects, consents, identityReferences, challenges,
                 accountBindings, riskState, callVars>>

revokeDraftMandate(s) ==
  /\ <<mandates[s].status, "revoked">> \in MandateTransitions
  /\ \E at \in admitted :
       writeMandate(s, [mandates[s] EXCEPT !.status = "revoked", !.updatedAt = at])
  /\ UNCHANGED <<subjects, consents, identityReferences, challenges,
                 accountBindings, riskState, callVars>>

\* The mandate may be newer than the command's clock.
effectiveMandateTime(s, at) == Max({at, mandates[s].validFrom, mandates[s].updatedAt})

activateMandate(mandate, at) ==
  [mandate EXCEPT !.status = "active", !.updatedAt = at]

activateSandboxMandate(s) ==
  /\ mandates[s].status = "draft"
  /\ subjects[s] = "active"
  /\ activationCapabilities \subseteq mandates[s].capabilities
  /\ \E at \in {effectiveMandateTime(s, t) : t \in admitted} :
       /\ within(mandates[s], at)
       /\ writeMandate(s, activateMandate(mandates[s], at))
  /\ UNCHANGED <<subjects, consents, identityReferences, challenges,
                 accountBindings, riskState, callVars>>

-----------------------------------------------------------------------------
\* Account proofs.

createAgentAccountChallenge(a, at) ==
  [status |-> "pending", kind |-> "agent", account |-> a,
   expiresAt |-> at + CHALLENGE_TTL]

createExecutionAccountBindingChallenge(a, at) ==
  [createAgentAccountChallenge(a, at) EXCEPT !.kind = "execution"]

\* A pending challenge gives way to a new one only once it has expired.
expireAgentAccountChallenge(s, at) ==
  challenges[s].status = "pending" => challenges[s].expiresAt <= at

consumeAgentAccountChallenge(s, at) ==
  /\ challenges[s].status = "pending" /\ challenges[s].kind = "agent"
  /\ at < challenges[s].expiresAt
  /\ challenges' = [challenges EXCEPT ![s].status = "consumed"]

consumeExecutionAccountBindingChallenge(s, at) ==
  /\ challenges[s].status = "pending" /\ challenges[s].kind = "execution"
  /\ at < challenges[s].expiresAt
  /\ challenges' = [challenges EXCEPT ![s].status = "consumed"]

\* The signature is of the challenge's account, and the challenge current.
verifyAccountProof(s, a, at) ==
  challenges[s].account = a /\ at < challenges[s].expiresAt

writeChallenge(s, value) == challenges' = [challenges EXCEPT ![s] = value]

\* An account is bound once, whoever proves it and whatever became of it.
findAccountBindingByHash(a) == accountBindings[a] # None

writeAccountBinding(a, value) ==
  /\ upsert(accountBindings[a], value, {"status"})
  /\ accountBindings' = [accountBindings EXCEPT ![a] = value]

createVerifiedAgentAccountBinding(s) ==
  [status |-> "active", subject |-> s, kind |-> "agent"]

createVerifiedExecutionAccountBinding(s) ==
  [status |-> "active", subject |-> s, kind |-> "execution"]

createAgentAccountChallengeCommand(s) ==
  /\ subjectType[s] = "agent" /\ subjects[s] = "pending"
  /\ \E at \in admitted, a \in Accounts :
       /\ expireAgentAccountChallenge(s, at)
       /\ writeChallenge(s, createAgentAccountChallenge(a, at))
  /\ UNCHANGED <<subjects, consents, identityReferences, mandates,
                 accountBindings, riskState, callVars>>

submitAgentAccountProof(s) ==
  /\ subjectType[s] = "agent" /\ subjects[s] = "pending"
  /\ \E at \in admitted, a \in Accounts :
       /\ consumeAgentAccountChallenge(s, at)
       /\ verifyAccountProof(s, a, at)
       /\ ~findAccountBindingByHash(a)
       /\ writeAccountBinding(a, createVerifiedAgentAccountBinding(s))
  /\ activateSubject(s)
  /\ UNCHANGED <<consents, identityReferences, mandates, riskState, callVars>>

activeSubjectState(s) == subjects[s] = "active"

prepareExecutionAccountBinding(s) ==
  /\ activeSubjectState(s)
  /\ \E at \in admitted, a \in Accounts :
       /\ expireAgentAccountChallenge(s, at)
       /\ writeChallenge(s, createExecutionAccountBindingChallenge(a, at))
  /\ UNCHANGED <<subjects, consents, identityReferences, mandates,
                 accountBindings, riskState, callVars>>

submitExecutionAccountBinding(s) ==
  /\ activeSubjectState(s)
  /\ \E at \in admitted, a \in Accounts :
       /\ consumeExecutionAccountBindingChallenge(s, at)
       /\ verifyAccountProof(s, a, at)
       /\ ~findAccountBindingByHash(a)
       /\ writeAccountBinding(a, createVerifiedExecutionAccountBinding(s))
  /\ UNCHANGED <<subjects, consents, identityReferences, mandates, riskState,
                 callVars>>

revokeExecutionAccountBinding(s) ==
  /\ activeSubjectState(s)
  /\ \E a \in Accounts :
       /\ accountBindings[a] = createVerifiedExecutionAccountBinding(s)
       /\ writeAccountBinding(a, [accountBindings[a] EXCEPT !.status = "revoked"])
  /\ UNCHANGED <<subjects, consents, identityReferences, mandates, challenges,
                 riskState, callVars>>

\* Servicing marks an obligation of the subject adverse, or freezes its line.
riskStateChanges(s) ==
  /\ riskState[s] = "clear" /\ subjects[s] # "none"
  /\ \E r \in {"adverse", "frozen"} : riskState' = [riskState EXCEPT ![s] = r]
  /\ UNCHANGED <<subjects, consents, identityReferences, mandates, challenges,
                 accountBindings, callVars>>

AuthorityNext(s) ==
  \/ createHumanSubject(s) \/ createAgentSubject(s)
  \/ createConsent(s) \/ revokeConsent(s) \/ ensureIdentityReference(s)
  \/ activateSandboxHumanSubject(s)
  \/ createDraftMandate(s) \/ revokeDraftMandate(s) \/ activateSandboxMandate(s)
  \/ createAgentAccountChallengeCommand(s) \/ submitAgentAccountProof(s)
  \/ riskStateChanges(s)

\* Execution accounts grant no credit authority, so they are checked apart.
ExecutionAccountNext(s) ==
  \/ prepareExecutionAccountBinding(s) \/ submitExecutionAccountBinding(s)
  \/ revokeExecutionAccountBinding(s)
=============================================================================
