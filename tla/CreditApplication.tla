------------------------- MODULE CreditApplication --------------------------
(***************************************************************************)
(* From a borrower's authority to an obligation: the credit intent, its    *)
(* risk decision and preliminary offer, the credit passport a borrower     *)
(* shows a capital partner, the partner's own offer in place of the        *)
(* preliminary one, and the acceptance that creates the obligation.        *)
(***************************************************************************)
EXTENDS BorrowerAuthority

CONSTANTS Intents,
          Principals,           \* amounts a borrower may ask for
          PartnerPrincipals,    \* amounts a capital partner may offer
          maxPrincipal,         \* the policy's largest principal
          OFFER_VALIDITY,
          PASSPORT_LIFETIME,
          CONFIRMATION_TTL,
          MaxPassportVersion    \* bound: versions of one passport

VARIABLES intents,              \* intents[i]: what was asked, by whom
          decisions,            \* decisions[i]: the risk decision's status
          passports,            \* passports[i]: the artifact shown to the partner
          offers,               \* offers[i]["v1"], offers[i]["v2"]
          obligations           \* obligations[i]: what acceptance created

applicationVars == <<intents, decisions, passports, offers, obligations>>

OfferVersions == {"v1", "v2"}

ApplicationInit ==
  /\ intents = [i \in Intents |-> None]
  /\ decisions = [i \in Intents |-> "none"]
  /\ passports = [i \in Intents |-> None]
  /\ offers = [i \in Intents |-> [v \in OfferVersions |-> None]]
  /\ obligations = [i \in Intents |-> None]

-----------------------------------------------------------------------------
\* The application.

assertMandateAuthorizesCreditIntent(s, principal, at) ==
  /\ mandates[s].status = "draft" /\ within(mandates[s], at)
  /\ "request_credit" \in mandates[s].capabilities
  /\ principal <= mandates[s].limit

assertConsentAuthorizesCreditIntent(s, principal, at) ==
  /\ consents[s].status = "active" /\ within(consents[s], at)
  /\ "credit_application" \in consents[s].purposes
  /\ principal <= consents[s].limit

resolveCreditIntentAuthority(s, principal, at) ==
  /\ subjects[s] \in {"pending", "active"}
  /\ IF subjectType[s] = "human"
       THEN assertConsentAuthorizesCreditIntent(s, principal, at)
       ELSE assertMandateAuthorizesCreditIntent(s, principal, at)
  /\ riskState[s] = "clear"

createCreditIntent(s, principal) ==
  [status |-> "submitted", subject |-> s, principal |-> principal]

writeCreditIntent(i, value) ==
  /\ upsert(intents[i], value, {"status"})
  /\ intents' = [intents EXCEPT ![i] = value]

requestCreditIntent(s, i) ==
  /\ intents[i] = None
  /\ \E at \in admitted, principal \in Principals :
       /\ resolveCreditIntentAuthority(s, principal, at)
       /\ writeCreditIntent(i, createCreditIntent(s, principal))
  /\ UNCHANGED <<decisions, passports, offers, obligations, authorityVars, callVars>>

-----------------------------------------------------------------------------
\* The decision.

deriveSandboxCreditPolicyDenial(i) == intents[i].principal > maxPrincipal

assertHumanDecisionConsentPurposes(s) == decisionPurposes \subseteq consents[s].purposes

\* The consent still covers the application, and one reference its decision.
evaluateHumanAuthority(i, at) ==
  LET s == intents[i].subject IN
  /\ assertConsentAuthorizesCreditIntent(s, intents[i].principal, at)
  /\ assertHumanDecisionConsentPurposes(s)
  /\ assertHumanIdentityReferenceUsable(s, "credit_decision", at)

loadDecisionEligibility(i, at) ==
  LET s == intents[i].subject IN
  /\ ~deriveSandboxCreditPolicyDenial(i)
  /\ IF subjectType[s] = "human"
       THEN evaluateHumanAuthority(i, at)
       ELSE assertMandateAuthorizesCreditIntent(s, intents[i].principal, at)
  /\ riskState[s] = "clear"

\* A frozen line makes any denial a freeze.
createDeterministicCreditDecisionOutcome(i, at) ==
  CASE riskState[intents[i].subject] = "frozen" -> "frozen"
    [] loadDecisionEligibility(i, at) -> "approved"
    [] OTHER -> "rejected"

createCreditOffer(i, at) ==
  [status |-> "offered", principal |-> intents[i].principal,
   createdAt |-> at, updatedAt |-> at, validUntil |-> at + OFFER_VALIDITY]

writeRiskDecision(i, status) ==
  decisions[i] = "none" /\ decisions' = [decisions EXCEPT ![i] = status]

writeCreditOffer(old, new) == upsert(old, new, {"status", "updatedAt"})

undecided(i) ==
  intents[i].status = "submitted" /\ decisions[i] = "none" /\ offers[i]["v1"] = None

evaluateCreditApplication(i) ==
  /\ undecided(i)
  /\ writeCreditIntent(i, [intents[i] EXCEPT !.status = "decided"])
  /\ \E at \in admitted :
       LET status == createDeterministicCreditDecisionOutcome(i, at)
       IN  /\ writeRiskDecision(i, status)
           /\ IF status = "approved"
                THEN /\ writeCreditOffer(offers[i]["v1"], createCreditOffer(i, at))
                     /\ offers' = [offers EXCEPT ![i]["v1"] = createCreditOffer(i, at)]
                ELSE UNCHANGED offers
  /\ UNCHANGED <<passports, obligations, authorityVars, callVars>>

-----------------------------------------------------------------------------
\* The credit passport.

createCreditPassportArtifact(version, at) ==
  [status |-> "active", version |-> version, expiresAt |-> at + PASSPORT_LIFETIME]

revokeCreditPassportArtifact(artifact) ==
  [artifact EXCEPT !.status = "revoked", !.version = @ + 1]

\* The version that was shown is the current one, not revoked and not expired.
verifyCreditPassportArtifact(i, version, at) ==
  /\ passports[i].status = "active" /\ passports[i].version = version
  /\ at < passports[i].expiresAt

writeCreditPassportArtifact(i, value) ==
  /\ passports[i] # None => value.version = passports[i].version + 1
  /\ passports' = [passports EXCEPT ![i] = value]

\* A new artifact supersedes an active one and never follows a revoked one.
mayIssuePassport(i) ==
  decisions[i] # "none" /\ passports[i].status \in {"none", "active"}

createCreditPassport(i) ==
  /\ mayIssuePassport(i)
  /\ \E at \in admitted, version \in 1..MaxPassportVersion :
       /\ passports[i] = None <=> version = 1
       /\ writeCreditPassportArtifact(i, createCreditPassportArtifact(version, at))
  /\ UNCHANGED <<intents, decisions, offers, obligations, authorityVars, callVars>>

revokeCreditPassport(i) ==
  /\ passports[i].status = "active"
  /\ writeCreditPassportArtifact(i, revokeCreditPassportArtifact(passports[i]))
  /\ UNCHANGED <<intents, decisions, offers, obligations, authorityVars, callVars>>

-----------------------------------------------------------------------------
\* The capital partner.

\* The time of a change to an offer is after the change before it.
monotonicOfferMutationTime(offer, at) ==
  IF offer = None THEN at
  ELSE Max({at, offer.createdAt + 1, offer.updatedAt + 1})

\* The partner reads the artifact by the version it was shown.
loadPassport(i, at) == passports[i] # None /\ verifyCreditPassportArtifact(i, passports[i].version, at)

assertPassportUnderwritingChain(i) ==
  intents[i].status = "decided" /\ decisions[i] = "approved"

createCapitalPartnerCreditOffer(i, principal, irrevocable, at) ==
  [status |-> "offered", principal |-> principal, createdAt |-> at,
   updatedAt |-> at, validUntil |-> at + OFFER_VALIDITY,
   irrevocable |-> irrevocable, passportVersion |-> passports[i].version]

\* The offer an intent shows: the partner's before the preliminary one.
findCreditOfferByIntent(i) == IF offers[i]["v2"] # None THEN "v2" ELSE "v1"

\* Only a preliminary offer still open is replaced.
mayAuthorOffer(i, at) ==
  /\ loadPassport(i, at)
  /\ findCreditOfferByIntent(i) = "v1" /\ offers[i]["v1"].status = "offered"

\* The preliminary offer is declined and the partner's made in one transaction.
authorCapitalPartnerOffer(i) ==
  /\ assertPassportUnderwritingChain(i)
  /\ \E at \in admitted, principal \in PartnerPrincipals,
        irrevocable \in BOOLEAN :
       LET mutationNow == monotonicOfferMutationTime(offers[i]["v1"], at)
       IN  /\ mayAuthorOffer(i, at) /\ principal <= intents[i].principal
           /\ offers' = [offers EXCEPT
                ![i]["v1"].status = "declined", ![i]["v1"].updatedAt = mutationNow,
                ![i]["v2"] = createCapitalPartnerCreditOffer(i, principal,
                                                             irrevocable, mutationNow)]
  /\ UNCHANGED <<intents, decisions, passports, obligations, authorityVars, callVars>>

\* Only an offer past its validity expires, and it can do nothing else.
transitionCapitalPartnerCreditOffer(offer, nextStatus, at) ==
  /\ offer.status = "offered"
  /\ ~(nextStatus = "withdrawn" /\ offer.irrevocable)
  /\ nextStatus = "expired" <=> offer.validUntil <= at

\* A second partner offer for an intent is a conflict, so nothing supersedes.
transitionCapitalPartnerOffer(i) ==
  /\ offers[i]["v2"] # None
  /\ \E at \in admitted, nextStatus \in {"withdrawn", "expired"} :
       LET mutationNow == monotonicOfferMutationTime(offers[i]["v2"], at)
       IN  /\ transitionCapitalPartnerCreditOffer(offers[i]["v2"], nextStatus, mutationNow)
           /\ offers' = [offers EXCEPT ![i]["v2"].status = nextStatus,
                                       ![i]["v2"].updatedAt = mutationNow]
  /\ UNCHANGED <<intents, decisions, passports, obligations, authorityVars, callVars>>

-----------------------------------------------------------------------------
\* Acceptance.

AcceptedAtAdmission(offer, at) == at

\* The offer may have been changed after this command was admitted.
acceptanceTime(offer, at) == Max({at, offer.createdAt, offer.updatedAt})

\* A person confirms within a window; an agent by its authenticated request.
normalizeEconomicActionConfirmation(s, at) ==
  subjectType[s] = "human" => \E requestedAt \in 0..now : at <= requestedAt + CONFIRMATION_TTL

assertOfferChain(i) == intents[i].status = "decided" /\ decisions[i] = "approved"

assertConsentAuthorizesCreditOfferAcceptance(s, principal, at) ==
  /\ consents[s].status = "active" /\ within(consents[s], at)
  /\ allPurposes \subseteq consents[s].purposes
  /\ principal <= consents[s].limit

assertMandateAuthorizesCreditOfferAcceptance(s, principal, at) ==
  /\ mandates[s].status = "active" /\ within(mandates[s], at)
  /\ {"request_credit", "accept_credit_offer"} \subseteq mandates[s].capabilities
  /\ principal <= mandates[s].limit

assertHumanIdentityEvidence(s, at) ==
  assertHumanIdentityReferenceUsable(s, "credit_offer_acceptance", at)

acceptanceAuthorized(s, principal, at) ==
  IF subjectType[s] = "human"
    THEN /\ subjects[s] \in {"pending", "active"}
         /\ assertConsentAuthorizesCreditOfferAcceptance(s, principal, at)
         /\ assertHumanIdentityEvidence(s, at)
    ELSE /\ subjects[s] = "active"
         /\ assertMandateAuthorizesCreditOfferAcceptance(s, principal, at)

acceptCreditOffer(offer, at) == [offer EXCEPT !.status = "accepted", !.updatedAt = at]

createAcceptedOfferObligation(i, v, at) ==
  [status |-> "created", offer |-> v, principal |-> offers[i][v].principal,
   subject |-> intents[i].subject, acceptedAt |-> at]

writeSharedObligation(i, value) ==
  obligations[i] = None /\ obligations' = [obligations EXCEPT ![i] = value]

offerAvailable(offer, at) == offer.status = "offered" /\ at < offer.validUntil

\* The partner's offer holds while the passport it was written on does.
underwritingCurrent(i, v, at) ==
  v = "v2" => verifyCreditPassportArtifact(i, offers[i][v].passportVersion, at)

acceptCreditOfferCommand(i, v) ==
  /\ offers[i][v] # None
  /\ \E at \in {acceptanceTime(offers[i][v], t) : t \in admitted} :
       LET s == intents[i].subject IN
       /\ offerAvailable(offers[i][v], at)
       /\ normalizeEconomicActionConfirmation(s, at)
       /\ assertOfferChain(i)
       /\ underwritingCurrent(i, v, at)
       /\ acceptanceAuthorized(s, offers[i][v].principal, at)
       /\ riskState[s] = "clear"
       /\ writeCreditOffer(offers[i][v], acceptCreditOffer(offers[i][v], at))
       /\ offers' = [offers EXCEPT ![i][v] = acceptCreditOffer(@, at)]
       /\ writeSharedObligation(i, createAcceptedOfferObligation(i, v, at))
  /\ UNCHANGED <<intents, decisions, passports, authorityVars, callVars>>

-----------------------------------------------------------------------------
ApplicationNext(s) ==
  \/ /\ AuthorityNext(s) \/ (Tick /\ UNCHANGED authorityVars)
     /\ UNCHANGED applicationVars
  \/ \E i \in Intents :
       \/ requestCreditIntent(s, i) \/ evaluateCreditApplication(i)
       \/ createCreditPassport(i) \/ revokeCreditPassport(i)
       \/ authorCapitalPartnerOffer(i) \/ transitionCapitalPartnerOffer(i)
       \/ \E v \in OfferVersions : acceptCreditOfferCommand(i, v)

(***************************************************************************)
(* An obligation stands on an approved decision and on exactly one         *)
(* accepted offer, no other offer of its intent can still be accepted, and *)
(* the acceptance is dated between the offer's creation and its end,       *)
(* however late the accepting command's clock was.  An agent that owes has *)
(* proven an account.                                                      *)
(***************************************************************************)
ObligationBacked ==
  \A i \in Intents :
    /\ Cardinality({v \in OfferVersions :
                      offers[i][v].status \in {"offered", "accepted"}}) <= 1
    /\ obligations[i] # None =>
         LET o == obligations[i]
             offer == offers[i][o.offer]
         IN  /\ offer.status = "accepted" /\ decisions[i] = "approved"
             /\ o.principal = offer.principal /\ o.principal <= intents[i].principal
             /\ offer.createdAt <= o.acceptedAt /\ o.acceptedAt < offer.validUntil
             /\ subjectType[o.subject] = "agent" =>
                  \E a \in Accounts :
                    accountBindings[a] = createVerifiedAgentAccountBinding(o.subject)
=============================================================================
