--------------------------- MODULE TradingFacility ---------------------------
(***************************************************************************)
(* The canonical Trading Facility of the local sandbox: created from a     *)
(* bilaterally accepted proposal and an existing Obligation, funded by     *)
(* both sides, activated, traded (order intents), risk-evaluated, paused,  *)
(* flattened, closed, settled and evidenced by a Performance Proof.        *)
(*                                                                         *)
(* A Tenant command names the facility version it was computed from; its   *)
(* handler locks the row, refuses another version and commits the new row  *)
(* with that expected version.  A command with a stale version therefore   *)
(* changes nothing, and one with the current version is one atomic action. *)
(*                                                                         *)
(* Time is abstracted to what the code compares it with: `lapsed' (the     *)
(* proposal, and with it the activation deadline), `matured' (maturityAt)  *)
(* and `aged' (the risk observation is older than five minutes).           *)
(***************************************************************************)
EXTENDS TradingMatching, FiniteSets, FiniteSetsExt

CONSTANTS Principal,          \* proposal.terms.syntheticPrincipalMinor
          Orders,             \* order intents that may be submitted
          Notionals,          \* the notionals a Subject asks for
          MAX_OPEN_ORDERS,    \* 20 in the code
          MaxReviews,         \* bound: risk evaluations and pauses
          MaxLedger           \* bound: postings of other commands

ASSUME FacilityAssumption ==
  /\ Principal \in Nat \ {0}
  /\ Notionals \subseteq Nat \ {0}
  /\ MAX_OPEN_ORDERS \in Nat
  /\ MaxReviews \in Nat /\ MaxLedger \in Nat

VARIABLES facility,         \* the row of trading_facilities
          orderIntent,      \* the rows of trading_order_intents
          obligation,       \* the canonical Obligation (another component)
          ledger,           \* transactions on the canonical Ledger
          closeRequest,     \* the facility version a close request is bound to
          settlement,       \* versions before and after the local settlement
          proof,            \* whether the Performance Proof was issued
          matured,          \* maturityAt has passed
          aged,             \* the risk observation is stale
          reviews           \* evaluations and pauses so far

facilityVars == <<facility, orderIntent, obligation, ledger, closeRequest, settlement,
                  proof, matured, aged, reviews>>

LifecycleStatuses == {"none", "awaiting_contributions",
                      "awaiting_subject_collateral",
                      "awaiting_provider_funding", "ready_for_activation",
                      "active", "flattened"}

RISK_STATE_ORDER == <<"NORMAL", "WARNING", "REDUCE_ONLY", "FLATTEN",
                      "SETTLEMENT">>

riskStateRank(state) ==
  CHOOSE i \in DOMAIN RISK_STATE_ORDER : RISK_STATE_ORDER[i] = state

LatestRiskState(left, right) == right

mostRestrictiveRiskState(left, right) ==
  IF riskStateRank(left) >= riskStateRank(right) THEN left ELSE right

\* A tenth of the principal, and at least one minor unit.
requiredSubjectCollateral ==
  IF (Principal * 1000) \div 10000 > 0 THEN (Principal * 1000) \div 10000
  ELSE 1

requiredProviderFunding == Principal

NoFacility ==
  [mandate |-> "none", lifecycle |-> "none", risk |-> "NORMAL",
   subjectCollateral |-> 0, providerFunding |-> 0, capital |-> 0,
   exposure |-> 0, equity |-> 0, openOrderCount |-> 0, version |-> 0]

NoOrder == [status |-> "none", notional |-> 0]

OpenOrders == {o \in Orders : orderIntent[o].status = "open"}

\* Sum of the notionals of a set of orders.
notionalOf(os) == MapThenSumSet(LAMBDA o : orderIntent[o].notional, os)

FacilityTypeOK ==
  /\ facility \in [mandate : Mandates \cup {"none"},
                   lifecycle : LifecycleStatuses,
                   risk : {RISK_STATE_ORDER[i] : i \in 1..5},
                   subjectCollateral : {0, requiredSubjectCollateral},
                   providerFunding : {0, Principal},
                   capital : Nat, exposure : Nat, equity : Nat,
                   openOrderCount : 0..MAX_OPEN_ORDERS, version : Nat]
  /\ orderIntent \in [Orders ->
       [status : {"none", "open", "canceled", "flattened"},
        notional : {0} \cup Notionals]]
  /\ obligation \in {"approved", "executed"}
  /\ ledger \in Nat
  /\ closeRequest \in Nat
  /\ settlement \in [before : Nat, after : Nat]
  /\ proof \in BOOLEAN /\ matured \in BOOLEAN /\ aged \in BOOLEAN
  /\ reviews \in 0..MaxReviews

FacilityInit ==
  /\ facility = NoFacility
  /\ orderIntent = [o \in Orders |-> NoOrder]
  /\ obligation = "approved"
  /\ ledger = 0
  /\ closeRequest = 0
  /\ settlement = [before |-> 0, after |-> 0]
  /\ proof = FALSE /\ matured = FALSE /\ aged = FALSE
  /\ reviews = 0

-----------------------------------------------------------------------------
\* Pure functions of the domain module: the next facility row.

facilityLifecycle(subjectRecorded, providerRecorded) ==
  IF subjectRecorded /\ providerRecorded THEN "ready_for_activation"
  ELSE IF subjectRecorded THEN "awaiting_provider_funding"
  ELSE IF providerRecorded THEN "awaiting_subject_collateral"
  ELSE "awaiting_contributions"

\* Applies the changes, the next version; the caller refreshes the observation.
updateFacilityState(f, changes) ==
  [k \in DOMAIN f |->
     IF k = "version" THEN f.version + 1
     ELSE IF k \in DOMAIN changes THEN changes[k] ELSE f[k]]

\* Every update rewrites the row and stamps a fresh risk observation.
commitFacility(changes) ==
  /\ facility' = updateFacilityState(facility, changes)
  /\ aged' = FALSE

assertFacilityActivationOpen(f) == ~proposalLapsed(f.mandate)

assertFacilityMaturityOpen == ~matured

assertBilateralProposal(m) ==
  proposal[m].status = "bilaterally_accepted" /\ proposal[m].version = 3

\* A facility is created over an Obligation in any state of execution.
assertCanonicalObligation(requireExecuted) ==
  requireExecuted => obligation = "executed"

riskTarget(f) ==
  LET utilizationBps == (f.exposure * 10000) \div f.capital
  IN  IF aged \/ f.capital <= 0 THEN "REDUCE_ONLY"
      ELSE IF utilizationBps >= 10000 THEN "FLATTEN"
      ELSE IF utilizationBps > 7500 THEN "REDUCE_ONLY"
      ELSE IF utilizationBps > 5000 THEN "WARNING"
      ELSE "NORMAL"

noExposure(f) ==
  f.openOrderCount = 0 /\ f.exposure = 0 /\ f.equity = f.capital

-----------------------------------------------------------------------------
\* Tenant commands.  What the domain module decides and computes is an operator
\* of its own; the handler loads and locks the rows, and commits.

\* The row the command names exists.
loadState == facility.lifecycle # "none"

createTradingFacility(m) ==
  /\ assertBilateralProposal(m)
  /\ ~proposalLapsed(m)
  /\ assertCanonicalObligation(FALSE)
  /\ facility' = [NoFacility EXCEPT !.mandate = m, !.version = 1,
                                    !.lifecycle = "awaiting_contributions"]
  /\ aged' = FALSE

\* One facility per proposal and per Obligation.
createTradingFacilityHandler(m) ==
  /\ facility = NoFacility
  /\ createTradingFacility(m)
  /\ UNCHANGED <<orderIntent, obligation, ledger, closeRequest, settlement,
                 proof, matured, reviews, matchingVars>>

contributionOpen ==
  /\ facility.lifecycle \notin {"active", "flattened"}
  /\ assertFacilityActivationOpen(facility)

contributeTradingSubjectCollateral ==
  LET total == requiredSubjectCollateral + facility.providerFunding
  IN  /\ contributionOpen
      /\ facility.subjectCollateral = 0
      /\ commitFacility(
           [subjectCollateral |-> requiredSubjectCollateral,
            capital |-> total, equity |-> total,
            lifecycle |-> facilityLifecycle(TRUE, facility.providerFunding > 0)])

recordTradingProviderFunding ==
  LET total == requiredProviderFunding + facility.subjectCollateral
  IN  /\ contributionOpen
      /\ facility.providerFunding = 0
      /\ commitFacility(
           [providerFunding |-> requiredProviderFunding,
            capital |-> total, equity |-> total,
            lifecycle |-> facilityLifecycle(facility.subjectCollateral > 0, TRUE)])

\* Both contribution commands.
contributionHandler(contribute) ==
  /\ loadState
  /\ contribute
  /\ UNCHANGED <<orderIntent, obligation, ledger, closeRequest, settlement,
                 proof, matured, reviews, matchingVars>>

\* What activateTradingFacility asks of a facility row f.
activationAdmitted(f) ==
  /\ assertFacilityActivationOpen(f)
  /\ assertBilateralProposal(f.mandate)
  /\ assertCanonicalObligation(TRUE)
  /\ f.lifecycle = "ready_for_activation"
  /\ f.subjectCollateral = requiredSubjectCollateral
  /\ f.providerFunding = requiredProviderFunding

activationChanges == [lifecycle |-> "active", risk |-> "NORMAL"]

activateTradingFacility ==
  /\ activationAdmitted(facility)
  /\ commitFacility(activationChanges)

activateTradingFacilityHandler ==
  /\ loadState
  /\ activateTradingFacility
  /\ UNCHANGED <<orderIntent, obligation, ledger, closeRequest, settlement,
                 proof, matured, reviews, matchingVars>>

submitTradingOrderIntent(o, notional) ==
  LET exposure == facility.exposure + notional
  IN  /\ facility.lifecycle = "active"
      /\ assertFacilityMaturityOpen
      /\ facility.risk \in {"NORMAL", "WARNING"}
      /\ facility.openOrderCount < MAX_OPEN_ORDERS
      /\ notional <= facility.equity
      /\ orderIntent' = [orderIntent EXCEPT ![o] =
                           [status |-> "open", notional |-> notional]]
      /\ commitFacility([exposure |-> exposure,
                         equity |-> facility.capital - exposure,
                         openOrderCount |-> facility.openOrderCount + 1])

submitTradingOrderIntentHandler(o, notional) ==
  /\ loadState
  /\ orderIntent[o] = NoOrder
  /\ submitTradingOrderIntent(o, notional)
  /\ UNCHANGED <<obligation, ledger, closeRequest, settlement, proof, matured,
                 reviews, matchingVars>>

CancelKeepsExposure(o) ==
  /\ orderIntent[o].status = "open"
  /\ orderIntent' = [orderIntent EXCEPT ![o].status = "canceled"]
  /\ commitFacility([openOrderCount |-> facility.openOrderCount - 1])

\* No lifecycle or risk state forbids a cancel.
cancelTradingOrderIntent(o) ==
  LET exposure == facility.exposure - orderIntent[o].notional
  IN  /\ orderIntent[o].status = "open"
      /\ exposure >= 0
      /\ orderIntent' = [orderIntent EXCEPT ![o].status = "canceled"]
      /\ commitFacility([exposure |-> exposure,
                         equity |-> facility.capital - exposure,
                         openOrderCount |-> facility.openOrderCount - 1])

cancelTradingOrderIntentHandler(o) ==
  /\ cancelTradingOrderIntent(o)
  /\ UNCHANGED <<obligation, ledger, closeRequest, settlement, proof, matured,
                 reviews, matchingVars>>

evaluateTradingFacilityRisk ==
  /\ facility.lifecycle = "active"
  /\ commitFacility([risk |-> mostRestrictiveRiskState(facility.risk,
                                                       riskTarget(facility))])
  /\ reviews' = reviews + 1

evaluateTradingFacilityRiskHandler ==
  /\ reviews < MaxReviews
  /\ loadState
  /\ evaluateTradingFacilityRisk
  /\ UNCHANGED <<orderIntent, obligation, ledger, closeRequest, settlement,
                 proof, matured, matchingVars>>

pauseTradingFacilityNewRisk ==
  /\ facility.lifecycle = "active"
  /\ facility.risk \notin {"FLATTEN", "SETTLEMENT"}
  /\ commitFacility([risk |-> mostRestrictiveRiskState(facility.risk,
                                                       "REDUCE_ONLY")])
  /\ reviews' = reviews + 1

pauseTradingFacilityNewRiskHandler ==
  /\ reviews < MaxReviews
  /\ loadState
  /\ pauseTradingFacilityNewRisk
  /\ UNCHANGED <<orderIntent, obligation, ledger, closeRequest, settlement,
                 proof, matured, matchingVars>>

flattenTradingFacility ==
  /\ facility.lifecycle = "active"
  /\ facility.risk \notin {"FLATTEN", "SETTLEMENT"}
  /\ Cardinality(OpenOrders) = facility.openOrderCount
  /\ notionalOf(OpenOrders) = facility.exposure
  /\ orderIntent' = [o \in Orders |->
                       IF o \in OpenOrders
                       THEN [orderIntent[o] EXCEPT !.status = "flattened"]
                       ELSE orderIntent[o]]
  /\ commitFacility([lifecycle |-> "flattened", risk |-> "FLATTEN",
                     exposure |-> 0, equity |-> facility.capital,
                     openOrderCount |-> 0])

flattenTradingFacilityHandler ==
  /\ flattenTradingFacility
  /\ UNCHANGED <<obligation, ledger, closeRequest, settlement, proof, matured,
                 reviews, matchingVars>>

\* The request is bound to the version it was made at.
requestTradingFacilityClose ==
  /\ facility.lifecycle = "flattened"
  /\ facility.risk = "FLATTEN"
  /\ noExposure(facility)
  /\ closeRequest' = facility.version

\* One close request per facility.
requestTradingFacilityCloseHandler ==
  /\ closeRequest = 0
  /\ requestTradingFacilityClose
  /\ UNCHANGED <<facility, orderIntent, obligation, ledger, settlement, proof,
                 matured, aged, reviews, matchingVars>>

\* What settleTradingFacility asks of a facility row f.
settlementAdmitted(f) ==
  /\ f.lifecycle = "flattened"
  /\ f.risk = "FLATTEN"
  /\ noExposure(f)
  /\ f.subjectCollateral > 0 /\ f.providerFunding > 0
  /\ f.subjectCollateral + f.providerFunding = f.capital

settlementChanges == [risk |-> "SETTLEMENT"]

NoSettlement == [before |-> 0, after |-> 0]


\* The local settlement returns both contributions; it needs the facility at
\* the very version its close request names.
runTradingSettlement ==
  /\ closeRequest = facility.version
  /\ settlementAdmitted(facility)
  /\ commitFacility(settlementChanges)
  /\ settlement' = [before |-> facility.version, after |-> facility.version + 1]

runTradingSettlementHandler ==
  /\ closeRequest # 0
  /\ settlement = NoSettlement
  /\ runTradingSettlement
  /\ UNCHANGED <<orderIntent, obligation, ledger, closeRequest, proof,
                 matured, reviews, matchingVars>>

issueTradingPerformanceProof ==
  /\ settlement.after = facility.version
  /\ facility.risk = "SETTLEMENT"
  /\ proof' = TRUE

issueTradingPerformanceProofHandler ==
  /\ settlement # NoSettlement
  /\ ~proof
  /\ issueTradingPerformanceProof
  /\ UNCHANGED <<facility, orderIntent, obligation, ledger, closeRequest,
                 settlement, matured, aged, reviews, matchingVars>>

-----------------------------------------------------------------------------
\* The environment: the Obligation's own lifecycle and the passing of time.

\* The Obligation is executed by its own command, which posts to the Ledger.
ObligationExecuted ==
  /\ obligation = "approved"
  /\ obligation' = "executed"
  /\ ledger' = ledger + 1
  /\ UNCHANGED <<facility, orderIntent, closeRequest, settlement, proof,
                 matured, aged, reviews, matchingVars>>

\* Another command posts to the canonical Ledger.
LedgerPosted ==
  /\ ledger < MaxLedger
  /\ obligation = "executed"
  /\ ledger' = ledger + 1
  /\ UNCHANGED <<facility, orderIntent, obligation, closeRequest, settlement,
                 proof, matured, aged, reviews, matchingVars>>

\* maturityAt is read by an active facility only: that it passed earlier shows
\* from the activation on, that it passes later shows nowhere.
MaturityPasses ==
  /\ ~matured
  /\ facility.lifecycle = "active"
  /\ matured' = TRUE
  /\ UNCHANGED <<facility, orderIntent, obligation, ledger, closeRequest, settlement,
                 proof, aged, reviews, matchingVars>>

\* The observation's age is read before activation and by risk evaluations.
ObservationAges ==
  /\ ~aged
  /\ facility.lifecycle \in {"ready_for_activation", "active"}
  /\ aged' = TRUE
  /\ UNCHANGED <<facility, orderIntent, obligation, ledger, closeRequest, settlement,
                 proof, matured, reviews, matchingVars>>

FacilityNext ==
  \/ \E m \in Mandates : createTradingFacilityHandler(m)
  \/ contributionHandler(contributeTradingSubjectCollateral)
  \/ contributionHandler(recordTradingProviderFunding)
  \/ activateTradingFacilityHandler
  \/ \E o \in Orders, n \in Notionals : submitTradingOrderIntentHandler(o, n)
  \/ \E o \in Orders : cancelTradingOrderIntentHandler(o)
  \/ evaluateTradingFacilityRiskHandler
  \/ pauseTradingFacilityNewRiskHandler
  \/ flattenTradingFacilityHandler
  \/ requestTradingFacilityCloseHandler
  \/ runTradingSettlementHandler
  \/ issueTradingPerformanceProofHandler
  \/ ObligationExecuted
  \/ LedgerPosted
  \/ MaturityPasses
  \/ ObservationAges

-----------------------------------------------------------------------------
\* The whole of the local trading-capital component.

TradingTypeOK == MatchingTypeOK /\ FacilityTypeOK

TradingInit == MatchingInit /\ FacilityInit

\* What matching does after the activation of the one facility modelled shows
\* nowhere: its proposal and its deadline are not read again.
TradingNext ==
  \/ /\ facility.lifecycle \notin {"active", "flattened"}
     /\ MatchingNext
     /\ UNCHANGED facilityVars
  \/ FacilityNext

tradingVars == <<matchingVars, facilityVars>>

\* The protective flatten and the settlement are run by system workers.
TradingSpec ==
  /\ TradingInit
  /\ [][TradingNext]_tradingVars
  /\ WF_tradingVars(flattenTradingFacilityHandler)
  /\ WF_tradingVars(runTradingSettlementHandler)

(***************************************************************************)
(* The figures a facility row carries are those of its open orders: if     *)
(* they drift apart, flattenTradingFacility refuses ("Open Order Intent    *)
(* exposure does not reconcile") and the facility can never be closed.     *)
(***************************************************************************)
ExposureReconciles ==
  /\ facility.exposure = notionalOf(OpenOrders)
  /\ facility.openOrderCount = Cardinality(OpenOrders)
  /\ facility.equity = facility.capital - facility.exposure

\* What the row triggers of the schema admit.

guard_trading_match_proposal_transition(old, new) ==
  /\ new.version = old.version + 1
  /\ \/ /\ old.status = "proposed"
        /\ new.status \in {"provider_accepted", "subject_accepted"}
     \/ /\ old.status \in {"provider_accepted", "subject_accepted"}
        /\ new.status = "bilaterally_accepted"

guard_trading_facility_transition(old, new) ==
  /\ new.mandate = old.mandate
  /\ new.version = old.version + 1
  /\ riskStateRank(new.risk) >= riskStateRank(old.risk)
  /\ \/ new.lifecycle = old.lifecycle
     \/ /\ old.lifecycle = "awaiting_contributions"
        /\ new.lifecycle \in {"awaiting_subject_collateral",
                              "awaiting_provider_funding"}
     \/ /\ old.lifecycle \in {"awaiting_subject_collateral",
                              "awaiting_provider_funding"}
        /\ new.lifecycle = "ready_for_activation"
     \/ old.lifecycle = "ready_for_activation" /\ new.lifecycle = "active"
     \/ old.lifecycle = "active" /\ new.lifecycle = "flattened"

guard_trading_order_intent_transition(old, new) ==
  /\ new.notional = old.notional
  /\ old.status = "open"
  /\ new.status \in {"canceled", "flattened"}

(***************************************************************************)
(* The JavaScript domain and the triggers of the schema decide the same    *)
(* transitions twice: every change of a proposal, facility or order row    *)
(* that a command computes is one the trigger of its table lets through.   *)
(* Where they disagreed, the command would fail each time it is tried.     *)
(***************************************************************************)
TriggersAgree ==
  [][ /\ \A m \in Mandates :
           proposal[m] # NoProposal /\ proposal'[m] # proposal[m] =>
             guard_trading_match_proposal_transition(proposal[m], proposal'[m])
      /\ facility # NoFacility /\ facility' # facility =>
           guard_trading_facility_transition(facility, facility')
      /\ \A o \in Orders :
           orderIntent[o] # NoOrder /\ orderIntent'[o] # orderIntent[o] =>
             guard_trading_order_intent_transition(orderIntent[o],
                                                   orderIntent'[o])
    ]_tradingVars


(***************************************************************************)
(* A facility whose risk evaluation ordered FLATTEN is flattened: ADR-036  *)
(* says that in FLATTEN "only protective cancel and server-proven flatten  *)
(* actions remain possible".  flattenTradingFacility refuses a facility    *)
(* whose risk state already is FLATTEN.                                    *)
(***************************************************************************)
OrderedFlattenHappens ==
  (facility.lifecycle = "active" /\ facility.risk = "FLATTEN")
    ~> facility.lifecycle = "flattened"
=============================================================================
