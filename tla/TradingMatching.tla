-------------------------- MODULE TradingMatching --------------------------
(***************************************************************************)
(* Trading-capital matching: one Capital Request of a Subject, the         *)
(* Provider Mandates it may be matched with, and the proposals between     *)
(* them, each of which takes effect only when both sides accepted the same *)
(* immutable terms.  Every operation is one Tenant command: it locks the   *)
(* rows it reads and commits in one serializable transaction, so it is one *)
(* atomic action here.                                                     *)
(*                                                                         *)
(* Wall-clock time is abstracted to what the code compares it with: a      *)
(* source is in `lapsed' from the moment its expiresAt is in the past.     *)
(***************************************************************************)
EXTENDS Integers

CONSTANTS Mandates,     \* Provider Mandates that may be published
          Suitable      \* those whose template, asset, amount, duration,
                        \* Subject type and strategy fit the request

ASSUME SuitableAssumption == Suitable \subseteq Mandates

VARIABLES request,      \* the Capital Request: "none" or "open"
          mandates,     \* the published mandates
          proposal,     \* proposal[m]: the proposal of the request and m
          lapsed        \* the sources whose expiresAt has passed

matchingVars == <<request, mandates, proposal, lapsed>>

Sides == {"provider", "subject"}

\* The request and the mandates are never changed after they are created, so
\* a proposal is its set of acceptances; version counts the changes.
NoProposal == [status |-> "none", accepted |-> {}, version |-> 0]

ProposalStatuses == {"none", "proposed", "provider_accepted",
                     "subject_accepted", "bilaterally_accepted"}

MatchingTypeOK ==
  /\ request \in {"none", "open"}
  /\ mandates \subseteq Mandates
  /\ proposal \in [Mandates -> [status : ProposalStatuses,
                                accepted : SUBSET Sides, version : 0..3]]
  /\ lapsed \subseteq {"request"} \cup Mandates

MatchingInit ==
  /\ request = "none"
  /\ mandates = {}
  /\ proposal = [m \in Mandates |-> NoProposal]
  /\ lapsed = {}

\* Both sources active and unexpired, then the seven term filters.
hardFilter(m) == lapsed \cap {"request", m} = {} /\ m \in Suitable

listCompatibleTradingProviderMandates(candidates) ==
  {m \in candidates : hardFilter(m)}

createTradingCapitalRequest == request' = "open"

createTradingCapitalRequestHandler ==
  /\ request = "none"
  /\ createTradingCapitalRequest
  /\ UNCHANGED <<mandates, proposal, lapsed>>

createTradingProviderMandate(m) == mandates' = mandates \cup {m}

createTradingProviderMandateHandler(m) ==
  /\ m \notin mandates
  /\ createTradingProviderMandate(m)
  /\ UNCHANGED <<request, proposal, lapsed>>

createTradingMatchProposal(m) ==
  /\ listCompatibleTradingProviderMandates({m}) = {m}
  /\ proposal' = [proposal EXCEPT ![m] =
                    [status |-> "proposed", accepted |-> {}, version |-> 1]]

\* One proposal per request and mandate (the UNIQUE constraint of the table).
createTradingMatchProposalHandler(m) ==
  /\ request = "open"
  /\ m \in mandates
  /\ proposal[m] = NoProposal
  /\ createTradingMatchProposal(m)
  /\ UNCHANGED <<request, mandates, lapsed>>

assertProposal(p) == p.status # "none"

assertCurrentProposalSources(m) ==
  listCompatibleTradingProviderMandates({m}) = {m}

acceptedStatus(sides) ==
  IF sides = Sides THEN "bilaterally_accepted"
  ELSE IF "provider" \in sides THEN "provider_accepted" ELSE "subject_accepted"

acceptance(m, side) ==
  /\ assertProposal(proposal[m])
  /\ assertCurrentProposalSources(m)
  /\ side \notin proposal[m].accepted
  /\ LET sides == proposal[m].accepted \cup {side}
     IN  proposal' = [proposal EXCEPT ![m] =
                        [status |-> acceptedStatus(sides), accepted |-> sides,
                         version |-> proposal[m].version + 1]]

acceptanceHandler(m, side) ==
  /\ acceptance(m, side)
  /\ UNCHANGED <<request, mandates, lapsed>>

acceptTradingMatchAsProvider(m) == acceptanceHandler(m, "provider")

acceptTradingMatchAsSubject(m) == acceptanceHandler(m, "subject")

\* The clock passes the expiresAt of the request or of a mandate.
SourceLapses(s) ==
  /\ s \notin lapsed
  /\ \/ s = "request" /\ request = "open"
     \/ s \in mandates
  /\ lapsed' = lapsed \cup {s}
  /\ UNCHANGED <<request, mandates, proposal>>

\* A proposal lives as long as the shorter-lived of its two sources.
proposalLapsed(m) == lapsed \cap {"request", m} # {}

MatchingNext ==
  \/ createTradingCapitalRequestHandler
  \/ \E m \in Mandates :
       \/ createTradingProviderMandateHandler(m)
       \/ createTradingMatchProposalHandler(m)
       \/ acceptTradingMatchAsProvider(m)
       \/ acceptTradingMatchAsSubject(m)
  \/ \E s \in {"request"} \cup Mandates : SourceLapses(s)
=============================================================================
