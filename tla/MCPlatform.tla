----------------------------- MODULE MCPlatform -----------------------------
(***************************************************************************)
(* Small instances of the control services, checked side by side: the      *)
(* services share the processes and the clock but no record, so a          *)
(* behaviour runs one part, chosen at the start, and the others rest.      *)
(***************************************************************************)
EXTENDS VenueControl, DualControl, TenantGateway, CreditApplication,
        CreditServicing, AgenticExecution, TLC

CONSTANT Parts          \* the parts a run checks

VARIABLE part           \* which part of the platform this behaviour runs

creditVars == <<authorityVars, applicationVars>>

lendingVars == <<creditVars, servicingVars>>

controlVars == <<venueControlVars, dualControlVars, gatewayVars>>

platformVars == <<part, callVars, controlVars, lendingVars, walletVars>>

\* One loan served through time, the agent's or the human's, or both of the
\* agent's loans on one credit line.
MCAccepted(p) ==
  CASE p = "servicing" -> {{"a1"}, {"h1"}}
    [] p = "line" -> {{"a1", "a2"}}
    [] OTHER -> {{}}

PlatformInit ==
  /\ part \in Parts
  /\ CallsInit /\ VenueInit /\ DualControlInit /\ GatewayInit
  /\ AuthorityInit /\ ApplicationInit /\ AgenticExecutionInit
  /\ \E loans \in MCAccepted(part) : ServicingInit(loans)

PlatformNext ==
  /\ UNCHANGED part
  /\ \/ /\ \/ part = "guardian" /\ GatewayBesideGuardian
           \/ part = "reconciliation" /\ GatewayBesideReconciliation
        /\ UNCHANGED <<dualControlVars, gatewayVars, lendingVars, walletVars>>
     \/ /\ \/ part = "approval" /\ ApprovalNext
           \/ part = "breakGlass" /\ BreakGlassNext
        /\ UNCHANGED <<venueControlVars, gatewayVars, lendingVars, walletVars>>
     \/ /\ part = "gateway" /\ GatewayNext
        /\ UNCHANGED <<venueControlVars, dualControlVars, lendingVars, walletVars>>
     \/ /\ \/ part = "human" /\ ApplicationNext("hal")
           \/ part = "agent" /\ ApplicationNext("amy")
           \/ /\ part = "accounts" /\ UNCHANGED applicationVars
              /\ \/ AuthorityNext("hal") \/ ExecutionAccountNext("hal")
                 \/ Tick /\ UNCHANGED authorityVars
        /\ UNCHANGED <<controlVars, servicingVars, walletVars>>
     \/ /\ \/ part \in {"servicing", "line"} /\ ServicingNext
           \/ part = "servicing" /\ TimePasses
        /\ UNCHANGED <<callVars, controlVars, creditVars, walletVars>>
     \/ /\ \/ part = "wallet" /\ WalletExecutionNext
           \/ part = "walletRepository" /\ RepositoryNext
        /\ UNCHANGED <<controlVars, lendingVars>>

PlatformSpec == PlatformInit /\ [][PlatformNext]_platformVars

-----------------------------------------------------------------------------
MCKinds == [x \in Commands |-> "order"]

\* A facility to flatten, a stale look at it, and a kill switch.
MCRiskInputs ==
  {[evaluated |-> "FLATTEN", freshness |-> "FRESH", restricted |-> FALSE],
   [evaluated |-> "NORMAL", freshness |-> "STALE", restricted |-> FALSE]}

MCRoles == [a \in Actors |->
              CASE a = "ada" -> "credit_operator"
                [] a \in {"rod", "rex"} -> "risk_operator"
                [] a = "oda" -> "operations_operator"
                [] OTHER -> "system_worker"]

\* A create command, its key reused with another payload, a command on a
\* resource of another tenant, and a query.
MCRequests ==
  {[operationId |-> "create", key |-> "k1", payload |-> p,
    approvalArtifact |-> FALSE] : p \in {"p1", "p2"}}
  \cup {[operationId |-> "close", key |-> "k2", payload |-> "p1",
         approvalArtifact |-> FALSE]}
  \cup {[operationId |-> "read", key |-> "k2", payload |-> "p1",
         approvalArtifact |-> FALSE]}

MCPolicies ==
  [create |-> [kind |-> "command", ownershipRule |-> "none", ownTenant |-> TRUE,
               approvalRequirement |-> "none", resourceDelta |-> 1,
               nextStatus |-> "none"],
   close |-> [kind |-> "command", ownershipRule |-> "tenant_or_access_grant",
              ownTenant |-> FALSE, approvalRequirement |-> "none",
              resourceDelta |-> 0, nextStatus |-> "closed"],
   read |-> [kind |-> "query", ownershipRule |-> "tenant", ownTenant |-> TRUE,
             approvalRequirement |-> "none", resourceDelta |-> 0,
             nextStatus |-> "none"]]

MCRateLimits == [actor |-> 2, tenant |-> 2]

MCDimensions == <<"actor", "tenant">>

MCTerms == [a1 |-> [principal |-> 2, due |-> <<1, 3>>],
            a2 |-> [principal |-> 1, due |-> <<2>>],
            h1 |-> [principal |-> 2, due |-> <<1>>]]

\* Two grants of up to three share one obligation of three.
MCLimits == [perAction |-> 2, aggregate |-> 4, policyPerTx |-> 3, policyDaily |-> 3,
             obligationCap |-> 3, line |-> 4, outstanding |-> 4,
             mandateExpiresAt |-> 2]

MCIntentAmounts == [t1 |-> 1, t2 |-> 2]

MCSubjectTypes == [hal |-> "human", amy |-> "agent"]

Interchangeable == Permutations(Workers) \cup Permutations(Grants)
=============================================================================
