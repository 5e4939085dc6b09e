----------------------------- MODULE MCServices -----------------------------
(***************************************************************************)
(* Small instances of the services around the credit platform, side by     *)
(* side: a behaviour runs one part, chosen at the start, and the others    *)
(* rest.                                                                   *)
(***************************************************************************)
EXTENDS Authentication, VenueAdapter, CoreProjection, AgentLockbox

CONSTANT Parts          \* the parts a run checks

VARIABLE part           \* which part of the services this behaviour runs

servicesVars == <<part, callVars, authenticationVars, venueAdapterVars,
                  projectionVars, lockboxVars>>

\* One kind for each way a repair meets the row: the write is taken, taken
\* unless older, refused.
RepairedKinds ==
  {e \in entities : e.type \in {"principal", "mandate", "pilot_case", "admin_action"}}

\* A kind the coverage query lists and one it leaves out.
ComparedKinds ==
  {e \in entities : e.type \in {"principal", "pool_obligation_binding"}}

ServicesInit ==
  /\ part \in Parts
  /\ CallsInit /\ AuthenticationInit /\ VenueAdapterInit /\ LockboxInit
  /\ ProjectionInit(CASE part = "projection" -> entities
                      [] part = "reconciliation" -> ComparedKinds
                      [] part = "repair" -> RepairedKinds
                      [] OTHER -> {CHOOSE e \in entities : TRUE})

ServicesNext ==
  /\ UNCHANGED part
  /\ \/ /\ \/ part = "walletLogin" /\ WalletLoginNext
           \/ part = "oidcLogin" /\ OidcLoginNext
           \/ part = "passkeys" /\ PasskeyNext
           \/ part = "machine" /\ MachineNext
        /\ UNCHANGED <<venueAdapterVars, projectionVars, lockboxVars>>
     \/ /\ \/ part = "delegates" /\ DelegateMemoryNext
           \/ part = "submission" /\ SubmissionNext
           \/ part = "composition" /\ CompositionNext
        /\ UNCHANGED <<authenticationVars, projectionVars, lockboxVars>>
     \/ /\ \/ part = "projection" /\ ProjectionNext
           \/ part = "reconciliation" /\ ReconciliationNext
           \/ part = "repair" /\ RepairNext
        /\ UNCHANGED <<authenticationVars, venueAdapterVars, lockboxVars>>
     \/ /\ \/ part = "demo" /\ DemoNext
           \/ part = "rail" /\ RailNext
           \/ part = "api" /\ ApiNext
        /\ UNCHANGED <<authenticationVars, venueAdapterVars, projectionVars>>

ServicesSpec == ServicesInit /\ [][ServicesNext]_servicesVars

-----------------------------------------------------------------------------
MCActionKind == [e1 |-> "order", e2 |-> "cancel"]

MCIssuedAt == [d1 |-> 0, d2 |-> 1]

Interchangeable == Permutations(Workers)
=============================================================================
