--------------------------- MODULE StableExecution ---------------------------
(***************************************************************************)
(* The durable submission of an approved order, or of the cancellation of  *)
(* one, to the HyperCore venue: the intent rows of                         *)
(* PostgresHypercoreStableExecutionRepository, and the processes that call *)
(* HypercoreStableExecutionService.submitExact on them.                    *)
(*                                                                         *)
(* A method of the repository is one transaction that locks the intent's   *)
(* row, and one action.  A process (a runner) moves between those          *)
(* transactions and may stop anywhere; what it read before is then stale.  *)
(* The venue is external: a request that was sent is received later or     *)
(* never, and the answer may be lost.                                      *)
(*                                                                         *)
(* Expiries are compared with a process's own clock, which nothing bounds: *)
(* such a comparison may come out either way, and when it denies, the call *)
(* fails like on any other denied condition.                               *)
(***************************************************************************)
EXTENDS Naturals, FiniteSets

CONSTANTS
    Keys,      \* idempotency keys; an intent is named by its key
    Orders,    \* the economic actions of order intents
    Runners,   \* processes that run submitExact
    Times      \* what a caller's clock may read when it prepares an intent

ASSUME TimesAssumption == Times \subseteq Nat \ {0}
ASSUME NamesAssumption == "none" \notin Keys \cup Orders

VARIABLES
    intents,     \* hypercore_stable_execution_intents, by key
    approvals,   \* hypercore_stable_founder_approvals, by key of the intent
    nonceHead,   \* last_nonce of the signer, 0 while there is no row
    handoff,     \* status of the signer's handoff
    runner,      \* what each process is doing
    signed,      \* how many signatures were made for each intent
    sent,        \* how many requests left for each intent
    venue        \* what the venue did with the request of each intent

vars == <<intents, approvals, nonceHead, handoff, runner, signed, sent, venue>>

None == "none"

AttemptedStates == {"SUBMITTING", "SUBMITTED", "REJECTED", "UNKNOWN", "RECONCILED", "CLOSED"}
States == {"PREPARED", "APPROVED", "SIGNING", "ABORTED"} \cup AttemptedStates

NoIntent == [state |-> None, order |-> None, parent |-> None, nonce |-> 0]

Prepared(k) == intents[k].state # None

(***************************************************************************)
(* external_submission_attempted: set by the claim, never reset.           *)
(***************************************************************************)
Attempted(k) == intents[k].state \in AttemptedStates

Idle == [pc |-> "idle", key |-> None, result |-> None]

Init ==
    /\ intents = [k \in Keys |-> NoIntent]
    /\ approvals = [k \in Keys |-> None]
    /\ nonceHead = 0
    /\ handoff = "VERIFIED"
    /\ runner = [r \in Runners |-> Idle]
    /\ signed = [k \in Keys |-> 0]
    /\ sent = [k \in Keys |-> 0]
    /\ venue = [k \in Keys |-> None]

-----------------------------------------------------------------------------
(***************************************************************************)
(* The repository.                                                         *)
(***************************************************************************)

MaxOf(a, b) == IF a > b THEN a ELSE b

(***************************************************************************)
(* The upsert of the nonce head: GREATEST(last_nonce + 1, now).            *)
(***************************************************************************)
NextNonce(t) == IF nonceHead = 0 THEN t ELSE MaxOf(nonceHead + 1, t)

AnyKeyPreparesOrder(k, o) == TRUE

(***************************************************************************)
(* The unique key on economic_action_hash, whatever became of the other    *)
(* intent.                                                                 *)
(***************************************************************************)
EconomicActionUnused(k, o) == \A j \in Keys \ {k} : intents[j].order # o

(***************************************************************************)
(* prepare.  Under a known key it answers the stored intent and changes    *)
(* nothing.  A denial rolls back the nonce too.                            *)
(***************************************************************************)
Prepare(k, o, t) ==
    /\ ~Prepared(k)
    /\ handoff = "VERIFIED"
    /\ EconomicActionUnused(k, o)
    /\ nonceHead' = NextNonce(t)
    /\ intents' = [intents EXCEPT ![k] = [state |-> "PREPARED", order |-> o, parent |-> None,
                                          nonce |-> NextNonce(t)]]
    /\ UNCHANGED <<approvals, handoff, runner, signed, sent, venue>>

(***************************************************************************)
(* Only an order that the venue confirmed can be cancelled.                *)
(***************************************************************************)
ConfirmedParent(p) == intents[p].order # None /\ intents[p].state = "SUBMITTED"

CancelsOf(p) == {j \in Keys : intents[j].parent = p}

(***************************************************************************)
(* prepareCancel.  The economic action of a cancellation includes its      *)
(* nonce, so several may be prepared for one order.                        *)
(***************************************************************************)
PrepareCancel(k, p, t) ==
    /\ ~Prepared(k)
    /\ ConfirmedParent(p)
    /\ \A j \in CancelsOf(p) : ~Attempted(j)
    /\ handoff = "VERIFIED"
    /\ nonceHead' = NextNonce(t)
    /\ intents' = [intents EXCEPT ![k] = [state |-> "PREPARED", order |-> None, parent |-> p,
                                          nonce |-> NextNonce(t)]]
    /\ UNCHANGED <<approvals, handoff, runner, signed, sent, venue>>

MoveTo(k, state) ==
    intents' = [intents EXCEPT ![k] = [state |-> state, order |-> @.order, parent |-> @.parent,
                                       nonce |-> @.nonce]]

Approve(k) ==
    /\ intents[k].state = "PREPARED"
    /\ MoveTo(k, "APPROVED")
    /\ approvals' = [approvals EXCEPT ![k] = "APPROVED"]
    /\ UNCHANGED <<nonceHead, handoff, runner, signed, sent, venue>>

(***************************************************************************)
(* An operator gives up a signing claim that a stopped process left        *)
(* behind.  recoverSigningClaim reads the row first; abortSigning checks   *)
(* it again under the lock, so the read adds nothing.                      *)
(***************************************************************************)
RecoverSigningClaim(k) ==
    /\ intents[k].state = "SIGNING"
    /\ MoveTo(k, "ABORTED")
    /\ UNCHANGED <<approvals, nonceHead, handoff, runner, signed, sent, venue>>

(***************************************************************************)
(* An operator gives up a submission in flight: recoverUnknown.            *)
(***************************************************************************)
RecoverInFlight(k) ==
    /\ intents[k].state = "SUBMITTING"
    /\ MoveTo(k, "UNKNOWN")
    /\ UNCHANGED <<approvals, nonceHead, handoff, runner, signed, sent, venue>>

Reconcile(k) ==
    /\ intents[k].state \in {"SUBMITTED", "REJECTED", "UNKNOWN"}
    /\ MoveTo(k, "RECONCILED")
    /\ UNCHANGED <<approvals, nonceHead, handoff, runner, signed, sent, venue>>

RetireSignerHandoff ==
    /\ handoff = "VERIFIED"
    /\ handoff' = "RETIRED"
    /\ UNCHANGED <<intents, approvals, nonceHead, runner, signed, sent, venue>>

Close(k) ==
    /\ intents[k].state = "RECONCILED"
    /\ handoff = "RETIRED"
    /\ MoveTo(k, "CLOSED")
    /\ UNCHANGED <<approvals, nonceHead, handoff, runner, signed, sent, venue>>

-----------------------------------------------------------------------------
(***************************************************************************)
(* submitExact.                                                            *)
(***************************************************************************)

Goes(r, pc) == runner' = [runner EXCEPT ![r] = [pc |-> pc, key |-> @.key, result |-> None]]
Ends(r) == runner' = [runner EXCEPT ![r] = Idle]

(***************************************************************************)
(* A process takes an approved intent, reads the venue and makes the       *)
(* preflight receipt.  What it read stays with it.                         *)
(***************************************************************************)
CreatePreflightReceipt(r, k) ==
    /\ runner[r].pc = "idle"
    /\ intents[k].state = "APPROVED" /\ approvals[k] = "APPROVED"
    /\ runner' = [runner EXCEPT ![r] = [pc |-> "begin", key |-> k, result |-> None]]
    /\ UNCHANGED <<intents, approvals, nonceHead, handoff, signed, sent, venue>>

SigningAllowed(k) == intents[k].state = "APPROVED" /\ approvals[k] = "APPROVED"

(***************************************************************************)
(* beginSigning consumes the approval, before anything is signed.          *)
(***************************************************************************)
BeginSigning(r) ==
    LET k == runner[r].key IN
        /\ runner[r].pc = "begin"
        /\ SigningAllowed(k)
        /\ MoveTo(k, "SIGNING")
        /\ approvals' = [approvals EXCEPT ![k] = "CONSUMED"]
        /\ Goes(r, "sign")
        /\ UNCHANGED <<nonceHead, handoff, signed, sent, venue>>

Sign(r) ==
    LET k == runner[r].key IN
        /\ runner[r].pc = "sign"
        /\ signed' = [signed EXCEPT ![k] = @ + 1]
        /\ Goes(r, "authorize")
        /\ UNCHANGED <<intents, approvals, nonceHead, handoff, sent, venue>>

SignFails(r) ==
    /\ runner[r].pc = "sign"
    /\ Goes(r, "abort")
    /\ UNCHANGED <<intents, approvals, nonceHead, handoff, signed, sent, venue>>

AbortSigning(r) ==
    LET k == runner[r].key IN
        /\ runner[r].pc = "abort"
        /\ \/ intents[k].state = "SIGNING" /\ MoveTo(k, "ABORTED")
           \/ intents[k].state # "SIGNING" /\ UNCHANGED intents
        /\ Ends(r)
        /\ UNCHANGED <<approvals, nonceHead, handoff, signed, sent, venue>>

(***************************************************************************)
(* The authorization and the envelope are made from the copy of the intent *)
(* that beginSigning returned, without a look at the row.                  *)
(***************************************************************************)
Authorize(r) ==
    /\ runner[r].pc = "authorize"
    /\ Goes(r, "claim")
    /\ UNCHANGED <<intents, approvals, nonceHead, handoff, signed, sent, venue>>

ClaimStateAsRead(k) == TRUE

ClaimStateAllows(k) == intents[k].state = "SIGNING"

NoUniqueCancel(k) == TRUE

(***************************************************************************)
(* The unique index on the parent of attempted cancellations.              *)
(***************************************************************************)
OnlyAttemptedCancel(k) ==
    intents[k].parent # None => \A j \in CancelsOf(intents[k].parent) \ {k} : ~Attempted(j)

Claim(r) ==
    LET k == runner[r].key IN
        /\ runner[r].pc = "claim"
        /\ ClaimStateAllows(k)
        /\ OnlyAttemptedCancel(k)
        /\ MoveTo(k, "SUBMITTING")
        /\ Goes(r, "send")
        /\ UNCHANGED <<approvals, nonceHead, handoff, signed, sent, venue>>

(***************************************************************************)
(* transport.submit posts the request, once.                               *)
(***************************************************************************)
Send(r) ==
    LET k == runner[r].key IN
        /\ runner[r].pc = "send"
        /\ sent' = [sent EXCEPT ![k] = @ + 1]
        /\ Goes(r, "wait")
        /\ UNCHANGED <<intents, approvals, nonceHead, handoff, signed, venue>>

SendThrows(r) ==
    /\ runner[r].pc = "send"
    /\ Goes(r, "recover")
    /\ UNCHANGED <<intents, approvals, nonceHead, handoff, signed, sent, venue>>

VenueReceives(k, outcome) ==
    /\ sent[k] > 0 /\ venue[k] = None
    /\ venue' = [venue EXCEPT ![k] = outcome]
    /\ UNCHANGED <<intents, approvals, nonceHead, handoff, runner, signed, sent>>

Answered(r, result) ==
    /\ runner[r].pc = "wait"
    /\ runner' = [runner EXCEPT ![r] = [pc |-> "resolve", key |-> @.key, result |-> result]]
    /\ UNCHANGED <<intents, approvals, nonceHead, handoff, signed, sent, venue>>

(***************************************************************************)
(* The venue's answer, normalised.                                         *)
(***************************************************************************)
VenueAnswers(r) ==
    /\ runner[r].pc = "wait"
    /\ \/ venue[runner[r].key] = "accepted" /\ Answered(r, "confirmed")
       \/ venue[runner[r].key] = "rejected" /\ Answered(r, "rejected")

TimeoutIsRejection(r) == Answered(r, "rejected")

(***************************************************************************)
(* A timeout, a broken connection, a 5xx status, or a body that is too     *)
(* long or unreadable.  The request may still be on its way.               *)
(***************************************************************************)
NoUsableAnswer(r) == Answered(r, "unknown")

Disposition(result) ==
    [confirmed |-> "SUBMITTED", rejected |-> "REJECTED", unknown |-> "UNKNOWN"][result]

Resolve(r) ==
    LET k == runner[r].key IN
        /\ runner[r].pc = "resolve"
        /\ intents[k].state = "SUBMITTING"
        /\ MoveTo(k, Disposition(runner[r].result))
        /\ Ends(r)
        /\ UNCHANGED <<approvals, nonceHead, handoff, signed, sent, venue>>

RecoverUnknown(r) ==
    LET k == runner[r].key IN
        /\ runner[r].pc = "recover"
        /\ intents[k].state = "SUBMITTING"
        /\ MoveTo(k, "UNKNOWN")
        /\ Ends(r)
        /\ UNCHANGED <<approvals, nonceHead, handoff, signed, sent, venue>>

(***************************************************************************)
(* submitExact throws, because a transaction or a check denied or the      *)
(* connection failed, or the process stops.  The row stays as it is, and   *)
(* the next call knows nothing of this one.                                *)
(***************************************************************************)
ThrowsOrStops(r) ==
    /\ runner[r].pc # "idle"
    /\ Ends(r)
    /\ UNCHANGED <<intents, approvals, nonceHead, handoff, signed, sent, venue>>

-----------------------------------------------------------------------------
Next ==
    \/ \E k \in Keys, o \in Orders, t \in Times : Prepare(k, o, t)
    \/ \E k, p \in Keys, t \in Times : PrepareCancel(k, p, t)
    \/ \E k \in Keys :
          \/ Approve(k) \/ RecoverSigningClaim(k) \/ RecoverInFlight(k)
          \/ Reconcile(k) \/ Close(k)
          \/ \E outcome \in {"accepted", "rejected"} : VenueReceives(k, outcome)
    \/ RetireSignerHandoff
    \/ \E r \in Runners :
          \/ \E k \in Keys : CreatePreflightReceipt(r, k)
          \/ BeginSigning(r) \/ Sign(r) \/ SignFails(r) \/ AbortSigning(r) \/ Authorize(r)
          \/ Claim(r) \/ Send(r) \/ SendThrows(r) \/ VenueAnswers(r)
          \/ NoUsableAnswer(r) \/ Resolve(r) \/ RecoverUnknown(r) \/ ThrowsOrStops(r)

Spec == Init /\ [][Next]_vars

-----------------------------------------------------------------------------
(***************************************************************************)
(* Every variable has its type: the states are those of the intent's       *)
(* lifecycle, and an intent is an order or cancels one.                    *)
(***************************************************************************)
TypeOK ==
    /\ intents \in [Keys -> {NoIntent} \cup
         [state : States, order : Orders, parent : {None}, nonce : Nat \ {0}] \cup
         [state : States, order : {None}, parent : Keys, nonce : Nat \ {0}]]
    /\ approvals \in [Keys -> {None, "APPROVED", "CONSUMED"}]
    /\ nonceHead \in Nat
    /\ handoff \in {"VERIFIED", "RETIRED"}
    /\ runner \in [Runners ->
         {Idle} \cup [pc : {"begin", "sign", "abort", "authorize", "claim", "send", "wait", "recover"},
                     key : Keys, result : {None}]
               \cup [pc : {"resolve"}, key : Keys, result : {"confirmed", "rejected", "unknown"}]]
    /\ signed \in [Keys -> Nat]
    /\ sent \in [Keys -> Nat]
    /\ venue \in [Keys -> {None, "accepted", "rejected"}]

(***************************************************************************)
(* One economic action leaves for the venue at most once, under whatever   *)
(* keys it is prepared, whichever processes submit it, and wherever they   *)
(* stop or are recovered from (the claim before transport.submit).         *)
(***************************************************************************)
OrderSentOnce ==
    \A j, k \in Keys :
        (/\ sent[j] > 0 /\ sent[k] > 0
         /\ intents[j].order # None /\ intents[j].order = intents[k].order)
        => j = k /\ sent[j] = 1

(***************************************************************************)
(* One order is cancelled by at most one request, although several         *)
(* cancellations of it may be prepared, approved and signed; and only an   *)
(* order that rests at the venue, not one whose outcome is unknown.        *)
(***************************************************************************)
CancelSentOnce ==
    /\ \A j, k \in Keys :
          (/\ sent[j] > 0 /\ sent[k] > 0
           /\ intents[j].parent # None /\ intents[j].parent = intents[k].parent)
          => j = k /\ sent[j] = 1
    /\ \A k \in Keys :
          sent[k] > 0 /\ intents[k].parent # None => venue[intents[k].parent] = "accepted"

(***************************************************************************)
(* A definite record agrees with what the venue did; whoever does not know *)
(* records UNKNOWN, whatever arrives late.                                 *)
(***************************************************************************)
RecordedTruth ==
    \A k \in Keys :
        /\ intents[k].state = "SUBMITTED" => venue[k] = "accepted"
        /\ intents[k].state = "REJECTED" => venue[k] = "rejected"

(***************************************************************************)
(* Nothing leaves for an intent that is not durably claimed: one that was  *)
(* aborted while its process still held a signature in particular.         *)
(***************************************************************************)
UnsentUntilClaimed ==
    \A k \in Keys : ~Attempted(k) => sent[k] = 0

(***************************************************************************)
(* What was given up or settled is not taken up again, by a process that   *)
(* was slow while an operator aborted or recovered its intent in           *)
(* particular.                                                             *)
(***************************************************************************)
NotRevived ==
    [][\A k \in Keys :
          intents[k].state \in {"ABORTED"} \cup (AttemptedStates \ {"SUBMITTING"})
          => intents'[k].state \notin {"SIGNING", "SUBMITTING"}]_vars

(***************************************************************************)
(* An approved nonce is signed at most once: a signature that was lost is  *)
(* not made again.                                                         *)
(***************************************************************************)
NonceSignedOnce == \A k \in Keys : signed[k] <= 1

(***************************************************************************)
(* Nonces grow in the order in which intents are prepared, also when a     *)
(* caller's clock is behind another's.                                     *)
(***************************************************************************)
NoncesGrow ==
    [][\A j, k \in Keys :
          Prepared(j) /\ ~Prepared(k) /\ Prepared(k)' => intents'[k].nonce > intents[j].nonce]_vars

=============================================================================
