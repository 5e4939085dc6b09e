----------------------- MODULE StableExecutionProofs ------------------------
(***************************************************************************)
(* Theorems about StableExecution, for any keys, orders, processes and     *)
(* clocks, from the inductive invariant that the steps of processes and of *)
(* everybody else keep.                                                    *)
(***************************************************************************)
EXTENDS StableExecution, TLAPS

(***************************************************************************)
(* A process that began to sign holds its intent until it ends.            *)
(***************************************************************************)
Unclaimed == {"sign", "abort", "authorize", "claim"}
Claimed == {"send", "wait", "resolve", "recover"}
Holds(r) == runner[r].pc \in Unclaimed \cup Claimed

(***************************************************************************)
(* At most one process holds an intent, because beginSigning consumes the  *)
(* approval; and the intent's row is at least as far as the process.       *)
(***************************************************************************)
OneHolder ==
    /\ \A q, r \in Runners : Holds(q) /\ Holds(r) /\ runner[q].key = runner[r].key => q = r
    /\ \A r \in Runners : runner[r].pc \in Unclaimed =>
           intents[runner[r].key].state \in {"SIGNING", "ABORTED"}
    /\ \A r \in Runners : runner[r].pc \in Claimed =>
           intents[runner[r].key].state \in AttemptedStates

(***************************************************************************)
(* What was signed and sent is bounded by how far the row and its holder   *)
(* are.                                                                    *)
(***************************************************************************)
EffectsFollowRow ==
    /\ \A k \in Keys : signed[k] <= 1 /\ sent[k] <= 1
    /\ \A k \in Keys : intents[k].state \in {None, "PREPARED", "APPROVED"} => signed[k] = 0
    /\ \A k \in Keys : intents[k].state \notin AttemptedStates => sent[k] = 0
    /\ \A r \in Runners : runner[r].pc = "sign" => signed[runner[r].key] = 0
    /\ \A r \in Runners : runner[r].pc = "send" => sent[runner[r].key] = 0

(***************************************************************************)
(* An order has one intent, and at most one of the cancellations of an     *)
(* order is attempted.                                                     *)
(***************************************************************************)
OneAttempt ==
    /\ \A j, k \in Keys : intents[j].order # None /\ intents[j].order = intents[k].order => j = k
    /\ \A j, k \in Keys :
          (/\ intents[j].parent # None /\ intents[j].parent = intents[k].parent
           /\ intents[j].state \in AttemptedStates /\ intents[k].state \in AttemptedStates)
          => j = k

(***************************************************************************)
(* Definite answers, on their way or recorded, are the venue's; and an     *)
(* order that is being cancelled was accepted.                             *)
(***************************************************************************)
AnswersAreTrue ==
    /\ RecordedTruth
    /\ \A r \in Runners :
          /\ runner[r].result = "confirmed" => venue[runner[r].key] = "accepted"
          /\ runner[r].result = "rejected" => venue[runner[r].key] = "rejected"
    /\ \A k \in Keys : intents[k].parent # None => venue[intents[k].parent] = "accepted"

(***************************************************************************)
(* Every nonce in use was taken from the nonce head.                       *)
(***************************************************************************)
NoncesBelowHead == \A k \in Keys : intents[k].nonce <= nonceHead

(***************************************************************************)
(* The inductive invariant.                                                *)
(***************************************************************************)
IInv ==
    TypeOK /\ OneHolder /\ EffectsFollowRow /\ OneAttempt /\ AnswersAreTrue /\ NoncesBelowHead

USE DEF None, Idle, NoIntent, States, AttemptedStates, Unclaimed, Claimed, Holds

(***************************************************************************)
(* The invariant holds of the empty tables.                                *)
(***************************************************************************)
LEMMA InitIInv == Init => IInv
  BY NamesAssumption DEF Init, IInv, TypeOK, OneHolder, EffectsFollowRow, OneAttempt,
     AnswersAreTrue, RecordedTruth, NoncesBelowHead

(***************************************************************************)
(* prepare: the new intent's order is unused, its nonce above the head.    *)
(***************************************************************************)
LEMMA PrepareKeepsIInv ==
    ASSUME IInv, NEW k \in Keys, NEW o \in Orders, NEW t \in Times,
           Prepare(k, o, t)
    PROVE  IInv'
<1>1. TypeOK'
  BY NamesAssumption, TimesAssumption DEF IInv, TypeOK, Prepare, Prepared,
     EconomicActionUnused, NextNonce, MaxOf
<1>2. OneHolder'
  BY NamesAssumption, TimesAssumption DEF IInv, TypeOK, OneHolder, Prepare, Prepared,
     EconomicActionUnused, NextNonce, MaxOf
<1>3. EffectsFollowRow'
  BY NamesAssumption, TimesAssumption DEF IInv, TypeOK, OneHolder, EffectsFollowRow,
     Prepare, Prepared, EconomicActionUnused, NextNonce, MaxOf
<1>4. OneAttempt'
  BY NamesAssumption, TimesAssumption DEF IInv, TypeOK, OneAttempt, Prepare, Prepared,
     EconomicActionUnused, NextNonce, MaxOf
<1>5. AnswersAreTrue'
  BY NamesAssumption, TimesAssumption DEF IInv, TypeOK, AnswersAreTrue, RecordedTruth,
     Prepare, Prepared, EconomicActionUnused, NextNonce, MaxOf
<1>6. NoncesBelowHead'
  BY NamesAssumption, TimesAssumption DEF IInv, TypeOK, NoncesBelowHead, Prepare, Prepared,
     EconomicActionUnused, NextNonce, MaxOf
<1> QED BY <1>1, <1>2, <1>3, <1>4, <1>5, <1>6 DEF IInv

(***************************************************************************)
(* prepareCancel: the parent is recorded as confirmed, so it was accepted. *)
(***************************************************************************)
LEMMA PrepareCancelKeepsIInv ==
    ASSUME IInv, NEW k \in Keys, NEW p \in Keys, NEW t \in Times,
           PrepareCancel(k, p, t)
    PROVE  IInv'
<1>1. TypeOK'
  BY NamesAssumption, TimesAssumption DEF IInv, TypeOK, PrepareCancel, Prepared,
     ConfirmedParent, NextNonce, MaxOf
<1>2. OneHolder'
  BY NamesAssumption, TimesAssumption DEF IInv, TypeOK, OneHolder, PrepareCancel, Prepared,
     ConfirmedParent, NextNonce, MaxOf
<1>3. EffectsFollowRow'
  BY NamesAssumption, TimesAssumption DEF IInv, TypeOK, OneHolder, EffectsFollowRow,
     PrepareCancel, Prepared, ConfirmedParent, NextNonce, MaxOf
<1>4. OneAttempt'
  BY NamesAssumption, TimesAssumption DEF IInv, TypeOK, OneAttempt, PrepareCancel, Prepared,
     ConfirmedParent, NextNonce, MaxOf
<1>5. AnswersAreTrue'
  BY NamesAssumption, TimesAssumption DEF IInv, TypeOK, AnswersAreTrue, RecordedTruth,
     PrepareCancel, Prepared, ConfirmedParent, NextNonce, MaxOf
<1>6. NoncesBelowHead'
  BY NamesAssumption, TimesAssumption DEF IInv, TypeOK, NoncesBelowHead, PrepareCancel,
     Prepared, ConfirmedParent, NextNonce, MaxOf
<1> QED BY <1>1, <1>2, <1>3, <1>4, <1>5, <1>6 DEF IInv

(***************************************************************************)
(* approve: nobody holds a prepared intent.                                *)
(***************************************************************************)
LEMMA ApproveKeepsIInv ==
    ASSUME IInv, NEW k \in Keys, Approve(k)
    PROVE  IInv'
<1>1. TypeOK'
  BY DEF IInv, TypeOK, Approve, MoveTo
<1>2. OneHolder'
  BY DEF IInv, TypeOK, OneHolder, Approve, MoveTo
<1>3. EffectsFollowRow'
  BY DEF IInv, TypeOK, OneHolder, EffectsFollowRow, Approve, MoveTo
<1>4. OneAttempt'
  BY DEF IInv, TypeOK, OneAttempt, Approve, MoveTo
<1>5. AnswersAreTrue'
  BY DEF IInv, TypeOK, AnswersAreTrue, RecordedTruth, Approve, MoveTo
<1>6. NoncesBelowHead'
  BY DEF IInv, TypeOK, NoncesBelowHead, Approve, MoveTo
<1> QED BY <1>1, <1>2, <1>3, <1>4, <1>5, <1>6 DEF IInv

(***************************************************************************)
(* recoverSigningClaim: a slow holder may go on, but not past its claim.   *)
(***************************************************************************)
LEMMA RecoverSigningClaimKeepsIInv ==
    ASSUME IInv, NEW k \in Keys, RecoverSigningClaim(k)
    PROVE  IInv'
<1>1. TypeOK'
  BY DEF IInv, TypeOK, RecoverSigningClaim, MoveTo
<1>2. OneHolder'
  BY DEF IInv, TypeOK, OneHolder, RecoverSigningClaim, MoveTo
<1>3. EffectsFollowRow'
  BY DEF IInv, TypeOK, OneHolder, EffectsFollowRow, RecoverSigningClaim, MoveTo
<1>4. OneAttempt'
  BY DEF IInv, TypeOK, OneAttempt, RecoverSigningClaim, MoveTo
<1>5. AnswersAreTrue'
  BY DEF IInv, TypeOK, AnswersAreTrue, RecordedTruth, RecoverSigningClaim, MoveTo
<1>6. NoncesBelowHead'
  BY DEF IInv, TypeOK, NoncesBelowHead, RecoverSigningClaim, MoveTo
<1> QED BY <1>1, <1>2, <1>3, <1>4, <1>5, <1>6 DEF IInv

(***************************************************************************)
(* recoverUnknown by an operator: the intent stays attempted.              *)
(***************************************************************************)
LEMMA RecoverInFlightKeepsIInv ==
    ASSUME IInv, NEW k \in Keys, RecoverInFlight(k)
    PROVE  IInv'
<1>1. TypeOK'
  BY DEF IInv, TypeOK, RecoverInFlight, MoveTo
<1>2. OneHolder'
  BY DEF IInv, TypeOK, OneHolder, RecoverInFlight, MoveTo
<1>3. EffectsFollowRow'
  BY DEF IInv, TypeOK, OneHolder, EffectsFollowRow, RecoverInFlight, MoveTo
<1>4. OneAttempt'
  BY DEF IInv, TypeOK, OneAttempt, RecoverInFlight, MoveTo
<1>5. AnswersAreTrue'
  BY DEF IInv, TypeOK, AnswersAreTrue, RecordedTruth, RecoverInFlight, MoveTo
<1>6. NoncesBelowHead'
  BY DEF IInv, TypeOK, NoncesBelowHead, RecoverInFlight, MoveTo
<1> QED BY <1>1, <1>2, <1>3, <1>4, <1>5, <1>6 DEF IInv

(***************************************************************************)
(* reconcile: the intent stays attempted.                                  *)
(***************************************************************************)
LEMMA ReconcileKeepsIInv ==
    ASSUME IInv, NEW k \in Keys, Reconcile(k)
    PROVE  IInv'
<1>1. TypeOK'
  BY DEF IInv, TypeOK, Reconcile, MoveTo
<1>2. OneHolder'
  BY DEF IInv, TypeOK, OneHolder, Reconcile, MoveTo
<1>3. EffectsFollowRow'
  BY DEF IInv, TypeOK, OneHolder, EffectsFollowRow, Reconcile, MoveTo
<1>4. OneAttempt'
  BY DEF IInv, TypeOK, OneAttempt, Reconcile, MoveTo
<1>5. AnswersAreTrue'
  BY DEF IInv, TypeOK, AnswersAreTrue, RecordedTruth, Reconcile, MoveTo
<1>6. NoncesBelowHead'
  BY DEF IInv, TypeOK, NoncesBelowHead, Reconcile, MoveTo
<1> QED BY <1>1, <1>2, <1>3, <1>4, <1>5, <1>6 DEF IInv

(***************************************************************************)
(* close: the intent stays attempted.                                      *)
(***************************************************************************)
LEMMA CloseKeepsIInv ==
    ASSUME IInv, NEW k \in Keys, Close(k)
    PROVE  IInv'
<1>1. TypeOK'
  BY DEF IInv, TypeOK, Close, MoveTo
<1>2. OneHolder'
  BY DEF IInv, TypeOK, OneHolder, Close, MoveTo
<1>3. EffectsFollowRow'
  BY DEF IInv, TypeOK, OneHolder, EffectsFollowRow, Close, MoveTo
<1>4. OneAttempt'
  BY DEF IInv, TypeOK, OneAttempt, Close, MoveTo
<1>5. AnswersAreTrue'
  BY DEF IInv, TypeOK, AnswersAreTrue, RecordedTruth, Close, MoveTo
<1>6. NoncesBelowHead'
  BY DEF IInv, TypeOK, NoncesBelowHead, Close, MoveTo
<1> QED BY <1>1, <1>2, <1>3, <1>4, <1>5, <1>6 DEF IInv

(***************************************************************************)
(* retireSignerHandoff touches no intent.                                  *)
(***************************************************************************)
LEMMA RetireSignerHandoffKeepsIInv ==
    ASSUME IInv, RetireSignerHandoff
    PROVE  IInv'
<1>1. TypeOK'
  BY DEF IInv, TypeOK, RetireSignerHandoff
<1>2. OneHolder'
  BY DEF IInv, TypeOK, OneHolder, RetireSignerHandoff
<1>3. EffectsFollowRow'
  BY DEF IInv, TypeOK, OneHolder, EffectsFollowRow, RetireSignerHandoff
<1>4. OneAttempt'
  BY DEF IInv, TypeOK, OneAttempt, RetireSignerHandoff
<1>5. AnswersAreTrue'
  BY DEF IInv, TypeOK, AnswersAreTrue, RecordedTruth, RetireSignerHandoff
<1>6. NoncesBelowHead'
  BY DEF IInv, TypeOK, NoncesBelowHead, RetireSignerHandoff
<1> QED BY <1>1, <1>2, <1>3, <1>4, <1>5, <1>6 DEF IInv

(***************************************************************************)
(* The venue decides once.                                                 *)
(***************************************************************************)
LEMMA VenueReceivesKeepsIInv ==
    ASSUME IInv, NEW k \in Keys, NEW outcome \in {"accepted", "rejected"},
           VenueReceives(k, outcome)
    PROVE  IInv'
<1>1. TypeOK'
  BY DEF IInv, TypeOK, VenueReceives
<1>2. OneHolder'
  BY DEF IInv, TypeOK, OneHolder, VenueReceives
<1>3. EffectsFollowRow'
  BY DEF IInv, TypeOK, OneHolder, EffectsFollowRow, VenueReceives
<1>4. OneAttempt'
  BY DEF IInv, TypeOK, OneAttempt, VenueReceives
<1>5. AnswersAreTrue'
  BY DEF IInv, TypeOK, AnswersAreTrue, RecordedTruth, VenueReceives
<1>6. NoncesBelowHead'
  BY DEF IInv, TypeOK, NoncesBelowHead, VenueReceives
<1> QED BY <1>1, <1>2, <1>3, <1>4, <1>5, <1>6 DEF IInv

(***************************************************************************)
(* A process that made a receipt holds nothing yet.                        *)
(***************************************************************************)
LEMMA CreatePreflightReceiptKeepsIInv ==
    ASSUME IInv, NEW r \in Runners, NEW k \in Keys, CreatePreflightReceipt(r, k)
    PROVE  IInv'
<1>1. TypeOK'
  BY DEF IInv, TypeOK, CreatePreflightReceipt
<1>2. OneHolder'
  BY DEF IInv, TypeOK, OneHolder, CreatePreflightReceipt
<1>3. EffectsFollowRow'
  BY DEF IInv, TypeOK, OneHolder, EffectsFollowRow, CreatePreflightReceipt
<1>4. OneAttempt'
  BY DEF IInv, TypeOK, OneAttempt, CreatePreflightReceipt
<1>5. AnswersAreTrue'
  BY DEF IInv, TypeOK, AnswersAreTrue, RecordedTruth, CreatePreflightReceipt
<1>6. NoncesBelowHead'
  BY DEF IInv, TypeOK, NoncesBelowHead, CreatePreflightReceipt
<1> QED BY <1>1, <1>2, <1>3, <1>4, <1>5, <1>6 DEF IInv

(***************************************************************************)
(* beginSigning: an approved intent has no holder, so this process is the  *)
(* only one.                                                               *)
(***************************************************************************)
LEMMA BeginSigningKeepsIInv ==
    ASSUME IInv, NEW r \in Runners, BeginSigning(r)
    PROVE  IInv'
<1>1. TypeOK'
  BY DEF IInv, TypeOK, BeginSigning, MoveTo, Goes, SigningAllowed
<1>2. OneHolder'
  BY DEF IInv, TypeOK, OneHolder, BeginSigning, MoveTo, Goes, SigningAllowed
<1>3. EffectsFollowRow'
  BY DEF IInv, TypeOK, OneHolder, EffectsFollowRow, BeginSigning, MoveTo, Goes,
     SigningAllowed
<1>4. OneAttempt'
  BY DEF IInv, TypeOK, OneAttempt, BeginSigning, MoveTo, Goes, SigningAllowed
<1>5. AnswersAreTrue'
  BY DEF IInv, TypeOK, AnswersAreTrue, RecordedTruth, BeginSigning, MoveTo, Goes,
     SigningAllowed
<1>6. NoncesBelowHead'
  BY DEF IInv, TypeOK, NoncesBelowHead, BeginSigning, MoveTo, Goes, SigningAllowed
<1> QED BY <1>1, <1>2, <1>3, <1>4, <1>5, <1>6 DEF IInv

(***************************************************************************)
(* The signer is called by the only holder, which had not called it.       *)
(***************************************************************************)
LEMMA SignKeepsIInv ==
    ASSUME IInv, NEW r \in Runners, Sign(r)
    PROVE  IInv'
<1>1. TypeOK'
  BY DEF IInv, TypeOK, Sign, Goes
<1>2. OneHolder'
  BY DEF IInv, TypeOK, OneHolder, Sign, Goes
<1>3. EffectsFollowRow'
  BY DEF IInv, TypeOK, OneHolder, EffectsFollowRow, Sign, Goes
<1>4. OneAttempt'
  BY DEF IInv, TypeOK, OneAttempt, Sign, Goes
<1>5. AnswersAreTrue'
  BY DEF IInv, TypeOK, AnswersAreTrue, RecordedTruth, Sign, Goes
<1>6. NoncesBelowHead'
  BY DEF IInv, TypeOK, NoncesBelowHead, Sign, Goes
<1> QED BY <1>1, <1>2, <1>3, <1>4, <1>5, <1>6 DEF IInv

(***************************************************************************)
(* A failed signature changes nothing durable.                             *)
(***************************************************************************)
LEMMA SignFailsKeepsIInv ==
    ASSUME IInv, NEW r \in Runners, SignFails(r)
    PROVE  IInv'
<1>1. TypeOK'
  BY DEF IInv, TypeOK, SignFails, Goes
<1>2. OneHolder'
  BY DEF IInv, TypeOK, OneHolder, SignFails, Goes
<1>3. EffectsFollowRow'
  BY DEF IInv, TypeOK, OneHolder, EffectsFollowRow, SignFails, Goes
<1>4. OneAttempt'
  BY DEF IInv, TypeOK, OneAttempt, SignFails, Goes
<1>5. AnswersAreTrue'
  BY DEF IInv, TypeOK, AnswersAreTrue, RecordedTruth, SignFails, Goes
<1>6. NoncesBelowHead'
  BY DEF IInv, TypeOK, NoncesBelowHead, SignFails, Goes
<1> QED BY <1>1, <1>2, <1>3, <1>4, <1>5, <1>6 DEF IInv

(***************************************************************************)
(* The authorization changes nothing durable.                              *)
(***************************************************************************)
LEMMA AuthorizeKeepsIInv ==
    ASSUME IInv, NEW r \in Runners, Authorize(r)
    PROVE  IInv'
<1>1. TypeOK'
  BY DEF IInv, TypeOK, Authorize, Goes
<1>2. OneHolder'
  BY DEF IInv, TypeOK, OneHolder, Authorize, Goes
<1>3. EffectsFollowRow'
  BY DEF IInv, TypeOK, OneHolder, EffectsFollowRow, Authorize, Goes
<1>4. OneAttempt'
  BY DEF IInv, TypeOK, OneAttempt, Authorize, Goes
<1>5. AnswersAreTrue'
  BY DEF IInv, TypeOK, AnswersAreTrue, RecordedTruth, Authorize, Goes
<1>6. NoncesBelowHead'
  BY DEF IInv, TypeOK, NoncesBelowHead, Authorize, Goes
<1> QED BY <1>1, <1>2, <1>3, <1>4, <1>5, <1>6 DEF IInv

(***************************************************************************)
(* claim: the index admits no second attempted cancellation of the same    *)
(* order.                                                                  *)
(***************************************************************************)
LEMMA ClaimKeepsIInv ==
    ASSUME IInv, NEW r \in Runners, Claim(r)
    PROVE  IInv'
<1>1. TypeOK'
  BY DEF IInv, TypeOK, Claim, MoveTo, Goes, ClaimStateAllows, OnlyAttemptedCancel,
     CancelsOf, Attempted
<1>2. OneHolder'
  BY DEF IInv, TypeOK, OneHolder, Claim, MoveTo, Goes, ClaimStateAllows,
     OnlyAttemptedCancel, CancelsOf, Attempted
<1>3. EffectsFollowRow'
  BY DEF IInv, TypeOK, OneHolder, EffectsFollowRow, Claim, MoveTo, Goes, ClaimStateAllows,
     OnlyAttemptedCancel, CancelsOf, Attempted
<1>4. OneAttempt'
  BY DEF IInv, TypeOK, OneAttempt, Claim, MoveTo, Goes, ClaimStateAllows,
     OnlyAttemptedCancel, CancelsOf, Attempted
<1>5. AnswersAreTrue'
  BY DEF IInv, TypeOK, AnswersAreTrue, RecordedTruth, Claim, MoveTo, Goes, ClaimStateAllows,
     OnlyAttemptedCancel, CancelsOf, Attempted
<1>6. NoncesBelowHead'
  BY DEF IInv, TypeOK, NoncesBelowHead, Claim, MoveTo, Goes, ClaimStateAllows,
     OnlyAttemptedCancel, CancelsOf, Attempted
<1> QED BY <1>1, <1>2, <1>3, <1>4, <1>5, <1>6 DEF IInv

(***************************************************************************)
(* The request leaves under the only holder, before which none left.       *)
(***************************************************************************)
LEMMA SendKeepsIInv ==
    ASSUME IInv, NEW r \in Runners, Send(r)
    PROVE  IInv'
<1>1. TypeOK'
  BY DEF IInv, TypeOK, Send, Goes
<1>2. OneHolder'
  BY DEF IInv, TypeOK, OneHolder, Send, Goes
<1>3. EffectsFollowRow'
  BY DEF IInv, TypeOK, OneHolder, EffectsFollowRow, Send, Goes
<1>4. OneAttempt'
  BY DEF IInv, TypeOK, OneAttempt, Send, Goes
<1>5. AnswersAreTrue'
  BY DEF IInv, TypeOK, AnswersAreTrue, RecordedTruth, Send, Goes
<1>6. NoncesBelowHead'
  BY DEF IInv, TypeOK, NoncesBelowHead, Send, Goes
<1> QED BY <1>1, <1>2, <1>3, <1>4, <1>5, <1>6 DEF IInv

(***************************************************************************)
(* A transport that throws has sent nothing.                               *)
(***************************************************************************)
LEMMA SendThrowsKeepsIInv ==
    ASSUME IInv, NEW r \in Runners, SendThrows(r)
    PROVE  IInv'
<1>1. TypeOK'
  BY DEF IInv, TypeOK, SendThrows, Goes
<1>2. OneHolder'
  BY DEF IInv, TypeOK, OneHolder, SendThrows, Goes
<1>3. EffectsFollowRow'
  BY DEF IInv, TypeOK, OneHolder, EffectsFollowRow, SendThrows, Goes
<1>4. OneAttempt'
  BY DEF IInv, TypeOK, OneAttempt, SendThrows, Goes
<1>5. AnswersAreTrue'
  BY DEF IInv, TypeOK, AnswersAreTrue, RecordedTruth, SendThrows, Goes
<1>6. NoncesBelowHead'
  BY DEF IInv, TypeOK, NoncesBelowHead, SendThrows, Goes
<1> QED BY <1>1, <1>2, <1>3, <1>4, <1>5, <1>6 DEF IInv

(***************************************************************************)
(* An answer that agrees with the venue, or says nothing, may be carried   *)
(* on.                                                                     *)
(***************************************************************************)
LEMMA AnsweredKeepsIInv ==
    ASSUME IInv, NEW r \in Runners, NEW result \in {"confirmed", "rejected", "unknown"},
           result = "confirmed" => venue[runner[r].key] = "accepted",
           result = "rejected" => venue[runner[r].key] = "rejected",
           Answered(r, result)
    PROVE  IInv'
<1>1. TypeOK'
  BY DEF IInv, TypeOK, Answered
<1>2. OneHolder'
  BY DEF IInv, TypeOK, OneHolder, Answered
<1>3. EffectsFollowRow'
  BY DEF IInv, TypeOK, OneHolder, EffectsFollowRow, Answered
<1>4. OneAttempt'
  BY DEF IInv, TypeOK, OneAttempt, Answered
<1>5. AnswersAreTrue'
  BY DEF IInv, TypeOK, AnswersAreTrue, RecordedTruth, Answered
<1>6. NoncesBelowHead'
  BY DEF IInv, TypeOK, NoncesBelowHead, Answered
<1> QED BY <1>1, <1>2, <1>3, <1>4, <1>5, <1>6 DEF IInv

(***************************************************************************)
(* resolve: the answer that is recorded is the venue's.                    *)
(***************************************************************************)
LEMMA ResolveKeepsIInv ==
    ASSUME IInv, NEW r \in Runners, Resolve(r)
    PROVE  IInv'
<1>1. TypeOK'
  BY DEF IInv, TypeOK, Resolve, MoveTo, Ends, Disposition
<1>2. OneHolder'
  BY DEF IInv, TypeOK, OneHolder, Resolve, MoveTo, Ends, Disposition
<1>3. EffectsFollowRow'
  BY DEF IInv, TypeOK, OneHolder, EffectsFollowRow, Resolve, MoveTo, Ends, Disposition
<1>4. OneAttempt'
  BY DEF IInv, TypeOK, OneAttempt, Resolve, MoveTo, Ends, Disposition
<1>5. AnswersAreTrue'
  BY DEF IInv, TypeOK, AnswersAreTrue, RecordedTruth, Resolve, MoveTo, Ends, Disposition
<1>6. NoncesBelowHead'
  BY DEF IInv, TypeOK, NoncesBelowHead, Resolve, MoveTo, Ends, Disposition
<1> QED BY <1>1, <1>2, <1>3, <1>4, <1>5, <1>6 DEF IInv

(***************************************************************************)
(* recoverUnknown by the process itself.                                   *)
(***************************************************************************)
LEMMA RecoverUnknownKeepsIInv ==
    ASSUME IInv, NEW r \in Runners, RecoverUnknown(r)
    PROVE  IInv'
<1>1. TypeOK'
  BY DEF IInv, TypeOK, RecoverUnknown, MoveTo, Ends
<1>2. OneHolder'
  BY DEF IInv, TypeOK, OneHolder, RecoverUnknown, MoveTo, Ends
<1>3. EffectsFollowRow'
  BY DEF IInv, TypeOK, OneHolder, EffectsFollowRow, RecoverUnknown, MoveTo, Ends
<1>4. OneAttempt'
  BY DEF IInv, TypeOK, OneAttempt, RecoverUnknown, MoveTo, Ends
<1>5. AnswersAreTrue'
  BY DEF IInv, TypeOK, AnswersAreTrue, RecordedTruth, RecoverUnknown, MoveTo, Ends
<1>6. NoncesBelowHead'
  BY DEF IInv, TypeOK, NoncesBelowHead, RecoverUnknown, MoveTo, Ends
<1> QED BY <1>1, <1>2, <1>3, <1>4, <1>5, <1>6 DEF IInv

(***************************************************************************)
(* A process that ends gives up what it holds.                             *)
(***************************************************************************)
LEMMA ThrowsOrStopsKeepsIInv ==
    ASSUME IInv, NEW r \in Runners, ThrowsOrStops(r)
    PROVE  IInv'
<1>1. TypeOK'
  BY DEF IInv, TypeOK, ThrowsOrStops, Ends
<1>2. OneHolder'
  BY DEF IInv, TypeOK, OneHolder, ThrowsOrStops, Ends
<1>3. EffectsFollowRow'
  BY DEF IInv, TypeOK, OneHolder, EffectsFollowRow, ThrowsOrStops, Ends
<1>4. OneAttempt'
  BY DEF IInv, TypeOK, OneAttempt, ThrowsOrStops, Ends
<1>5. AnswersAreTrue'
  BY DEF IInv, TypeOK, AnswersAreTrue, RecordedTruth, ThrowsOrStops, Ends
<1>6. NoncesBelowHead'
  BY DEF IInv, TypeOK, NoncesBelowHead, ThrowsOrStops, Ends
<1> QED BY <1>1, <1>2, <1>3, <1>4, <1>5, <1>6 DEF IInv

(***************************************************************************)
(* abortSigning: the holder gives its intent up.                           *)
(***************************************************************************)
LEMMA AbortSigningKeepsIInv ==
    ASSUME IInv, NEW r \in Runners, AbortSigning(r)
    PROVE  IInv'
<1> SUFFICES ASSUME intents[runner[r].key].state = "SIGNING" PROVE IInv'
  BY ThrowsOrStopsKeepsIInv DEF AbortSigning, ThrowsOrStops
<1>1. /\ runner[r].pc = "abort" /\ MoveTo(runner[r].key, "ABORTED") /\ Ends(r)
      /\ UNCHANGED <<approvals, nonceHead, handoff, signed, sent, venue>>
  BY DEF AbortSigning
<1>2. TypeOK'
  BY <1>1 DEF IInv, TypeOK, MoveTo, Ends
<1>3. OneHolder'
  BY <1>1 DEF IInv, TypeOK, OneHolder, MoveTo, Ends
<1>4. EffectsFollowRow'
  BY <1>1 DEF IInv, TypeOK, OneHolder, EffectsFollowRow, MoveTo, Ends
<1>5. OneAttempt'
  BY <1>1 DEF IInv, TypeOK, OneAttempt, MoveTo, Ends
<1>6. AnswersAreTrue'
  BY <1>1 DEF IInv, TypeOK, AnswersAreTrue, RecordedTruth, MoveTo, Ends
<1>7. NoncesBelowHead'
  BY <1>1 DEF IInv, TypeOK, NoncesBelowHead, MoveTo, Ends
<1> QED BY <1>2, <1>3, <1>4, <1>5, <1>6, <1>7 DEF IInv

(***************************************************************************)
(* A step of the repository, of an operator, of the venue or of a process  *)
(* keeps the invariant.                                                    *)
(***************************************************************************)
LEMMA NextKeepsIInv == IInv /\ [Next]_vars => IInv'
<1> SUFFICES ASSUME IInv, [Next]_vars PROVE IInv'
  OBVIOUS
<1>1. CASE \E k \in Keys, o \in Orders, t \in Times : Prepare(k, o, t)
  BY <1>1, PrepareKeepsIInv
<1>2. CASE \E k, p \in Keys, t \in Times : PrepareCancel(k, p, t)
  BY <1>2, PrepareCancelKeepsIInv
<1>3. ASSUME NEW k \in Keys,
             \/ Approve(k) \/ RecoverSigningClaim(k) \/ RecoverInFlight(k)
             \/ Reconcile(k) \/ Close(k)
             \/ \E outcome \in {"accepted", "rejected"} : VenueReceives(k, outcome)
      PROVE  IInv'
  BY <1>3, ApproveKeepsIInv, RecoverSigningClaimKeepsIInv, RecoverInFlightKeepsIInv,
     ReconcileKeepsIInv, CloseKeepsIInv, VenueReceivesKeepsIInv
<1>4. CASE RetireSignerHandoff
  BY <1>4, RetireSignerHandoffKeepsIInv
<1>5. ASSUME NEW r \in Runners, VenueAnswers(r) \/ NoUsableAnswer(r) PROVE IInv'
  <2>1. CASE venue[runner[r].key] = "accepted" /\ Answered(r, "confirmed")
    BY <2>1, AnsweredKeepsIInv
  <2>2. CASE venue[runner[r].key] = "rejected" /\ Answered(r, "rejected")
    BY <2>2, AnsweredKeepsIInv
  <2>3. CASE Answered(r, "unknown")
    BY <2>3, AnsweredKeepsIInv
  <2> QED BY <1>5, <2>1, <2>2, <2>3 DEF VenueAnswers, NoUsableAnswer
<1>6. ASSUME NEW r \in Runners,
             \/ \E k \in Keys : CreatePreflightReceipt(r, k)
             \/ BeginSigning(r) \/ Sign(r) \/ SignFails(r) \/ AbortSigning(r) \/ Authorize(r)
             \/ Claim(r) \/ Send(r) \/ SendThrows(r) \/ VenueAnswers(r)
             \/ NoUsableAnswer(r) \/ Resolve(r) \/ RecoverUnknown(r) \/ ThrowsOrStops(r)
      PROVE  IInv'
  BY <1>5, <1>6, CreatePreflightReceiptKeepsIInv, BeginSigningKeepsIInv, SignKeepsIInv,
     SignFailsKeepsIInv, AbortSigningKeepsIInv, AuthorizeKeepsIInv, ClaimKeepsIInv, SendKeepsIInv,
     SendThrowsKeepsIInv, ResolveKeepsIInv, RecoverUnknownKeepsIInv, ThrowsOrStopsKeepsIInv
<1>7. CASE UNCHANGED vars
  <2> USE <1>7 DEF vars
  <2>1. TypeOK'
    BY DEF IInv, TypeOK
  <2>2. OneHolder' /\ EffectsFollowRow'
    BY DEF IInv, OneHolder, EffectsFollowRow
  <2>3. OneAttempt' /\ AnswersAreTrue' /\ NoncesBelowHead'
    BY DEF IInv, OneAttempt, AnswersAreTrue, RecordedTruth, NoncesBelowHead
  <2> QED BY <2>1, <2>2, <2>3 DEF IInv
<1> QED BY <1>1, <1>2, <1>3, <1>4, <1>6, <1>7 DEF Next

-----------------------------------------------------------------------------
(***************************************************************************)
(* The inductive invariant holds in every reachable state of the stable    *)
(* execution, whatever the numbers of intents and processes.               *)
(***************************************************************************)
THEOREM StableInvariant == Spec => []IInv
  BY InitIInv, NextKeepsIInv, PTL DEF Spec

(***************************************************************************)
(* The rows and processes keep their types.                                *)
(***************************************************************************)
THEOREM StableTypes == Spec => []TypeOK
<1>1. IInv => TypeOK
  BY DEF IInv
<1> QED BY <1>1, StableInvariant, PTL

(***************************************************************************)
(* An order leaves for the venue at most once (submitExact, claim).        *)
(***************************************************************************)
THEOREM StableOrderSentOnce == Spec => []OrderSentOnce
<1>1. IInv => OrderSentOnce
  BY DEF IInv, TypeOK, OneAttempt, EffectsFollowRow, OrderSentOnce
<1> QED BY <1>1, StableInvariant, PTL

(***************************************************************************)
(* At most one cancellation of an order leaves for the venue (the unique   *)
(* index on attempted cancellations), and only for an order the venue      *)
(* accepted (prepareCancel reads the parent's record).                     *)
(***************************************************************************)
THEOREM StableCancelSentOnce == Spec => []CancelSentOnce
<1>1. ASSUME IInv, NEW j \in Keys, NEW k \in Keys, sent[j] > 0, sent[k] > 0,
             intents[j].parent # None, intents[j].parent = intents[k].parent
      PROVE  j = k /\ sent[j] = 1
  BY <1>1 DEF IInv, TypeOK, OneAttempt, EffectsFollowRow
<1>2. ASSUME IInv, NEW k \in Keys, sent[k] > 0, intents[k].parent # None
      PROVE  venue[intents[k].parent] = "accepted"
  BY <1>2 DEF IInv, AnswersAreTrue
<1>3. IInv => CancelSentOnce
  BY <1>1, <1>2 DEF CancelSentOnce
<1> QED BY <1>3, StableInvariant, PTL

(***************************************************************************)
(* A definite record is the venue's own answer (resolve, recoverUnknown).  *)
(***************************************************************************)
THEOREM StableRecordedTruth == Spec => []RecordedTruth
<1>1. IInv => RecordedTruth
  BY DEF IInv, AnswersAreTrue
<1> QED BY <1>1, StableInvariant, PTL

(***************************************************************************)
(* Nothing leaves for an intent that is not claimed, or was aborted.       *)
(***************************************************************************)
THEOREM StableUnsentUntilClaimed == Spec => []UnsentUntilClaimed
<1>1. IInv => UnsentUntilClaimed
  BY DEF IInv, EffectsFollowRow, UnsentUntilClaimed, Attempted
<1> QED BY <1>1, StableInvariant, PTL

(***************************************************************************)
(* A nonce is signed at most once (beginSigning consumes the approval).    *)
(***************************************************************************)
THEOREM StableNonceSignedOnce == Spec => []NonceSignedOnce
<1>1. IInv => NonceSignedOnce
  BY DEF IInv, EffectsFollowRow, NonceSignedOnce
<1> QED BY <1>1, StableInvariant, PTL

(***************************************************************************)
(* The transitions that guard_hypercore_stable_execution_intent admits.    *)
(***************************************************************************)
Lifecycle ==
    {<<"PREPARED", "APPROVED">>, <<"APPROVED", "SIGNING">>, <<"SIGNING", "SUBMITTING">>,
     <<"SIGNING", "ABORTED">>, <<"SUBMITTING", "SUBMITTED">>, <<"SUBMITTING", "REJECTED">>,
     <<"SUBMITTING", "UNKNOWN">>, <<"SUBMITTED", "RECONCILED">>, <<"REJECTED", "RECONCILED">>,
     <<"UNKNOWN", "RECONCILED">>, <<"RECONCILED", "CLOSED">>}

Advances(k) ==
    /\ <<intents[k].state, intents'[k].state>> \in Lifecycle
    /\ intents'[k].nonce = intents[k].nonce
    /\ \A j \in Keys \ {k} : intents'[j] = intents[j]

Inserted(k) ==
    /\ intents[k].state = None
    /\ intents'[k].state = "PREPARED" /\ intents'[k].nonce > nonceHead
    /\ \A j \in Keys \ {k} : intents'[j] = intents[j]

(***************************************************************************)
(* A step inserts one intent, above the nonce head, or takes one along a   *)
(* transition of the lifecycle, or leaves the intents alone: the trigger   *)
(* never has to refuse an update of the repository.                        *)
(***************************************************************************)
LEMMA IntentSteps ==
    ASSUME IInv, [Next]_vars
    PROVE  UNCHANGED intents \/ \E k \in Keys : Advances(k) \/ Inserted(k)
<1>1. ASSUME NEW k \in Keys, NEW state, MoveTo(k, state), <<intents[k].state, state>> \in Lifecycle
      PROVE  Advances(k)
  BY <1>1 DEF MoveTo, Advances, IInv, TypeOK
<1>2. ASSUME NEW k \in Keys, NEW o \in Orders, NEW t \in Times, Prepare(k, o, t)
      PROVE  Inserted(k)
  BY <1>2, TimesAssumption DEF Prepare, Prepared, NextNonce, MaxOf, Inserted, IInv, TypeOK
<1>3. ASSUME NEW k \in Keys, NEW p \in Keys, NEW t \in Times, PrepareCancel(k, p, t)
      PROVE  Inserted(k)
  BY <1>3, TimesAssumption DEF PrepareCancel, Prepared, NextNonce, MaxOf, Inserted, IInv, TypeOK
<1>4. ASSUME NEW k \in Keys,
             \/ Approve(k) \/ RecoverSigningClaim(k) \/ RecoverInFlight(k)
             \/ Reconcile(k) \/ Close(k)
      PROVE  Advances(k)
  BY <1>1, <1>4 DEF Lifecycle, Approve, RecoverSigningClaim, RecoverInFlight, Reconcile, Close
<1>5. ASSUME NEW r \in Runners,
             \/ BeginSigning(r) \/ AbortSigning(r) \/ Claim(r) \/ Resolve(r) \/ RecoverUnknown(r)
      PROVE  UNCHANGED intents \/ Advances(runner[r].key)
  <2>1. runner[r].pc # "idle" /\ runner[r].key \in Keys
    BY <1>5 DEF IInv, TypeOK, BeginSigning, AbortSigning, Claim, Resolve, RecoverUnknown
  <2>2. CASE Resolve(r)
    <3> runner[r].pc = "resolve"
      BY <2>2 DEF Resolve
    <3>1. runner[r].result \in {"confirmed", "rejected", "unknown"}
      BY DEF IInv, TypeOK
    <3>2. Disposition(runner[r].result) \in {"SUBMITTED", "REJECTED", "UNKNOWN"}
      BY <3>1 DEF Disposition
    <3> QED BY <1>1, <2>1, <2>2, <3>2 DEF Resolve, Lifecycle
  <2> QED BY <1>1, <1>5, <2>1, <2>2
        DEF Lifecycle, BeginSigning, SigningAllowed, AbortSigning, Claim, ClaimStateAllows,
            RecoverUnknown
<1>6. ASSUME NEW r \in Runners,
             \/ \E k \in Keys : CreatePreflightReceipt(r, k)
             \/ Sign(r) \/ SignFails(r) \/ Authorize(r) \/ Send(r) \/ SendThrows(r)
             \/ VenueAnswers(r) \/ NoUsableAnswer(r) \/ ThrowsOrStops(r)
      PROVE  UNCHANGED intents
  BY <1>6 DEF CreatePreflightReceipt, Sign, SignFails, Authorize, Send, SendThrows, VenueAnswers,
     NoUsableAnswer, Answered, ThrowsOrStops
<1>7. ASSUME NEW r \in Runners, BeginSigning(r) \/ Claim(r) \/ Resolve(r) \/ RecoverUnknown(r) \/ AbortSigning(r)
      PROVE  runner[r].key \in Keys
  BY <1>7 DEF IInv, TypeOK, BeginSigning, AbortSigning, Claim, Resolve, RecoverUnknown
<1>8. (\E k \in Keys : \E outcome \in {"accepted", "rejected"} : VenueReceives(k, outcome))
      \/ RetireSignerHandoff \/ UNCHANGED vars => UNCHANGED intents
  BY DEF VenueReceives, RetireSignerHandoff, vars
<1> QED BY <1>2, <1>3, <1>4, <1>5, <1>6, <1>7, <1>8 DEF Next

(***************************************************************************)
(* What was given up or settled is not taken up again (the state checks    *)
(* under the row's lock).                                                  *)
(***************************************************************************)
THEOREM StableNotRevived == Spec => NotRevived
<1>1. ASSUME IInv, [Next]_vars, NEW k \in Keys,
             intents[k].state \in {"ABORTED"} \cup (AttemptedStates \ {"SUBMITTING"})
      PROVE  intents'[k].state \notin {"SIGNING", "SUBMITTING"}
  BY <1>1, IntentSteps DEF Advances, Inserted, Lifecycle
<1>2. IInv /\ [Next]_vars =>
        \A k \in Keys :
          intents[k].state \in {"ABORTED"} \cup (AttemptedStates \ {"SUBMITTING"})
          => intents'[k].state \notin {"SIGNING", "SUBMITTING"}
  BY <1>1
<1> QED BY <1>2, StableInvariant, PTL DEF Spec, NotRevived

(***************************************************************************)
(* Nonces grow in the order of preparation (the upsert of the nonce head). *)
(***************************************************************************)
THEOREM StableNoncesGrow == Spec => NoncesGrow
<1>1. ASSUME IInv, [Next]_vars, NEW j \in Keys, NEW k \in Keys,
             Prepared(j), ~Prepared(k), Prepared(k)'
      PROVE  intents'[k].nonce > intents[j].nonce
  <2>1. intents'[k].nonce > nonceHead /\ intents'[k].nonce \in Nat
    BY <1>1, IntentSteps, NextKeepsIInv DEF Advances, Inserted, Lifecycle, Prepared, IInv, TypeOK
  <2> QED BY <1>1, <2>1 DEF IInv, TypeOK, NoncesBelowHead
<1>2. IInv /\ [Next]_vars =>
        \A j, k \in Keys :
          Prepared(j) /\ ~Prepared(k) /\ Prepared(k)' => intents'[k].nonce > intents[j].nonce
  BY <1>1
<1> QED BY <1>2, StableInvariant, PTL DEF Spec, NoncesGrow

=============================================================================
