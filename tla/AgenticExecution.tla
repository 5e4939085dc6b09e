-------------------------- MODULE AgenticExecution --------------------------
(***************************************************************************)
(* Delegated wallet grants and what is reserved against them.  A grant     *)
(* projects the mandate, the spend policy, the credit line and the         *)
(* obligation of an agent into limits; every prepared execution reserves   *)
(* exposure under its grant, and several grants may share one obligation.  *)
(*                                                                         *)
(* Two ways to the same rows are modelled.  Through the gateway a command  *)
(* is one READ COMMITTED transaction, here as several steps: it sees only  *)
(* committed rows, holds the lock of its grant from the first step, and    *)
(* the lock of its subject from the moment it lists the bindings.  The     *)
(* stand-alone repository is handed copies read earlier and commits in one *)
(* serializable transaction that compares them with the rows.              *)
(***************************************************************************)
EXTENDS Calls, FiniteSets, FiniteSetsExt, Sequences

CONSTANTS Grants,               \* grants that may be prepared, on one obligation
          TransferIntents,      \* authorized transfer intents
          intentAmount,         \* intentAmount[t]
          limits,               \* the minor amounts of the grant's authority
          MAX_GRANT_LIFETIME, MAX_RESERVATION_LIFETIME,
          RequestedLifetimes,   \* lifetimes asked for a grant
          ReleaseReasons,       \* reasons given to release a reservation
          MaxReservations,      \* bound: reservations ever made
          RepositoryIntents,    \* intents reserved through the repository
          RepositoryGrants,     \* bound: grants the stand-alone repository holds
          RepositoryTicks       \* bound: ticks of the stand-alone repository

VARIABLES delegation,           \* authority of the subject that is still current
          grants,               \* grants[g]: its row
          exposures,            \* the reservations, in the order of their commits
          walletExecutions      \* walletExecutions[i]: prepared for exposures[i]

walletVars == <<delegation, grants, exposures, walletExecutions>>

Authorities == {"mandate", "creditLine", "accountBinding"}

NoGrant == [status |-> "none", version |-> 0]

NotPrepared == [status |-> "none"]

AgenticExecutionInit ==
  /\ delegation = Authorities
  /\ grants = [g \in Grants |-> NoGrant]
  /\ exposures = <<>>
  /\ walletExecutions = <<>>

-----------------------------------------------------------------------------
\* Grants.

lowest(names) == Min({limits[f] : f \in names})

\* The authority projected into the limits of a new grant.
prepareDelegatedWalletGrant(at, expiresAt) ==
  [status |-> "prepared", pending |-> 0, version |-> 1,
   perTx |-> lowest({"perAction", "policyPerTx", "line", "outstanding"}),
   rolling |-> lowest({"aggregate", "policyDaily", "line", "outstanding"}),
   aggregate |-> lowest({"aggregate", "line", "outstanding"}),
   obligation |-> lowest({"obligationCap", "outstanding"}),
   validFrom |-> at, expiresAt |-> expiresAt]

grantExpiryInvalid(at, expiresAt) ==
  expiresAt <= at \/ expiresAt > limits.mandateExpiresAt
    \/ expiresAt - at > MAX_GRANT_LIFETIME

verifyDelegatedWalletGrant(grant) ==
  /\ grant.perTx <= grant.rolling /\ grant.rolling <= grant.aggregate
  /\ 0 <= grant.pending /\ grant.pending <= grant.aggregate

usable(grant, at) ==
  grant.status = "active" /\ grant.validFrom <= at /\ at < grant.expiresAt

activateDelegatedWalletGrant(grant) ==
  [grant EXCEPT !.status = "active", !.version = @ + 1]

activatable(grant, at) == grant.status = "prepared" /\ at < grant.expiresAt

revokeDelegatedWalletGrant(grant) ==
  [grant EXCEPT !.status = "revoked", !.pending = 0, !.version = @ + 1]

revocable(grant) == grant.status \in {"prepared", "active"}

nextExposureGrant(grant, delta) ==
  [grant EXCEPT !.pending = @ + delta, !.version = @ + 1]

\* The row may only move to the version after the one it has.
writeGrant(g, next) ==
  /\ next.version = grants[g].version + 1
  /\ grants' = [grants EXCEPT ![g] = next]

-----------------------------------------------------------------------------
\* Reservations.

createPendingExposureReservation(g, grant, amount, at) ==
  [grant |-> g, amount |-> amount, status |-> "reserved", reservedAt |-> at,
   expiresAt |-> Min({grant.expiresAt, at + MAX_RESERVATION_LIFETIME})]

reservable(grant, amount, at) == usable(grant, at) /\ amount <= grant.perTx

releaseStatus(reasonCode) ==
  CASE reasonCode = "reservation_expired" -> "expired"
    [] reasonCode = "security_quarantine" -> "quarantined"
    [] OTHER -> "released"

releasePendingExposureReservation(reservation, reasonCode) ==
  [reservation EXCEPT !.status = releaseStatus(reasonCode)]

reservedUnder(g) ==
  {i \in 1..Len(exposures) : exposures[i].status = "reserved"
                             /\ exposures[i].grant = g}

sumOf(ids) == MapThenSumSet(LAMBDA i : exposures[i].amount, ids)

\* The rows a new reservation is checked against, as they are committed.
rolling_minor(g) == sumOf(reservedUnder(g))

obligation_minor == sumOf(UNION {reservedUnder(g) : g \in Grants})

exposureLimitExceeded(grant, amount, rollingMinor, obligationMinor) ==
  \/ amount > grant.perTx
  \/ rollingMinor + amount > grant.rolling
  \/ grant.pending + amount > grant.aggregate
  \/ obligationMinor + amount > grant.obligation

\* The authority a reservation needs when it is written.
durableAuthority(g, at) ==
  grants[g].status = "active" /\ delegation = Authorities /\ at < grants[g].expiresAt

ReleaseOldest(g, reasonCode) ==
  IF reservedUnder(g) = {} THEN exposures
  ELSE [exposures EXCEPT ![Min(reservedUnder(g))] =
          releasePendingExposureReservation(@, reasonCode)]

releaseAll(g, reasonCode) ==
  [i \in DOMAIN exposures |->
     IF i \in reservedUnder(g)
       THEN releasePendingExposureReservation(exposures[i], reasonCode)
       ELSE exposures[i]]

-----------------------------------------------------------------------------
\* Preflight.

\* What a simulation may report of the prepared payload.
SimulationOutcomes == {"matching", "reverted", "drifted"}

hardDenials(grant, reservation, at, paused) ==
  \/ grant.status # "active"
  \/ paused
  \/ reservation.status # "reserved" \/ reservation.expiresAt <= at

chooseDecision(denied, quarantined, stepUpRequired) ==
  CASE denied -> "DENY"
    [] ~denied /\ quarantined -> "QUARANTINE"
    [] ~denied /\ ~quarantined /\ stepUpRequired -> "STEP_UP"
    [] OTHER -> "ALLOW"

constructPreparedExecution(g, reservation, stepUpRequired) ==
  [status |-> "prepared", grant |-> g, stepUp |-> stepUpRequired,
   expiresAt |-> reservation.expiresAt, decision |-> "none"]

evaluateTransactionPreflight(grant, reservation, prepared, simulation, at, paused) ==
  chooseDecision(hardDenials(grant, reservation, at, paused),
                 simulation # "matching", prepared.stepUp)

preflighted(prepared, decision) ==
  [prepared EXCEPT !.status = "preflighted", !.decision = decision, !.stepUp = FALSE]

\* The gateway's write of a receipt: a decision that lets the execution go on
\* needs the grant and the reservation as they are then.
writeAgenticExecutionPreflight(decision, grant, reservation, at) ==
  decision \in {"ALLOW", "STEP_UP"} =>
    grant.status = "active" /\ reservation.status = "reserved"
      /\ at < reservation.expiresAt

-----------------------------------------------------------------------------
\* Through the gateway.

grantLocked(g) == \E w \in Workers : call[w].op = "prepareExecution" /\ call[w].grant = g

subjectLocked(step) == step \in {"bound", "reserved"}

exactGrantInputs == delegation = Authorities

\* Listing the bindings takes the subject's lock until the commit.
subjectBindings == ~\E w \in Workers : call[w].op = "prepareExecution"
                                       /\ subjectLocked(call[w].step)

prepareGrant(g) ==
  /\ grants[g].status = "none"
  /\ exactGrantInputs /\ subjectBindings
  /\ \E lifetime \in RequestedLifetimes : LET expiresAt == now + lifetime IN
       /\ ~grantExpiryInvalid(now, expiresAt)
       /\ writeGrant(g, prepareDelegatedWalletGrant(now, expiresAt))
  /\ UNCHANGED <<delegation, exposures, walletExecutions, callVars>>

activateGrant(g) ==
  /\ ~grantLocked(g) /\ activatable(grants[g], now)
  /\ writeGrant(g, activateDelegatedWalletGrant(grants[g]))
  /\ UNCHANGED <<delegation, exposures, walletExecutions, callVars>>

revokeGrant(g) ==
  /\ ~grantLocked(g) /\ revocable(grants[g])
  /\ exposures' = releaseAll(g, "grant_revoked")
  /\ writeGrant(g, revokeDelegatedWalletGrant(grants[g]))
  /\ UNCHANGED <<delegation, walletExecutions, callVars>>

resolveTransferIntentExecution(t) == "accountBinding" \in delegation

\* Lock the grant, resolve the intent, and build the reservation.
prepareExecution(w, g, t) ==
  /\ call[w] = Idle /\ ~grantLocked(g)
  /\ resolveTransferIntentExecution(t)
  /\ reservable(grants[g], intentAmount[t], now)
  /\ verifyDelegatedWalletGrant(nextExposureGrant(grants[g], intentAmount[t]))
  /\ hold(w, [op |-> "prepareExecution", step |-> "planned", grant |-> g,
              reservation |->
                createPendingExposureReservation(g, grants[g], intentAmount[t], now)])
  /\ UNCHANGED walletVars

planExecution(w) ==
  /\ call[w].op = "prepareExecution" /\ call[w].step = "planned"
  /\ subjectBindings
  /\ hold(w, [call[w] EXCEPT !.step = "bound"])
  /\ UNCHANGED walletVars

\* The reservation is inserted, not yet committed, or the command fails.
writeAgenticExecutionPendingExposure(w) ==
  /\ call[w].op = "prepareExecution" /\ call[w].step = "bound"
  /\ LET r == call[w].reservation
         g == call[w].grant
     IN IF durableAuthority(g, r.reservedAt)
             /\ ~exposureLimitExceeded(grants[g], r.amount, rolling_minor(g),
                                       obligation_minor)
          THEN hold(w, [call[w] EXCEPT !.step = "reserved"])
          ELSE ends(w)
  /\ UNCHANGED walletVars

\* The local simulation always matches, so the preflight of a grant that is
\* usable when the command runs allows it.
commitExecution(w) ==
  /\ call[w].op = "prepareExecution" /\ call[w].step = "reserved"
  /\ LET r == call[w].reservation
         g == call[w].grant
         prepared == constructPreparedExecution(g, r, FALSE)
         decision == evaluateTransactionPreflight(grants[g], r, prepared,
                                                  "matching", r.reservedAt, FALSE)
     IN /\ Len(exposures) < MaxReservations
        /\ writeAgenticExecutionPreflight(decision, grants[g], r, r.reservedAt)
        /\ exposures' = Append(exposures, r)
        /\ writeGrant(g, nextExposureGrant(grants[g], r.amount))
        /\ walletExecutions' = Append(walletExecutions, preflighted(prepared, decision))
  /\ ends(w)
  /\ UNCHANGED delegation

\* The transaction is rolled back: an error, a lost connection, a crash.
rollbackExecution(w) ==
  call[w].op = "prepareExecution" /\ ends(w) /\ UNCHANGED walletVars

\* Elsewhere the mandate, the credit line or the binding is withdrawn; the
\* binding's row is held in share mode by the commands that resolved it.  One
\* of them suffices to stop every reservation.
withdrawAuthority ==
  /\ delegation = Authorities
  /\ \E a \in delegation :
       /\ a = "accountBinding" => \A w \in Workers : call[w].op # "prepareExecution"
       /\ delegation' = delegation \ {a}
  /\ UNCHANGED <<grants, exposures, walletExecutions, callVars>>

WalletExecutionNext ==
  \/ \E g \in Grants : \/ prepareGrant(g) \/ activateGrant(g) \/ revokeGrant(g)
                       \/ \E w \in Workers, t \in TransferIntents :
                            prepareExecution(w, g, t)
  \/ \E w \in Workers : \/ planExecution(w) \/ commitExecution(w)
                        \/ writeAgenticExecutionPendingExposure(w)
                        \/ rollbackExecution(w)
  \/ withdrawAuthority
  \/ Tick /\ UNCHANGED walletVars

-----------------------------------------------------------------------------
\* The stand-alone repository: a caller commands with what it has just read,
\* or with a copy that one of them has kept.

snapshot(g) == [grant |-> g, row |-> grants[g], exposures |-> exposures]

findById(w, g) ==
  /\ grants[g] # NoGrant
  /\ \A v \in Workers \ {w} : call[v] = Idle
  /\ hold(w, [op |-> "repository", copy |-> snapshot(g)])
  /\ UNCHANGED walletVars

copies ==
  {snapshot(g) : g \in {h \in Grants : grants[h] # NoGrant}}
  \cup {call[w].copy : w \in {v \in Workers : call[v].op = "repository"}}

\* The stream's expected version and the row's are the copy's.
current(c) == grants[c.grant].version = c.row.version

create(g) ==
  /\ Cardinality({h \in Grants : grants[h] # NoGrant}) < RepositoryGrants
  /\ grants[g] = NoGrant /\ delegation = Authorities
  /\ writeGrant(g, prepareDelegatedWalletGrant(now, now + MAX_GRANT_LIFETIME))
  /\ UNCHANGED <<delegation, exposures, walletExecutions, callVars>>

activate(c) ==
  /\ activatable(c.row, now)
  /\ current(c) /\ grants[c.grant].status = "prepared"
  /\ writeGrant(c.grant, activateDelegatedWalletGrant(c.row))
  /\ UNCHANGED <<delegation, exposures, walletExecutions, callVars>>

revoke(c) ==
  /\ revocable(c.row)
  /\ current(c) /\ grants[c.grant].pending = c.row.pending
  /\ exposures' = releaseAll(c.grant, "grant_revoked")
  /\ writeGrant(c.grant, revokeDelegatedWalletGrant(c.row))
  /\ UNCHANGED <<delegation, walletExecutions, callVars>>

reserveExposure(c, t) ==
  LET g == c.grant
      amount == intentAmount[t]
  IN /\ reservable(c.row, amount, now)
     /\ verifyDelegatedWalletGrant(nextExposureGrant(c.row, amount))
     /\ current(c) /\ durableAuthority(g, now)
     /\ ~exposureLimitExceeded(grants[g], amount, rolling_minor(g), obligation_minor)
     /\ Len(exposures) < MaxReservations
     /\ exposures' = Append(exposures,
                            createPendingExposureReservation(g, c.row, amount, now))
     /\ walletExecutions' = Append(walletExecutions, NotPrepared)
     /\ writeGrant(g, nextExposureGrant(c.row, amount))
     /\ UNCHANGED <<delegation, callVars>>

\* The reservation is one the caller read as reserved; nothing asks that it
\* has expired.
release(c, i, reasonCode) ==
  LET r == c.exposures[i]
  IN /\ r.grant = c.grant /\ r.status = "reserved"
     /\ r.amount <= c.row.pending
     /\ current(c) /\ exposures[i].status = "reserved"
     /\ grants[c.grant].pending = c.row.pending
     /\ exposures' = [exposures EXCEPT ![i] =
                        releasePendingExposureReservation(r, reasonCode)]
     /\ writeGrant(c.grant, nextExposureGrant(c.row, -r.amount))
     /\ UNCHANGED <<delegation, walletExecutions, callVars>>

recordPrepared(c, i) ==
  LET r == c.exposures[i]
  IN /\ usable(c.row, now) /\ r.grant = c.grant /\ r.status = "reserved"
     /\ now < r.expiresAt
     /\ walletExecutions[i] = NotPrepared
     /\ \E stepUp \in BOOLEAN :
          walletExecutions' =
            [walletExecutions EXCEPT ![i] = constructPreparedExecution(c.grant, r, stepUp)]
     /\ UNCHANGED <<delegation, grants, exposures, callVars>>


\* A decision that lets the execution go on needs the grant and the
\* reservation as they are now.
preflightCommits(decision, grant, reservation, at) ==
  decision \in {"ALLOW", "STEP_UP"} =>
    grant.status = "active" /\ reservation.status = "reserved"
      /\ at < reservation.expiresAt

\* The decision was taken on the copies; the rows are read again to commit.
recordPreflight(c, i, simulation, paused) ==
  LET prepared == walletExecutions[i]
      decision == evaluateTransactionPreflight(c.row, c.exposures[i], prepared,
                                               simulation, now, paused)
  IN /\ prepared.status = "prepared" /\ prepared.grant = c.grant
     /\ now < prepared.expiresAt
     /\ preflightCommits(decision, grants[c.grant], exposures[i], now)
     /\ walletExecutions' =
          [walletExecutions EXCEPT ![i] = preflighted(prepared, decision)]
     /\ UNCHANGED <<delegation, grants, exposures, callVars>>

RepositoryNext ==
  \/ \E g \in Grants : create(g) \/ \E w \in Workers : findById(w, g)
  \/ \E c \in copies :
       \/ activate(c) \/ revoke(c)
       \/ \E t \in RepositoryIntents : reserveExposure(c, t)
       \/ \E i \in DOMAIN c.exposures :
            \/ \E reasonCode \in ReleaseReasons : release(c, i, reasonCode)
            \/ recordPrepared(c, i)
            \/ \E simulation \in SimulationOutcomes, paused \in BOOLEAN :
                 recordPreflight(c, i, simulation, paused)
  \/ withdrawAuthority
  \/ now < RepositoryTicks /\ Tick /\ UNCHANGED walletVars

-----------------------------------------------------------------------------
(***************************************************************************)
(* The limits hold across grants and transactions: what a grant says is    *)
(* pending is what is reserved under it and at most its aggregate limit,   *)
(* the reservations of all grants of the obligation together stay within   *)
(* every live grant's obligation limit, and a revoked grant has nothing    *)
(* reserved (writeAgenticExecutionPendingExposure, reserve, revokeGrant).  *)
(***************************************************************************)
ExposureWithinLimits ==
  \A g \in Grants : grants[g] # NoGrant =>
    /\ grants[g].pending = sumOf(reservedUnder(g))
    /\ grants[g].pending <= grants[g].aggregate
    /\ grants[g].status = "active" => obligation_minor <= grants[g].obligation
    /\ grants[g].status = "revoked" => reservedUnder(g) = {}

=============================================================================
