--------------------------- MODULE Authentication ---------------------------
(***************************************************************************)
(* Who is calling.  A Human logs in with a wallet signature or through an  *)
(* OIDC provider and gets a session on a credential; a local operator adds *)
(* a passkey proof; a machine presents a token and a proof of possession.  *)
(*                                                                         *)
(* Every store call is one serializable transaction; a login is several of *)
(* them, all judged by the clock reading taken when the request arrived.   *)
(* Subjects, sessions and transactions are stored under a keyed hash: when *)
(* the key is rotated from v1 to v2, a credential is bound again at the    *)
(* next verified login.  The rows here are those of one subject.           *)
(***************************************************************************)
EXTENDS Calls, FiniteSets, FiniteSetsExt, Sequences

CONSTANTS LOGIN_TTL, LOGIN_CAPACITY, IDLE_TIMEOUT, ABSOLUTE_TIMEOUT, SESSION_CAPACITY,
          STEP_UP_TTL, PASSKEY_CHALLENGE_TTL, MAX_PASSKEYS, MAX_CHALLENGES,
          JWKS_TTL, PROOF_AGE, CLOCK_TOLERANCE, REPLAY_CAPACITY,
          MaxLogins, MaxWalletLogins,   \* bounds: logins begun
          MaxSessions,          \* bound: sessions created
          MaxCredentialVersion, \* bound: rotations of a credential
          MaxAdministered,      \* bound: acts of administration
          LoginTicks,           \* bound: ticks in a behaviour of logins
          Proofs,               \* DPoP proofs, Proofs[p] issued at time issuedAt[p]
          issuedAt

VARIABLES
  hasherMode,           \* which reference hash keys the deployment holds
  credentials,          \* credentials[v]: the subject's row under key version v
  enrollments,          \* enrollments[v][role]
  members,              \* actors whose membership is active
  administered,         \* how many acts of administration there were
  logins, begun,        \* pending login transactions, how many were begun
  authSessions,         \* the sessions, in the order of their creation
  cutover,              \* the cutover to v2 is on record
  passkeys, ceremonies, proofsOfKey,  \* an operator's keys, challenges, evidence
  issuer, jwks,         \* signing keys published, and the resolver's copy
  replays, spent        \* proofs remembered, and how often each was accepted

credentialVars == <<hasherMode, credentials, enrollments, members, cutover,
                    administered>>

loginVars == <<logins, begun, authSessions>>

passkeyVars == <<passkeys, ceremonies, proofsOfKey>>

machineVars == <<issuer, jwks, replays, spent>>

authenticationVars == <<credentialVars, loginVars, passkeyVars, machineVars>>

KeyVersions == {"v1", "v2"}

WorkspaceRoles == {"human_borrower", "risk_operator"}

\* Roles a verified wallet may take without an invitation.
ORDINARY_WALLET_ROLES == {"human_borrower"}

\* The role of the membership, and the one an OIDC session gets.
membershipRole == "human_borrower"

\* Later than any clock reading: a row without an expiry, a key not revoked.
NoExpiry == MaxTime + 1

NoCredential == [status |-> "none", version |-> 0, expires |-> NoExpiry, actor |-> 0]

NotEnrolled == [status |-> "none", expires |-> NoExpiry]

AuthenticationInit ==
  /\ hasherMode = "single_v1"
  /\ credentials = [v \in KeyVersions |-> NoCredential]
  /\ enrollments = [v \in KeyVersions |-> [r \in WorkspaceRoles |-> NotEnrolled]]
  /\ members = {1, 2} /\ administered = 0
  /\ logins = {} /\ begun = 0
  /\ authSessions = <<>>
  /\ cutover = FALSE
  /\ passkeys = <<>> /\ ceremonies = <<>> /\ proofsOfKey = {}
  /\ issuer = [keys |-> {"k1"}, withdrawn |-> [k \in {"k1", "k2"} |-> NoExpiry]]
  /\ jwks = [keys |-> {}, loadedAt |-> NoExpiry, fetching |-> FALSE,
             unknownAt |-> NoExpiry]
  /\ replays = {}
  /\ spent = [p \in Proofs |-> 0]

-----------------------------------------------------------------------------
\* The keyring: new rows are hashed under one version, subjects are looked up
\* under both while the versions overlap.

writeKey == IF hasherMode = "single_v1" THEN "v1" ELSE "v2"

lookupHashes ==
  IF hasherMode = "overlap_v2_write_v1_lookup" THEN KeyVersions ELSE {writeKey}

exists(v) == credentials[v].status # "none"

\* An active row past its expiry is written as expired, but the rejection
\* that follows rolls the write back.
activeInTransaction(v, at) ==
  /\ credentials[v].status = "active" /\ at < credentials[v].expires
  /\ credentials[v].actor \in members

resolveHumanRole(v, role, at) ==
  /\ activeInTransaction(v, at)
  /\ enrollments[v][role].status = "active" /\ at < enrollments[v][role].expires

assertCredentialBinding(v, version, role, at) ==
  resolveHumanRole(v, role, at) /\ credentials[v].version = version

sessionLive(s, at) == s.status = "active" /\ at < s.idle /\ at < s.absolute

\* The sessions of a set, ended for one reason.
endSessions(which, status) ==
  [i \in DOMAIN authSessions |->
     IF i \in which /\ authSessions[i].status = "active"
     THEN [authSessions[i] EXCEPT !.status = status] ELSE authSessions[i]]

sessionsOn(v) == {i \in DOMAIN authSessions : authSessions[i].cred = v}

-----------------------------------------------------------------------------
\* Credentials: provisioned by an operator, rotated, suspended, revoked.

administers == administered < MaxAdministered /\ administered' = administered + 1

\* The invitation and its enrollments, the ordinary role and one by choice.
register(expires, roles, enrolledUntil) ==
  /\ \A v \in KeyVersions : ~exists(v)
  /\ credentials' = [credentials EXCEPT ![writeKey] =
       [status |-> "active", version |-> 1, expires |-> expires, actor |-> 1]]
  /\ enrollments' = [enrollments EXCEPT ![writeKey] =
       [r \in WorkspaceRoles |-> IF r \in roles
          THEN [status |-> "active", expires |-> enrolledUntil] ELSE NotEnrolled]]
  /\ UNCHANGED <<hasherMode, members, administered, cutover, loginVars>>

rotateCredential(v) ==
  /\ administers
  /\ v = writeKey /\ activeInTransaction(v, now)
  /\ credentials[v].version < MaxCredentialVersion
  /\ credentials' = [credentials EXCEPT ![v].version = @ + 1]
  /\ UNCHANGED <<hasherMode, enrollments, members, cutover, loginVars>>

\* Suspended or revoked: the sessions are left to their next use.
setStatus(v, status) ==
  /\ administers
  /\ \/ credentials[v].status = "active"
     \/ credentials[v].status = "suspended" /\ status = "revoked"
  /\ credentials' = [credentials EXCEPT ![v].status = status]
  /\ UNCHANGED <<hasherMode, enrollments, members, cutover, loginVars>>

\* Revoked with every session it still has, in one transaction; the model
\* tells this revocation from the plain one.
deprovision(v) ==
  /\ administers
  /\ exists(v)
  /\ credentials' = [credentials EXCEPT ![v].status =
       IF @ \in {"active", "suspended"} THEN "deprovisioned" ELSE @]
  /\ authSessions' = endSessions(sessionsOn(v), "revoked")
  /\ UNCHANGED <<hasherMode, enrollments, members, cutover, logins, begun>>

\* The membership ends, elsewhere.
membershipEnds ==
  /\ administers
  /\ 1 \in members /\ members' = members \ {1}
  /\ UNCHANGED <<hasherMode, credentials, enrollments, cutover, loginVars>>

-----------------------------------------------------------------------------
\* Rotation of the reference hash key.

legacyDependencies(at) ==
  \/ credentials["v1"].status = "active" /\ at < credentials["v1"].expires
  \/ \E r \in WorkspaceRoles : /\ enrollments["v1"][r].status = "active"
                               /\ at < enrollments["v1"][r].expires
  \/ \E i \in DOMAIN authSessions : /\ authSessions[i].key = "v1"
                                    /\ authSessions[i].status = "active"
                                    /\ at < authSessions[i].absolute
  \/ \E l \in logins : l.key = "v1" /\ at < l.expires

\* A redeployment with other keys: requests in flight end.  The last mode is
\* deployed once the inventory of v1 rows is empty.
redeploy(mode) ==
  /\ \/ hasherMode = "single_v1" /\ mode = "overlap_v2_write_v1_lookup"
     \/ /\ hasherMode = "overlap_v2_write_v1_lookup" /\ mode = "single_v2"
        /\ ~legacyDependencies(now)
  /\ hasherMode' = mode
  /\ call' = [w \in Workers |-> Idle]
  /\ UNCHANGED <<now, credentials, enrollments, members, administered, cutover,
                 loginVars>>

retireLegacySessionsAndChallenges ==
  /\ administers
  /\ hasherMode = "overlap_v2_write_v1_lookup"
  /\ authSessions' = endSessions({i \in DOMAIN authSessions :
                                    authSessions[i].key = "v1"}, "revoked")
  /\ logins' = {l \in logins : l.key # "v1"}
  /\ UNCHANGED <<hasherMode, credentials, enrollments, members, cutover, begun>>

\* The inventory is read in one transaction, the evidence written in another.
beginCutover(w) ==
  /\ call[w] = Idle /\ hasherMode = "single_v2" /\ ~cutover
  /\ ~legacyDependencies(now)
  /\ hold(w, [op |-> "recordCutover", at |-> now])
  /\ UNCHANGED <<credentialVars, loginVars>>

recordCutover(w) ==
  /\ call[w].op = "recordCutover" /\ ends(w)
  /\ cutover' = (cutover \/ (credentials["v2"].status = "active"
                             /\ call[w].at < credentials["v2"].expires))
  /\ UNCHANGED <<hasherMode, credentials, enrollments, members, administered,
                 loginVars>>

-----------------------------------------------------------------------------
\* Login.

pendingLogins == {l \in logins : now < l.expires}

beginLogin(role) ==
  /\ Cardinality(pendingLogins) < LOGIN_CAPACITY
  /\ logins' = pendingLogins \cup {[id |-> begun + 1, role |-> role, key |-> writeKey,
                                    expires |-> now + LOGIN_TTL]}
  /\ begun' = begun + 1
  /\ UNCHANGED <<credentialVars, authSessions>>

arrives(w, l, step) ==
  hold(w, [op |-> "completeLogin", step |-> step, login |-> l.id, role |-> l.role,
           at |-> now])

\* A wallet login: the transaction is spent whatever becomes of the login.
completeWalletLogin(w) ==
  /\ call[w] = Idle
  /\ \E l \in logins :
     /\ l.key = writeKey
     /\ logins' = logins \ {l}
     /\ IF now < l.expires THEN arrives(w, l, "subject") ELSE UNCHANGED callVars
  /\ UNCHANGED <<credentialVars, begun, authSessions>>

\* An OIDC login: only a matching, unexpired transaction is spent.
completeOidcLogin(w) ==
  /\ call[w] = Idle
  /\ \E l \in logins :
     /\ l.key = writeKey /\ now < l.expires
     /\ logins' = logins \ {l}
     /\ arrives(w, l, "oidcSubject")
  /\ UNCHANGED <<credentialVars, begun, authSessions>>

\* The signature, the code exchange or the identity token is refused.
loginRefused(w) ==
  /\ call[w].op = "completeLogin" /\ call[w].step \in {"subject", "oidcSubject"}
  /\ ends(w) /\ UNCHANGED <<credentialVars, loginVars>>

holdsCredential(w, v, version, step) ==
  hold(w, [op |-> "completeLogin", step |-> step, login |-> call[w].login,
           role |-> call[w].role, at |-> call[w].at, cred |-> v, version |-> version])

findBySubject(w) ==
  /\ call[w].op = "completeLogin" /\ call[w].step = "oidcSubject"
  /\ IF activeInTransaction(writeKey, call[w].at)
     THEN holdsCredential(w, writeKey, credentials[writeKey].version, "create")
     ELSE ends(w)
  /\ UNCHANGED <<credentialVars, loginVars>>

\* The subject is bound under v2: enrollments move, sessions and the v1 row end.
rebound(at) ==
  LET old == credentials["v1"]  was == enrollments["v1"] IN
  /\ credentials' = [v1 |-> [old EXCEPT !.status = "revoked"],
                     v2 |-> [old EXCEPT !.version = 1]]
  /\ enrollments' =
       [v1 |-> [r \in WorkspaceRoles |-> IF was[r].status = "active"
                  THEN [was[r] EXCEPT !.status = "revoked"] ELSE was[r]],
        v2 |-> [r \in WorkspaceRoles |-> IF was[r].status = "active"
                  THEN was[r] ELSE NotEnrolled]]
  /\ authSessions' = endSessions(sessionsOn("v1"), "revoked")

\* A subject nobody knows may still be provisioned, in an ordinary role.
subjectRejected(w) ==
  /\ IF call[w].role \in ORDINARY_WALLET_ROLES
     THEN hold(w, [call[w] EXCEPT !.step = "provision"]) ELSE ends(w)
  /\ UNCHANGED <<credentials, enrollments, authSessions>>

findOrRebindVerifiedHumanSubject(w) ==
  LET at == call[w].at
      legacy == "v1" \in lookupHashes \ {writeKey}
  IN
  /\ call[w].op = "completeLogin" /\ call[w].step = "subject"
  /\ \/ /\ exists(writeKey) /\ legacy /\ credentials["v1"].status = "active"
        /\ ends(w) /\ UNCHANGED <<credentials, enrollments, authSessions>>
     \/ /\ exists(writeKey) /\ ~(legacy /\ credentials["v1"].status = "active")
        /\ IF activeInTransaction(writeKey, at)
           THEN /\ holdsCredential(w, writeKey, credentials[writeKey].version, "role")
                /\ UNCHANGED <<credentials, enrollments, authSessions>>
           ELSE subjectRejected(w)
     \/ /\ ~exists(writeKey) /\ legacy /\ activeInTransaction("v1", at)
        /\ IF \E r \in WorkspaceRoles : enrollments["v1"][r].status = "active"
           THEN rebound(at) /\ holdsCredential(w, "v2", 1, "role")
           ELSE ends(w) /\ UNCHANGED <<credentials, enrollments, authSessions>>
     \/ /\ ~exists(writeKey) /\ ~(legacy /\ activeInTransaction("v1", at))
        /\ subjectRejected(w)
  /\ UNCHANGED <<hasherMode, members, administered, cutover, logins, begun>>

\* A known wallet whose invitation expired is let in again, at a new version.
recoverable(v, role, at) ==
  LET c == credentials[v]  e == enrollments[v] IN
  /\ v = "v2" /\ c.status = "active" /\ c.actor \in members
  /\ e[role].status = "active"
  /\ at < e[role].expires \/ e[role].expires = c.expires
  /\ \A r \in WorkspaceRoles \ ORDINARY_WALLET_ROLES : e[r].status # "active"

recoverVerifiedPublicBetaWallet(w, v) ==
  LET at == call[w].at  c == credentials[v] IN
  \/ /\ at < c.expires
     /\ IF activeInTransaction(v, at) THEN holdsCredential(w, v, c.version, "role")
        ELSE ends(w)
     /\ UNCHANGED <<credentials, enrollments>>
  \/ /\ c.expires <= at /\ recoverable(v, call[w].role, at)
     /\ credentials' = [credentials EXCEPT ![v] =
          [c EXCEPT !.version = @ + 1, !.expires = NoExpiry]]
     /\ enrollments' = [enrollments EXCEPT ![v] = [r \in WorkspaceRoles |->
          IF @[r].status = "active" /\ @[r].expires = c.expires
          THEN [@[r] EXCEPT !.expires = NoExpiry] ELSE @[r]]]
     /\ holdsCredential(w, v, c.version + 1, "role")
  \/ /\ c.expires <= at /\ ~recoverable(v, call[w].role, at)
     /\ ends(w) /\ UNCHANGED <<credentials, enrollments>>

\* Nobody under the hashes this deployment knows: a new account, under v2.
createPublicBetaIdentity(w) ==
  IF writeKey = "v2"
  THEN /\ credentials' = [credentials EXCEPT !["v2"] =
            [status |-> "active", version |-> 1, expires |-> NoExpiry, actor |-> 2]]
       /\ enrollments' = [enrollments EXCEPT !["v2"] = [r \in WorkspaceRoles |->
            IF r \in ORDINARY_WALLET_ROLES
            THEN [status |-> "active", expires |-> NoExpiry] ELSE NotEnrolled]]
       /\ holdsCredential(w, "v2", 1, "role")
  ELSE ends(w) /\ UNCHANGED <<credentials, enrollments>>

provisionVerifiedPublicBetaHumanSubject(w) ==
  LET known == {v \in lookupHashes : exists(v)} IN
  /\ call[w].op = "completeLogin" /\ call[w].step = "provision"
  /\ IF known = {} THEN createPublicBetaIdentity(w)
     ELSE recoverVerifiedPublicBetaWallet(w, IF "v2" \in known THEN "v2" ELSE "v1")
  /\ UNCHANGED <<hasherMode, members, administered, cutover, loginVars>>

chooseRole(w) ==
  /\ call[w].op = "completeLogin" /\ call[w].step = "role"
  /\ IF resolveHumanRole(call[w].cred, call[w].role, call[w].at)
     THEN hold(w, [call[w] EXCEPT !.step = "create"]) ELSE ends(w)
  /\ UNCHANGED <<credentialVars, loginVars>>

-----------------------------------------------------------------------------
\* Sessions.

staleSessions(at) ==
  {i \in DOMAIN authSessions : ~sessionLive(authSessions[i], at)}

issuedSession(login, v, version, role, at, absolute, rotation) ==
  [login |-> login, key |-> writeKey, cred |-> v, version |-> version, role |-> role,
   status |-> "active", idle |-> Min({at + IDLE_TIMEOUT, absolute}),
   absolute |-> absolute, rotation |-> rotation, invalidatedBy |-> "none"]


\* Stale sessions are expired first, then the live ones are counted.
createSession(w) ==
  LET c == call[w]
      rested == endSessions(staleSessions(c.at), "expired")
      live == {i \in DOMAIN rested : rested[i].status = "active"}
  IN
  /\ c.op = "completeLogin" /\ c.step = "create" /\ ends(w)
  /\ IF /\ assertCredentialBinding(c.cred, c.version, c.role, c.at)
        /\ Cardinality(live) < SESSION_CAPACITY
     THEN /\ Len(authSessions) < MaxSessions
          /\ authSessions' = Append(rested,
               issuedSession(c.login, c.cred, c.version, c.role, c.at,
                             c.at + ABSOLUTE_TIMEOUT, 0))
     ELSE UNCHANGED authSessions
  /\ UNCHANGED <<credentialVars, logins, begun>>

found(i) == authSessions[i].key = writeKey /\ authSessions[i].status = "active"

boundStill(s) == assertCredentialBinding(s.cred, s.version, s.role, now)

\* Every request: a session past its time or its credential is ended for good.
authenticate(i) ==
  LET s == authSessions[i] IN
  /\ found(i)
  /\ authSessions' = [authSessions EXCEPT ![i] =
       IF ~sessionLive(s, now) THEN [s EXCEPT !.status = "expired"]
       ELSE IF ~boundStill(s) THEN [s EXCEPT !.status = "revoked"]
       ELSE [s EXCEPT !.idle = Min({now + IDLE_TIMEOUT, s.absolute})]]
  /\ UNCHANGED <<credentialVars, logins, begun>>

rotateSession(i) ==
  LET s == authSessions[i] IN
  /\ found(i) /\ sessionLive(s, now) /\ boundStill(s)
  /\ Len(authSessions) < MaxSessions
  /\ authSessions' = Append([authSessions EXCEPT ![i].status = "rotated"],
       issuedSession(s.login, s.cred, s.version, s.role, now, s.absolute,
                     s.rotation + 1))
  /\ UNCHANGED <<credentialVars, logins, begun>>

logout(i) ==
  /\ found(i)
  /\ authSessions' = endSessions({i}, "revoked")
  /\ UNCHANGED <<credentialVars, logins, begun>>

\* Ended once under an idempotency key; a repetition changes nothing.
invalidateBrowserSession(i) ==
  /\ found(i) /\ sessionLive(authSessions[i], now)
  /\ authSessions' = [authSessions EXCEPT ![i].status = "revoked",
                                          ![i].invalidatedBy = "key"]
  /\ UNCHANGED <<credentialVars, logins, begun>>

revokeByCredential(v) ==
  /\ administers
  /\ authSessions' = endSessions(sessionsOn(v), "revoked")
  /\ UNCHANGED <<hasherMode, credentials, enrollments, members, cutover, logins, begun>>

SessionNext ==
  \/ \E i \in DOMAIN authSessions :
       rotateSession(i) \/ logout(i) \/ invalidateBrowserSession(i)
  \/ \E v \in KeyVersions : revokeByCredential(v)

CredentialNext ==
  \/ register(NoExpiry, WorkspaceRoles, NoExpiry)
  \/ register(1, {membershipRole}, 1)
  \/ \E v \in KeyVersions :
       \/ rotateCredential(v) \/ deprovision(v)
       \/ \E status \in {"suspended", "revoked"} : setStatus(v, status)
  \/ membershipEnds

LoginNext(roles, most) ==
  /\ \/ \E w \in Workers :
          \/ loginRefused(w) \/ findOrRebindVerifiedHumanSubject(w)
          \/ provisionVerifiedPublicBetaHumanSubject(w) \/ chooseRole(w)
          \/ createSession(w) \/ findBySubject(w) \/ beginCutover(w) \/ recordCutover(w)
     \/ \E mode \in {"overlap_v2_write_v1_lookup", "single_v2"} : redeploy(mode)
     \/ /\ \/ begun < most /\ \E role \in roles : beginLogin(role)
           \/ \E i \in DOMAIN authSessions : authenticate(i)
           \/ CredentialNext
           \/ retireLegacySessionsAndChallenges
        /\ UNCHANGED callVars
     \/ now < LoginTicks /\ Tick /\ UNCHANGED <<credentialVars, loginVars>>
  /\ UNCHANGED <<passkeyVars, machineVars>>

\* What else befalls a session does not depend on how it came about: it is
\* explored with OIDC logins.
WalletLoginNext ==
  \/ LoginNext(WorkspaceRoles, MaxWalletLogins)
  \/ /\ \E w \in Workers : completeWalletLogin(w)
     /\ UNCHANGED <<passkeyVars, machineVars>>

OidcLoginNext ==
  \/ LoginNext({membershipRole}, MaxLogins)
  \/ /\ \/ \E w \in Workers : completeOidcLogin(w)
        \/ SessionNext /\ UNCHANGED callVars
     /\ UNCHANGED <<passkeyVars, machineVars>>

-----------------------------------------------------------------------------
\* Passkeys of a local operator, on two sessions of one credential.  Every
\* operation holds the operator's lock, so each is one step.

OperatorSessions == {1, 2}

activeKeys == {k \in DOMAIN passkeys : passkeys[k].revokedAt = NoExpiry}

\* Mutant: a revoked key only takes its own proofs with it.
resolveStepUp_ownProofOnly(s) ==
  \E e \in proofsOfKey :
    /\ e.session = s /\ e.key \in activeKeys
    /\ e.verifiedAt <= now /\ now < e.verifiedAt + STEP_UP_TTL

\* A proof counts until it expires, unless a key used in the same session was
\* revoked since.
resolveStepUp(s) ==
  \E e \in proofsOfKey :
    /\ e.session = s /\ e.key \in activeKeys
    /\ e.verifiedAt <= now /\ now < e.verifiedAt + STEP_UP_TTL
    /\ \A f \in proofsOfKey : f.session = s /\ f.key \notin activeKeys
                                => passkeys[f.key].revokedAt < e.verifiedAt

mayRegister(s) ==
  /\ Cardinality(activeKeys) < MAX_PASSKEYS
  /\ passkeys = <<>> \/ resolveStepUp(s)

beginCeremony(s, purpose) ==
  /\ purpose = "register" => mayRegister(s)
  /\ purpose = "verify" => activeKeys # {}
  /\ Len(ceremonies) < MAX_CHALLENGES
  /\ ceremonies' =
       Append([i \in DOMAIN ceremonies |->
                 IF ceremonies[i].session = s THEN [ceremonies[i] EXCEPT !.used = TRUE]
                 ELSE ceremonies[i]],
              [session |-> s, purpose |-> purpose, used |-> FALSE,
               expires |-> now + PASSKEY_CHALLENGE_TTL])
  /\ UNCHANGED <<passkeys, proofsOfKey>>

proves(i, k) ==
  proofsOfKey' = proofsOfKey \cup
    {[session |-> ceremonies[i].session, key |-> k, verifiedAt |-> now]}

\* The challenge is used up first, also by a cancelled or a failed ceremony.
finishCeremony(i) ==
  LET c == ceremonies[i] IN
  /\ ~c.used
  /\ ceremonies' = [ceremonies EXCEPT ![i].used = TRUE]
  /\ \/ UNCHANGED <<passkeys, proofsOfKey>>
     \/ /\ now < c.expires /\ c.purpose = "register" /\ mayRegister(c.session)
        /\ passkeys' = Append(passkeys, [revokedAt |-> NoExpiry])
        /\ proves(i, Len(passkeys) + 1)
     \/ /\ now < c.expires /\ c.purpose = "verify"
        /\ \E k \in activeKeys : proves(i, k)
        /\ UNCHANGED passkeys

revokePasskey(s, k) ==
  /\ resolveStepUp(s) /\ k \in activeKeys
  /\ passkeys' = [passkeys EXCEPT ![k].revokedAt = now]
  /\ UNCHANGED <<ceremonies, proofsOfKey>>

PasskeyNext ==
  /\ \/ /\ \/ \E s \in OperatorSessions :
                \/ \E purpose \in {"register", "verify"} : beginCeremony(s, purpose)
                \/ \E k \in DOMAIN passkeys : revokePasskey(s, k)
           \/ \E i \in DOMAIN ceremonies : finishCeremony(i)
        /\ UNCHANGED callVars
     \/ Tick /\ UNCHANGED passkeyVars
  /\ UNCHANGED <<credentialVars, loginVars, machineVars>>

-----------------------------------------------------------------------------
\* Machines: a token signed by the issuer, and a fresh proof of possession.

\* The issuer replaces its signing key.
issuerRotates ==
  /\ issuer.keys = {"k1"}
  /\ issuer' = [keys |-> {"k2"}, withdrawn |-> [issuer.withdrawn EXCEPT !["k1"] = now]]
  /\ UNCHANGED <<callVars, jwks, replays, spent>>

cacheExpired == jwks.loadedAt = NoExpiry \/ now - jwks.loadedAt >= JWKS_TTL

\* The key is in the copy, or the copy is fetched: always when it is too old,
\* and for a key it does not know unless one was asked for just now.
resolveKey(w) ==
  LET c == call[w]  known == c.kid \in jwks.keys IN
  /\ c.op = "machine" /\ c.step = "key" /\ ~jwks.fetching
  /\ \/ /\ ~cacheExpired /\ known
        /\ hold(w, [c EXCEPT !.step = "proof"]) /\ UNCHANGED jwks
     \/ /\ ~cacheExpired /\ ~known /\ jwks.unknownAt = now
        /\ ends(w) /\ UNCHANGED jwks
     \/ /\ cacheExpired \/ (~known /\ jwks.unknownAt # now)
        /\ jwks' = [jwks EXCEPT !.fetching = TRUE,
                                !.unknownAt = IF cacheExpired THEN @ ELSE now]
        /\ hold(w, [c EXCEPT !.step = "fetching"])
  /\ UNCHANGED <<issuer, replays, spent>>

\* A request that finds a fetch under way waits for it.
joinsRefresh(w) ==
  /\ call[w].op = "machine" /\ call[w].step = "key" /\ jwks.fetching
  /\ cacheExpired \/ call[w].kid \notin jwks.keys
  /\ hold(w, [call[w] EXCEPT !.step = "fetching"])
  /\ UNCHANGED machineVars

\* The fetch ends for everyone who waits: with the keys of this moment, or
\* with a failure or timeout, after which a late answer is ignored.
load(failed) ==
  LET waiting(w) == call[w].op = "machine" /\ call[w].step = "fetching" IN
  /\ jwks.fetching
  /\ jwks' = IF failed THEN [jwks EXCEPT !.fetching = FALSE]
             ELSE [jwks EXCEPT !.fetching = FALSE, !.keys = issuer.keys,
                               !.loadedAt = now]
  /\ call' = [w \in Workers |->
       IF ~waiting(w) THEN call[w]
       ELSE IF ~failed /\ call[w].kid \in issuer.keys
       THEN [call[w] EXCEPT !.step = "proof"] ELSE Idle]
  /\ UNCHANGED <<now, issuer, replays, spent>>

machineArrives(w) ==
  /\ call[w] = Idle
  /\ \E p \in Proofs, kid \in {"k1", "k2"} :
       hold(w, [op |-> "machine", step |-> "key", proof |-> p, kid |-> kid])
  /\ UNCHANGED machineVars

\* The token's claims, the credential or the sender binding are refused.
machineRefused(w) ==
  /\ call[w].op = "machine" /\ call[w].step = "proof"
  /\ ends(w) /\ UNCHANGED machineVars

proofTimely(p, at) ==
  issuedAt[p] >= at - PROOF_AGE /\ issuedAt[p] <= at + CLOCK_TOLERANCE

\* How long a proof is remembered.
replayExpiry(at) == at + PROOF_AGE + CLOCK_TOLERANCE + 1

\* Expired proofs are forgotten, then the proof is inserted, once; a refusal
\* takes the deletion with it.
verifyDpopProof(w) ==
  LET p == call[w].proof
      remembered == {r \in replays : now < r.expires}
  IN
  /\ call[w].op = "machine" /\ call[w].step = "proof" /\ ends(w)
  /\ IF /\ proofTimely(p, now)
        /\ \A r \in remembered : r.proof # p
        /\ Cardinality(remembered) < REPLAY_CAPACITY
     THEN /\ replays' = remembered \cup {[proof |-> p, expires |-> replayExpiry(now)]}
          /\ spent' = [spent EXCEPT ![p] = @ + 1]
     ELSE UNCHANGED <<replays, spent>>
  /\ UNCHANGED <<issuer, jwks>>

\* A request is served within one reading of the clock.
MachineNext ==
  /\ \/ \E w \in Workers : machineArrives(w) \/ resolveKey(w) \/ joinsRefresh(w)
                             \/ machineRefused(w) \/ verifyDpopProof(w)
     \/ \E failed \in BOOLEAN : load(failed)
     \/ issuerRotates
     \/ Tick /\ (\A w \in Workers : call[w] = Idle) /\ UNCHANGED machineVars
  /\ UNCHANGED <<credentialVars, loginVars, passkeyVars>>

-----------------------------------------------------------------------------

\* Revoking a key ends the step-up of every session it was used in, and no
\* older proof revives it; with every key revoked no key is registered any
\* more (resolveStepUp, begin, finish, revoke).
RevocationEndsStepUp ==
  [][/\ \A k \in DOMAIN passkeys, s \in OperatorSessions :
          /\ k \in activeKeys /\ k \notin activeKeys'
          /\ \E e \in proofsOfKey : e.session = s /\ e.key = k
          => ~resolveStepUp(s)'
     /\ passkeys # <<>> /\ activeKeys = {} => passkeys' = passkeys]_passkeyVars
=============================================================================
