# A verification development for IPO.ONE

IPO.ONE is a credit protocol for agents and organisations: a secured lending
pool on chain, and off chain a set of services that record every decision as an
event in PostgreSQL, deliver those events, admit and authorise commands, and
execute trades at a venue. This directory holds TLA+ models of its parts, the
TLC configurations that check them on small instances, and TLAPS proofs.

## The system and its parts

| Part | State it keeps | Operations that change it | What is hard about it |
|---|---|---|---|
| Secured pool (`contracts/src/m2`) | cash, gross debt, reserves, bad debt, shares and collateral per account, the accepted price | supply, withdraw, redeemAll, addCollateral, releaseCollateral, borrow, repay, liquidate, accrueInterest, syncOracle, recoverOracleDeviation, pause, resume | separate roundings, chunked accrual, price discipline, recognition of bad debt in several ledgers |
| Event runtime, append (`modules/persistence`) | idempotency keys, stream heads, events, evidence, outbox rows | appendCommandBatch | concurrent writers, locks, retries, lost commit replies |
| Event runtime, delivery (`modules/persistence`, `apps/private-pilot`) | outbox leases, attempts, inbox rows | claimOutboxBatch, markOutboxPublished, markOutboxFailed, processInbox, the worker cycle | expired leases, late workers, crashes, redelivery |
| Tenant command gateway, abuse control | admissions, quotas, leases | one request from admission to append | release on every outcome, quota races |
| Approval and break-glass (`modules/approval`) | proposals, decisions, executions | propose, decide, cancel, expire, execute | one-time execution, revalidation, expiry races |
| HyperCore stable execution (`modules/hypercore-venue-adapter`) | intents, approvals, the signer handoff, the nonce head | prepare, prepareCancel, approve, preflight, beginSigning, abort, claim, resolve, recover, reconcile, retire, close | a stop between sending and recording, unknown outcomes, operators who recover under a slow process |
| Rail, settlement, payment, obligation, ledger | transfer intents, receipts, postings, balances | quote, submit, settle, repay | duplicate and late provider answers |
| Event indexer, evidence anchoring | cursors, observations, anchors | index, reorganise, assign, confirm | reorganisations, finality, nonces |
| Hyperliquid guardian, funding, settlement | facility and risk states | warn, reduce, flatten, fund, settle | order of risk transitions |
| Authentication, authorization, mandates | sessions, challenges, utilisation | issue, rotate, revoke, consume | replay, revocation races |

`PROJECT.json` lists every part with its status and the reason where it is not
modelled.

## Modules

    SecuredPoolMath ── SecuredPool ── MCSecuredPool
          │                 │
    SecuredPoolMathProofs ── SecuredPoolFacts ── SecuredPoolCallProofs ── SecuredPoolProofs

    CommandLog ── CommandRuntime ── MCCommandRuntime

    EventDelivery ── MCEventDelivery

    StableExecution ── MCStableExecution
          │
    StableExecutionInvariant ── StableExecutionProofs

### SecuredPoolMath, SecuredPool

The fixed-point library and the pool contract with the price adapter in front of
it. An action is one successful external call. A call that reverts changes
nothing and is a stuttering step, so the conditions under which it reverts,
Solidity's checked subtractions included, are the action's guards. The contract
is non-reentrant, so a call is one step. Mints, burns and seizures round in the
direction the contract rounds them. The interest loop is a recursive function
over its chunks. The block timestamp is a variable, and what the price feed
answers is an input of the call. Left out: the checks that ERC-20 transfers
moved what they said (tokens are well-behaved balances) and the 256-bit width:
no product of the modelled quantities comes near it under the caps.

### CommandLog, CommandRuntime

`CommandLog` is what the event runtime promises: a command is applied at one
instant or not at all, on exactly the versions its caller had read, with
consecutive versions and one outbox message per event; a key is applied at most
once, and everyone who is told of it is told the same.

`CommandRuntime` is `appendCommandBatch`, one SQL statement per action. The
variables of `CommandLog` are the committed rows. Uncommitted writes of a
transaction show to others only as locks: the row of the idempotency key, and
the stream heads it created or locked. A statement that meets such a lock
waits. Any statement may fail, with a retry or without one, and the reply to a
COMMIT may be lost. The isolation is that of READ COMMITTED, the weakest level
the repository accepts; under SERIALIZABLE the database only aborts more, and an
abort is possible at every step of the model.

### EventDelivery

The outbox and the inbox of the same repository, and the worker of
`apps/private-pilot/src/local-worker.js`. A message row has a status, its
attempts, its lock with the age of the lease, and the wait until it is available
again. A worker's cycle claims a batch, calls publish for each message and
records the outcome; after a failure it records that and ends the cycle, and the
rest of the batch stays leased. Workers crash and come back with their id; a
slow worker goes on after its lease ran out. Whatever reached the sink is handed
to consumers any number of times, under any payload; `processInbox` inserts the
inbox row, which makes concurrent calls for the same event wait, and commits the
handler's effect with the completed row or rolls both back. Worker ids are
distinct, as the lease check needs.

### StableExecution

The v2 execution of orders and cancellations at HyperCore: the service, its
PostgreSQL repository, the just-in-time signing around them and the transport.
`intents` and `approvals` are the tables of migrations 0059 and 0060, `nonceHead`
the upserted head, `handoff` the signer's handoff. A repository call is one
transaction and one action; the triggers and unique indexes are in its guards. A
process (`runner`) goes through preflight, beginSigning, the signature,
authorisation, claim, send and resolve, and reads the intent once: what it knows
may be stale at every later step, and only what the repository checks again under
the row's lock protects it. It may throw or stop between any two steps. Operators
recover a signing claim or an intent in flight at any time, also while its
process is only slow. The venue is external: it receives what was sent late, once
or never, accepts or rejects it, and the answer may not arrive. `signed` and
`sent` count effects the program does not store, for the properties only.
Prices, sizes and digests are left out: an order stands for its economic action.

## Runs

| Run | Instance | What it shows |
|---|---|---|
| `pool_accounting` | two accounts, a steady price, 8 calls | shares stay covered, ledgers reconcile, repayment stays open, lenders lose only by recognition, pause stops outflow, capacity holds |
| `pool_liquidation` | two accounts, three prices and rounds, 8 calls | the same under liquidation and bad debt, no unsecured performing debt, price discipline |
| `pool_dust` | a price at which collateral is worth 0 | violated: dust collateral blocks recognition, contrary to ADR-M2-005 |
| `pool_claim` | a loss larger than the lenders' claim | violated: `lpClaimAssets` reverts where ADR-M2-005 defines it as 0 |
| `command_runtime` | 3 writers, 2 streams, 3 crossing commands, one retry, 3 calls | the transaction implements `CommandLog`; streams are contiguous; commands are whole; every call ends |
| `event_delivery` | 2 workers, 2 messages, 2 attempts, crashes | leases are honoured, published means handed over, every message is settled |
| `event_inbox` | 3 consumers, 1 message, 2 payloads | the effect is committed once |
| `event_untried` | 1 worker, no crashes | violated: a message is dead-lettered that publish was never called for, contrary to "Outbox delivery is at-least-once" |
| `stable_execution` | 3 keys, 2 orders, 2 processes, 2 clock values | an order and a cancellation leave once, cancellations target accepted orders, definite records are true, nothing leaves unclaimed or is revived, nonces grow and are signed once |

### Bounds

The pool instances bound the number of calls (`MaxCalls`) and time (`MaxTime`).
Two accounts suffice for one to liquidate the other and for shares to be split;
eight calls reach supply, collateral, borrow, a price change, two liquidations
and a recovery. `SecondsPerYear` and `PriceScale` are small so that interest and
rounding show within those calls. The accounts are interchangeable, hence the
symmetry; no liveness is checked under it.

In `command_runtime` three calls are enough for two writers to collide on a key
or cross on two streams while a third comes in after one of them; the commands
are chosen to cross, to append twice to one stream and to reuse a key with
another hash. Only the calls are bounded (`MaxCalls`), so a finished instance
stops: deadlock is not an error there, and `EveryCallEnds` says that it never
stops with a call open. In `event_delivery` nothing is bounded but the constants:
time is kept as ages that saturate. It too ends when all messages are settled.

In `stable_execution` three keys are enough for an order and two cancellations
of it, or for two orders and a repeated one; two processes for a race on each.
Keys, orders and processes are interchangeable; no liveness is checked. Nothing
else is bounded, and the instance stops when every key is closed or stuck on an
operator.

### Fairness

`CommandRuntime!FairSpec` assumes that the database executes a statement that
waits for nobody. It does not assume that the database ever breaks a deadlock:
`EveryCallEnds` holds because there are none. `EventDelivery!FairSpec` assumes
that time passes and that a worker goes on with its cycle and starts the next
one: it is a loop, and `deploy/local/compose.yaml` restarts the process. Crashes
may happen at any step and any number of times.

## Proofs

`SecuredPoolMathProofs` proves the facts about `mulDiv` and its rounded-up form
that the pool relies on: each is within one of the exact ratio, on the side it
rounds to; so the cost of a part of the shares leaves enough for the others, and
shares minted for a debt are at most that debt. It also has the induction that the
accrual loop needs.

`SecuredPoolProofs` proves, for every set of accounts, every configuration the
constructor accepts and every sequence of calls, that the pool's types hold (no
unsigned quantity underflows), that debt shares never exceed performing debt
(`PerformingCoversShares`) and that no account has performing debt without
collateral (`NoUnsecuredPerformingDebt`). The conjunction of the three is
inductive. None is alone: the quotes of a borrower's debt are only defined while
shares are covered, cover is kept by repayments only because burned shares round
down against the reduction of the debt, and a liquidation that takes the last
collateral keeps the third only because it recognises the rest in the same call.
`LoopReached` (in `SecuredPoolFacts`) carries the invariant through the accrual loop, by taking the
least number of chunks at which it fails. Then there is one lemma per call, in
`SecuredPoolCallProofs` and for liquidate in `SecuredPoolProofs`, and
`NextKeepsIInv` combines them. The assumptions are the named ones of
`SecuredPool` and `SecuredPoolMath`: the constructor's checks on the parameters
and the types of inputs.

`StableExecutionProofs` proves every property of `stable_execution` for any number
of keys, orders and processes and any clocks. The properties are about what was
sent; the inductive invariant says why they hold. `OneHolder`: a process that
began to sign is the only one that holds the intent, because beginSigning moves
the row on and consumes the approval in one transaction. `EffectsFollowRow`: what
was signed and sent is bounded by the state of the row, so that the claim, which
checks that state, cannot follow a first send. `OneAttempt`: the unique indexes.
`AnswersAreTrue`: definite answers on their way are as true as recorded ones, and
the parent of a cancellation was accepted when it was prepared. `NoncesBelowHead`.
There is one lemma per action, in `StableExecutionInvariant`. `IntentSteps` then shows that every step moves an
intent along the transitions that the database trigger admits, from which the two
action properties follow. The assumptions are that clocks are positive and that
"none" is not a key or an order.

Only model-checked: `LedgersReconcile` (sums over the accounts need induction
over finite sets), `RepaymentAlwaysOpen` (about calls being possible), the
pool's action properties, everything about `CommandRuntime` and
`EventDelivery`, and all liveness, which is outside the prover's reach.

## Plan

1. Admission and gateway: quota windows and concurrency leases of
   `abuse-control`, released on every outcome of a request.
2. Approval and break-glass: decisions by distinct roles, expiry, one-time
   execution under concurrent callers.
3. Rail with obligation and ledger: late and duplicate receipts; postings that
   balance.
4. Pool event indexer and evidence anchors: reorganisations and finality.
5. Mandates and sessions; the Hyperliquid guardian.
6. Proofs: the pool's action properties (`LossOnlyByRecognition`,
   `PauseStopsOutflow`, `PriceDiscipline`); `CommandRuntime` implements
   `CommandLog`, from an invariant in which a writer about to commit holds its
   locks (`CommitsOnLockedState`); the lease invariant of `EventDelivery`.

## Not modelled

Web, API and MCP applications, the SDK, schemas and value constructors
(transport and presentation); token and signature verification; parsing of chain
observations; read-only reports. The per-command projections of the gateway are
data mapping inside the transaction that `CommandRuntime` models.
