--------------------------- MODULE EventDelivery ---------------------------
(***************************************************************************)
(* From the outbox to a consumer's effect: the outbox leases and the inbox *)
(* of modules/persistence/src/postgres-event-repository.js, and the worker *)
(* cycle of apps/private-pilot/src/local-worker.js that drives them.       *)
(*                                                                         *)
(* Every repository call of the outbox is one statement in a transaction   *)
(* of its own and is one action; the worker may crash, or its lease run    *)
(* out, between any two.  Time is kept as the age of each lease and the    *)
(* wait until each message is available again, so that it need not end.    *)
(***************************************************************************)
EXTENDS Integers, Sequences, FiniteSets, FiniteSetsExt

CONSTANTS
    Messages,           \* 1 .. n: outbox messages in the order (occurred_at, id)
    Workers,            \* worker ids
    Consumers,          \* concurrent callers of processInbox, all with one consumerName
    Payloads,           \* the payloads a delivery of a message may carry
    Nobody,
    MaxOutboxAttempts,
    BatchSize,
    Lease,              \* leaseMs; the worker also waits this long after a failure
    Crashes             \* whether processes crash

ASSUME DeliveryAssumption ==
    /\ Messages \subseteq Nat
    /\ Nobody \notin Workers \cup Consumers \cup Payloads
    /\ MaxOutboxAttempts \in Nat \ {0}
    /\ BatchSize \in Nat \ {0}
    /\ Lease \in Nat \ {0}
    /\ Crashes \in BOOLEAN

VARIABLES
    outbox,       \* [status, attempts, lockedBy, age, wait] per message
    worker,       \* [pc, message, batch] per worker: its cycle
    tried,        \* the messages that a worker has called publish for
    sink,         \* the messages that publish has handed over at least once
    inbox,        \* the payload of each message's completed row, or Nobody
    inboxHolder,  \* who has inserted a message's row and not yet committed
    consumer,     \* [pc, message, payload] per consumer
    effects       \* the payloads on which the handler's effect was committed

outboxVars == <<outbox, worker, tried, sink>>
inboxVars == <<inbox, inboxHolder, consumer, effects>>
vars == <<outboxVars, inboxVars>>

Absent == [status |-> "absent", attempts |-> 0, lockedBy |-> Nobody, age |-> 0, wait |-> 0]
IdleWorker == [pc |-> "idle", message |-> 0, batch |-> {}]
IdleConsumer == [pc |-> "idle", message |-> 0, payload |-> Nobody]

Init ==
    /\ outbox = [m \in Messages |-> Absent]
    /\ worker = [w \in Workers |-> IdleWorker]
    /\ tried = {}
    /\ sink = {}
    /\ inbox = [m \in Messages |-> Nobody]
    /\ inboxHolder = [m \in Messages |-> Nobody]
    /\ consumer = [c \in Consumers |-> IdleConsumer]
    /\ effects = [m \in Messages |-> <<>>]
-----------------------------------------------------------------------------
Row(status, attempts, lockedBy, age, wait) ==
    [status |-> status, attempts |-> attempts, lockedBy |-> lockedBy, age |-> age, wait |-> wait]

\* A committed command adds its message.
Enqueue(m) ==
    /\ outbox[m].status = "absent"
    /\ outbox' = [outbox EXCEPT ![m] = Row("pending", 0, Nobody, 0, 0)]
    /\ UNCHANGED <<worker, tried, sink, inboxVars>>

Expired(row) == row.lockedBy # Nobody /\ row.age > Lease

\* locked_by and locked_until are cleared.
Unlocked(row, status) == Row(status, row.attempts, Nobody, 0, row.wait)

\* Mutant: no message is given up.
NeverExhausted(row) == row.status = "absent" /\ Expired(row)

\* A lease that ran out on the last attempt.
Exhausted(row) ==
    /\ row.status = "pending"
    /\ row.attempts >= MaxOutboxAttempts
    /\ Expired(row)

Claimable(row) ==
    /\ row.status = "pending"
    /\ row.wait = 0
    /\ row.attempts < MaxOutboxAttempts
    /\ row.lockedBy = Nobody \/ Expired(row)

\* The first BatchSize claimable messages.
Candidates ==
    LET claimable == {m \in Messages : Claimable(outbox[m])}
    IN  {m \in claimable : Cardinality({n \in claimable : n < m}) < BatchSize}

ClaimOutboxBatch(w) ==
    /\ worker[w].pc = "idle"
    /\ outbox' = [m \in Messages |->
          IF Exhausted(outbox[m]) THEN Unlocked(outbox[m], "dead")
          ELSE IF m \in Candidates THEN Row("pending", outbox[m].attempts + 1, w, 0, outbox[m].wait)
          ELSE outbox[m]]
    /\ worker' = [worker EXCEPT ![w].batch = Candidates,
                                ![w].pc = IF Candidates = {} THEN "idle" ELSE "publish"]
    /\ UNCHANGED <<tried, sink, inboxVars>>

\* The order in which the claim returns its rows is not specified.
Publish(w, m) ==
    /\ worker[w].pc = "publish"
    /\ m \in worker[w].batch
    /\ tried' = tried \cup {m}
    /\ sink' = sink \cup {m}
    /\ worker' = [worker EXCEPT ![w].pc = "mark", ![w].message = m]
    /\ UNCHANGED <<outbox, inboxVars>>

\* publish throws; the sink may or may not have got the message.
PublishFails(w, m) ==
    /\ worker[w].pc = "publish"
    /\ m \in worker[w].batch
    /\ tried' = tried \cup {m}
    /\ sink' \in {sink, sink \cup {m}}
    /\ worker' = [worker EXCEPT ![w].pc = "fail", ![w].message = m]
    /\ UNCHANGED <<outbox, inboxVars>>

\* Mutant: the row is updated by its id alone.
OwnsAnyPending(w, m) == outbox[m].status = "pending"

Owns(w, m) == outbox[m].status = "pending" /\ outbox[m].lockedBy = w

\* On a lease it no longer owns the call throws, and the worker goes on to markOutboxFailed.
MarkOutboxPublished(w) ==
    LET m == worker[w].message
        rest == worker[w].batch \ {m}
    IN  /\ worker[w].pc = "mark"
        /\ \/ /\ Owns(w, m)
              /\ outbox' = [outbox EXCEPT ![m] = Unlocked(@, "published")]
              /\ worker' = [worker EXCEPT ![w] = IF rest = {} THEN IdleWorker
                                                 ELSE [pc |-> "publish", message |-> 0, batch |-> rest]]
           \/ /\ ~Owns(w, m)
              /\ worker' = [worker EXCEPT ![w].pc = "fail"]
              /\ UNCHANGED outbox
        /\ UNCHANGED <<tried, sink, inboxVars>>

\* The cycle ends with the error: the rest of the batch stays locked until the lease runs out.
MarkOutboxFailed(w) ==
    LET m == worker[w].message
    IN  /\ worker[w].pc = "fail"
        /\ outbox' = IF ~Owns(w, m) THEN outbox
                     ELSE IF outbox[m].attempts >= MaxOutboxAttempts
                     THEN [outbox EXCEPT ![m] = Unlocked(@, "dead")]
                     ELSE [outbox EXCEPT ![m] = Row("pending", @.attempts, Nobody, 0, Lease)]
        /\ worker' = [worker EXCEPT ![w] = IdleWorker]
        /\ UNCHANGED <<tried, sink, inboxVars>>

\* The process dies, or loses the database; it starts again with the same worker id.
WorkerCrashes(w) ==
    /\ Crashes
    /\ worker[w].pc # "idle"
    /\ worker' = [worker EXCEPT ![w] = IdleWorker]
    /\ UNCHANGED <<outbox, tried, sink, inboxVars>>

Tick ==
    /\ outbox' = [m \in Messages |->
          LET row == outbox[m]
          IN  Row(row.status, row.attempts, row.lockedBy,
                  IF row.lockedBy = Nobody \/ row.age > Lease THEN row.age ELSE row.age + 1,
                  IF row.wait = 0 THEN 0 ELSE row.wait - 1)]
    /\ UNCHANGED <<worker, tried, sink, inboxVars>>
-----------------------------------------------------------------------------
\* A message that reached the sink is handed to a consumer, any number of times.
Receive(c, m, payload) ==
    /\ consumer[c].pc = "idle"
    /\ m \in sink
    /\ consumer' = [consumer EXCEPT ![c] = [pc |-> "insert", message |-> m, payload |-> payload]]
    /\ UNCHANGED <<outboxVars, inbox, inboxHolder, effects>>

\* Mutant: the row is looked up first, and an uncommitted one is not seen.
InsertInboxUnseen(c) ==
    LET m == consumer[c].message
    IN  /\ consumer[c].pc = "insert"
        /\ inboxHolder' = IF inbox[m] = Nobody THEN [inboxHolder EXCEPT ![m] = c] ELSE inboxHolder
        /\ consumer' = [consumer EXCEPT ![c] = IF inbox[m] = Nobody THEN [@ EXCEPT !.pc = "handle"]
                                               ELSE IdleConsumer]
        /\ UNCHANGED <<outboxVars, inbox, effects>>

\* INSERT INTO inbox_messages ... ON CONFLICT DO NOTHING waits for an uncommitted row, and then
\* either takes its place or finds it completed: a replay, or another payload under the same id.
InsertInbox(c) ==
    LET m == consumer[c].message
    IN  /\ consumer[c].pc = "insert"
        /\ inboxHolder[m] = Nobody
        /\ \/ /\ inbox[m] = Nobody
              /\ inboxHolder' = [inboxHolder EXCEPT ![m] = c]
              /\ consumer' = [consumer EXCEPT ![c] = [pc |-> "handle", message |-> m,
                                                       payload |-> @.payload]]
           \/ /\ inbox[m] # Nobody
              /\ consumer' = [consumer EXCEPT ![c] = IdleConsumer]
              /\ UNCHANGED inboxHolder
        /\ UNCHANGED <<outboxVars, inbox, effects>>

\* The handler's effect and the completed row commit together.
CompleteInbox(c) ==
    LET m == consumer[c].message
    IN  /\ consumer[c].pc = "handle"
        /\ inbox' = [inbox EXCEPT ![m] = consumer[c].payload]
        /\ effects' = [effects EXCEPT ![m] = Append(@, consumer[c].payload)]
        /\ inboxHolder' = [inboxHolder EXCEPT ![m] = Nobody]
        /\ consumer' = [consumer EXCEPT ![c] = IdleConsumer]
        /\ UNCHANGED outboxVars

\* The handler throws, or the transaction is lost.
RollBackInbox(c) ==
    LET m == consumer[c].message
    IN  /\ consumer[c].pc = "handle"
        /\ inboxHolder' = [inboxHolder EXCEPT ![m] = Nobody]
        /\ consumer' = [consumer EXCEPT ![c] = IdleConsumer]
        /\ UNCHANGED <<outboxVars, inbox, effects>>
-----------------------------------------------------------------------------
WorkerStep(w) ==
    \/ ClaimOutboxBatch(w)
    \/ \E m \in Messages : Publish(w, m) \/ PublishFails(w, m)
    \/ MarkOutboxPublished(w)
    \/ MarkOutboxFailed(w)

ConsumerStep(c) == InsertInbox(c) \/ CompleteInbox(c) \/ RollBackInbox(c)

OutboxNext(messages, workers) ==
    \/ \E m \in messages : Enqueue(m)
    \/ \E w \in workers : WorkerStep(w) \/ WorkerCrashes(w)
    \/ Tick

InboxNext ==
    \/ \E c \in Consumers, m \in Messages, payload \in Payloads : Receive(c, m, payload)
    \/ \E c \in Consumers : ConsumerStep(c)

Next == OutboxNext(Messages, Workers) \/ InboxNext

Spec == Init /\ [][Next]_vars
-----------------------------------------------------------------------------
(***************************************************************************)
(* However often a message is delivered, with whatever payload, and        *)
(* whoever processes it at the same time, the handler's effect is          *)
(* committed at most once, and on the payload that the inbox row records.  *)
(***************************************************************************)
EffectOnce == \A m \in Messages : effects[m] = IF inbox[m] = Nobody THEN <<>> ELSE <<inbox[m]>>

(***************************************************************************)
(* A lease that has not run out is given up only by its holder while it    *)
(* works on the message: a worker that comes back late never releases,     *)
(* completes or kills a message another worker has leased since.  What is  *)
(* published or dead stays so.                                             *)
(***************************************************************************)
LeaseKept ==
    \A m \in Messages :
        LET holder == outbox[m].lockedBy
        IN  /\ (holder # Nobody /\ ~Expired(outbox[m]) /\ outbox'[m].lockedBy # holder)
                  => worker[holder].message = m
            /\ outbox[m].status \in {"published", "dead"} => outbox'[m] = outbox[m]

\* LeaseKept, of every step.
LeaseHonored == [][LeaseKept]_vars

(***************************************************************************)
(* Every message ends up published or dead-lettered, even if workers crash *)
(* on their last attempt: the sweep of expired final leases sees to it.    *)
(***************************************************************************)
EveryMessageSettles ==
    \A m \in Messages : outbox[m].status = "pending" ~> outbox[m].status \in {"published", "dead"}

(***************************************************************************)
(* The README of modules/persistence says that outbox delivery is          *)
(* at-least-once: the outbox is not done with a message, published or      *)
(* dead-lettered, before a worker has called publish for it.               *)
(***************************************************************************)
SettledWasTried ==
    \A m \in Messages : outbox[m].status \in {"published", "dead"} => m \in tried
=============================================================================
