--------------------------- MODULE CommandRuntime ---------------------------
(***************************************************************************)
(* appendCommandBatch of modules/persistence/src/postgres-event-repository *)
(* .js, one SQL statement at a time, run by concurrent writers.  The       *)
(* variables of CommandLog are the committed rows.  A transaction's own    *)
(* writes become visible when it commits; until then others see only the   *)
(* locks it holds: the uncommitted row of its idempotency key, and the     *)
(* stream heads that it inserted or locked FOR UPDATE.  A statement that   *)
(* meets another transaction's lock waits: its action is not enabled.      *)
(*                                                                         *)
(* A stream without a committed head row has version 0: no transaction     *)
(* commits a head without an event.                                        *)
(***************************************************************************)
EXTENDS CommandLog

CONSTANTS
    Writers,             \* the concurrent callers, one database connection each
    NoWriter,
    Rank,                \* the position of a stream in the order by which the code sorts them
    TransactionRetries,  \* the repository's transactionRetries
    MaxCalls             \* bound: how many calls are made in all

ASSUME RuntimeAssumption ==
    /\ NoWriter \notin Writers
    /\ Rank \in [Streams -> Nat]
    /\ \A r, s \in Streams : Rank[r] = Rank[s] => r = s
    /\ TransactionRetries \in Nat
    /\ MaxCalls \in Nat

VARIABLES
    keyHolder,   \* who has inserted a key's row and not yet committed
    headHolder,  \* who holds a stream's head row
    tx,          \* every writer's call: [pc, command, expected, attempt, todo, versions]
    callsMade

runtimeVars == <<logVars, keyHolder, headHolder, tx, callsMade>>

NoCall == [pc |-> "idle"]

RuntimeInit ==
    /\ LogInit
    /\ keyHolder = [k \in Keys |-> NoWriter]
    /\ headHolder = [s \in Streams |-> NoWriter]
    /\ tx = [w \in Writers |-> NoCall]
    /\ callsMade = 0

StreamsOf(c) == {c.streams[i] : i \in 1 .. Len(c.streams)}

\* Mutant: the streams in the order in which the command names them.
NextAsNamed(c, todo) ==
    {s \in todo : \E i \in 1 .. Len(c.streams) :
                     c.streams[i] = s /\ \A j \in 1 .. i - 1 : c.streams[j] \notin todo}

\* Sorted, so that two commands on the same streams take their locks in the same order.
NextInOrder(c, todo) == {s \in todo : \A r \in todo : Rank[s] <= Rank[r]}

(***************************************************************************)
(* The caller has read the versions of the streams and derives from them   *)
(* the expectedVersion of every event; others may commit before the call   *)
(* gets to the database.                                                   *)
(***************************************************************************)
AppendCommandBatch(w, c) ==
    /\ tx[w].pc = "idle"
    /\ callsMade < MaxCalls
    /\ callsMade' = callsMade + 1
    /\ tx' = [tx EXCEPT ![w] = [pc |-> "reserve", command |-> c, expected |-> streamHeads,
                                attempt |-> 0, todo |-> StreamsOf(c), versions |-> streamHeads]]
    /\ UNCHANGED <<logVars, keyHolder, headHolder>>

ReleaseLocks(w) ==
    /\ keyHolder' = [k \in Keys |-> IF keyHolder[k] = w THEN NoWriter ELSE keyHolder[k]]
    /\ headHolder' = [s \in Streams |-> IF headHolder[s] = w THEN NoWriter ELSE headHolder[s]]

EndCall(w) ==
    /\ tx' = [tx EXCEPT ![w] = NoCall]
    /\ ReleaseLocks(w)
    /\ UNCHANGED callsMade

\* The call goes on to another statement.
Goes(w, pc, todo, versions) ==
    tx' = [tx EXCEPT ![w] = [pc |-> pc, command |-> @.command, expected |-> @.expected,
                             attempt |-> @.attempt, todo |-> todo, versions |-> versions]]

\* INSERT INTO command_idempotency ... ON CONFLICT DO NOTHING returned a row.
ReserveCommand(w) ==
    LET c == tx[w].command
    IN  /\ tx[w].pc = "reserve"
        /\ keyHolder[c.key] = NoWriter
        /\ \A a \in commandIdempotency : a.key # c.key
        /\ keyHolder' = [keyHolder EXCEPT ![c.key] = w]
        /\ Goes(w, "create", tx[w].todo, tx[w].versions)
        /\ UNCHANGED <<logVars, headHolder, callsMade>>

\* Mutant: the stored answer is replayed for a different command hash.
FindCommandByKey(w) ==
    LET c == tx[w].command
    IN  /\ tx[w].pc = "reserve"
        /\ keyHolder[c.key] = NoWriter
        /\ \E a \in commandIdempotency : a.key = c.key /\ answers' = answers \cup {Applied(c, a.events)}
        /\ EndCall(w)
        /\ UNCHANGED <<commandIdempotency, streamHeads, domainEvents, outboxRows>>

\* It returned none: #findCommand replays the stored answer, or refuses another hash or aggregate.
FindCommand(w) ==
    LET c == tx[w].command
    IN  /\ tx[w].pc = "reserve"
        /\ keyHolder[c.key] = NoWriter
        /\ \E a \in commandIdempotency :
              /\ a.key = c.key
              /\ answers' = IF a.hash = c.hash /\ a.aggregate = c.aggregate
                            THEN answers \cup {Applied(c, a.events)}
                            ELSE answers
        /\ EndCall(w)
        /\ UNCHANGED <<commandIdempotency, streamHeads, domainEvents, outboxRows>>

\* A loop over the sorted streams has done s; the pc after the loop.
Advance(w, s, versions, after) ==
    IF tx[w].todo = {s}
    THEN Goes(w, after, StreamsOf(tx[w].command), versions)
    ELSE Goes(w, tx[w].pc, tx[w].todo \ {s}, versions)

\* INSERT INTO aggregate_stream_heads ... ON CONFLICT DO NOTHING: locks the row only if it is new.
CreateStreamHead(w) ==
    /\ tx[w].pc = "create"
    /\ \E s \in NextInOrder(tx[w].command, tx[w].todo) :
            /\ \/ /\ streamHeads[s] # 0
                  /\ UNCHANGED headHolder
               \/ /\ streamHeads[s] = 0
                  /\ headHolder[s] = NoWriter
                  /\ headHolder' = [headHolder EXCEPT ![s] = w]
            /\ Advance(w, s, tx[w].versions, "lock")
    /\ UNCHANGED <<logVars, keyHolder, callsMade>>

\* SELECT current_version ... FOR UPDATE: the version is read once the lock is held.
LockStreamHead(w) ==
    /\ tx[w].pc = "lock"
    /\ \E s \in NextInOrder(tx[w].command, tx[w].todo) :
            /\ headHolder[s] \in {NoWriter, w}
            /\ headHolder' = [headHolder EXCEPT ![s] = w]
            /\ Advance(w, s, [tx[w].versions EXCEPT ![s] = streamHeads[s]], "write")
    /\ UNCHANGED <<logVars, keyHolder, callsMade>>

\* Mutant: the expected version is not compared.
AnyVersion(w) == tx[w].pc = "write"

StreamsUnchanged(w) ==
    \A s \in StreamsOf(tx[w].command) : tx[w].versions[s] = tx[w].expected[s]

\* The events, their evidence and messages and the projection, all still uncommitted.
WriteEvents(w) ==
    /\ tx[w].pc = "write"
    /\ StreamsUnchanged(w)
    /\ Goes(w, "commit", tx[w].todo, tx[w].versions)
    /\ UNCHANGED <<logVars, keyHolder, headHolder, callsMade>>

\* stale_aggregate_version: the transaction is rolled back and the caller is told.
StaleVersion(w) ==
    /\ tx[w].pc = "write"
    /\ ~StreamsUnchanged(w)
    /\ EndCall(w)
    /\ UNCHANGED logVars

\* COMMIT.  The reply may get lost, and then the caller does not know.
Commit(w) ==
    LET c == tx[w].command
        events == EventsOf(c, tx[w].versions, tx[w].expected)
    IN  /\ tx[w].pc = "commit"
        /\ commandIdempotency' = commandIdempotency \cup {Applied(c, events)}
        /\ streamHeads' = [s \in Streams |->
                              IF s \in StreamsOf(c)
                              THEN tx[w].versions[s] + EventsBefore(c, Len(c.streams), s)
                              ELSE streamHeads[s]]
        /\ domainEvents' = domainEvents \cup events
        /\ outboxRows' = outboxRows \cup {<<e.key, e.sequence>> : e \in events}
        /\ answers' \in {answers, answers \cup {Applied(c, events)}}
        /\ EndCall(w)

(***************************************************************************)
(* A serialization failure or a deadlock ends the transaction, and the     *)
(* call tries again; any other error, or the loss of the connection or of  *)
(* the process, ends the transaction and the call.                         *)
(***************************************************************************)
RetryTransaction(w) ==
    /\ tx[w].pc # "idle"
    /\ tx[w].attempt < TransactionRetries
    /\ tx' = [tx EXCEPT ![w] = [pc |-> "reserve", command |-> @.command, expected |-> @.expected,
                                attempt |-> @.attempt + 1, todo |-> StreamsOf(@.command),
                                versions |-> @.versions]]
    /\ ReleaseLocks(w)
    /\ UNCHANGED <<logVars, callsMade>>

FailTransaction(w) ==
    /\ tx[w].pc # "idle"
    /\ EndCall(w)
    /\ UNCHANGED logVars

\* The statements of a call, in the absence of faults.
Statement(w) ==
    \/ ReserveCommand(w)
    \/ FindCommand(w)
    \/ CreateStreamHead(w)
    \/ LockStreamHead(w)
    \/ WriteEvents(w)
    \/ StaleVersion(w)
    \/ Commit(w)

RuntimeNext ==
    \E w \in Writers :
        \/ \E c \in Commands : AppendCommandBatch(w, c)
        \/ Statement(w)
        \/ RetryTransaction(w)
        \/ FailTransaction(w)

RuntimeSpec == RuntimeInit /\ [][RuntimeNext]_runtimeVars
-----------------------------------------------------------------------------
(***************************************************************************)
(* Writers never wait for each other in a circle: every call ends, even if *)
(* no deadlock is ever broken by the database, because locks are taken on  *)
(* the key first and then on the streams in sorted order.                  *)
(***************************************************************************)
EveryCallEnds == \A w \in Writers : tx[w].pc # "idle" ~> tx[w].pc = "idle"
=============================================================================
