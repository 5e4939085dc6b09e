----------------------------- MODULE CommandLog -----------------------------
(***************************************************************************)
(* What the event runtime promises its callers.  A command is a request,   *)
(* named by an idempotency key, to append events to some streams.  It is   *)
(* applied at one instant or not at all, on exactly the versions its       *)
(* caller had read, its events extending each stream without a gap, each   *)
(* with its outbox message; a key is applied at most once, and whoever is  *)
(* told that it was is told the same events.                               *)
(***************************************************************************)
EXTENDS Integers, FiniteSets, Sequences

CONSTANTS
    Streams,    \* the aggregates
    Commands    \* [key, hash, aggregate, streams]: streams lists the stream of each event

ASSUME CommandAssumption ==
    \A c \in Commands : /\ c.streams \in Seq(Streams)
                        /\ c.streams # <<>>
                        /\ c.aggregate \in Streams

Keys == {c.key : c \in Commands}

VARIABLES
    commandIdempotency,  \* the applied commands, each with the events it appended
    streamHeads,         \* the version of every stream
    domainEvents,        \* [key, sequence, stream, version, basis]: basis is what the caller had read
    outboxRows,          \* the events that have a message: <<key, sequence>>
    answers              \* what callers have been told: applied commands

logVars == <<commandIdempotency, streamHeads, domainEvents, outboxRows, answers>>

LogInit ==
    /\ commandIdempotency = {}
    /\ streamHeads = [s \in Streams |-> 0]
    /\ domainEvents = {}
    /\ outboxRows = {}
    /\ answers = {}

\* How many of the first n events of a command go to stream s.
EventsBefore(c, n, s) == Cardinality({i \in 1 .. n : c.streams[i] = s})

\* The events of command c, decided on the expected versions, when the streams are at versions.
EventsOf(c, versions, expected) ==
    {[key |-> c.key, sequence |-> i, stream |-> c.streams[i], basis |-> expected[c.streams[i]],
      version |-> versions[c.streams[i]] + EventsBefore(c, i, c.streams[i])] : i \in 1 .. Len(c.streams)}

Applied(c, events) == [key |-> c.key, hash |-> c.hash, aggregate |-> c.aggregate, events |-> events]

ApplyCommand(c) ==
    LET events == EventsOf(c, streamHeads, streamHeads)
    IN  /\ \A a \in commandIdempotency : a.key # c.key
        /\ commandIdempotency' = commandIdempotency \cup {Applied(c, events)}
        /\ streamHeads' = [s \in Streams |-> streamHeads[s] + EventsBefore(c, Len(c.streams), s)]
        /\ domainEvents' = domainEvents \cup events
        /\ outboxRows' = outboxRows \cup {<<e.key, e.sequence>> : e \in events}
        /\ answers' \in {answers, answers \cup {Applied(c, events)}}

\* A caller is told of an applied command: its own reply, or a replay.
Answer ==
    /\ \E a \in commandIdempotency : answers' = answers \cup {a}
    /\ UNCHANGED <<commandIdempotency, streamHeads, domainEvents, outboxRows>>

LogNext == Answer \/ \E c \in Commands : ApplyCommand(c)

LogSpec == LogInit /\ [][LogNext]_logVars
-----------------------------------------------------------------------------
(***************************************************************************)
(* No trace of a command without all of it: the stored events and outbox   *)
(* messages are exactly those of the completed commands, one command per   *)
(* idempotency key, and an answer reports what is stored.                  *)
(***************************************************************************)
CommandsWhole ==
    /\ domainEvents = UNION {a.events : a \in commandIdempotency}
    /\ outboxRows = {<<e.key, e.sequence>> : e \in domainEvents}
    /\ Cardinality(outboxRows) = Cardinality(domainEvents)
    /\ \A a, b \in commandIdempotency : a.key = b.key => a = b
    /\ answers \subseteq commandIdempotency
=============================================================================
