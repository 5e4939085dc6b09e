---------------------------- MODULE RuntimeProofs ----------------------------
(***************************************************************************)
(* Proofs about the event runtime, for any number of writers, streams,     *)
(* commands, workers, messages and consumers: the transactions of          *)
(* CommandRuntime implement CommandLog, which leaves no part of a command  *)
(* behind, and the leases and the inbox of EventDelivery.                  *)
(***************************************************************************)
EXTENDS CommandRuntime, EventDelivery, FunctionTheorems, FiniteSetTheorems, TLAPS
-----------------------------------------------------------------------------
\* A command appends a natural number of events to a stream.
LEMMA EventsBeforeNat ==
    ASSUME NEW c, NEW n \in Nat, NEW s
    PROVE  EventsBefore(c, n, s) \in Nat
<1> DEFINE S == {i \in 1 .. n : c.streams[i] = s}
<1>1. IsFiniteSet(1 .. n)
  BY FS_Interval
<1>2. IsFiniteSet(S)
  BY <1>1, FS_Subset
<1> QED BY <1>2, FS_CardinalityType DEF EventsBefore

\* The events of a command: finitely many, under its key, told apart by their sequence numbers.
LEMMA EventsOfCommand ==
    ASSUME NEW c \in Commands, NEW versions, NEW expected
    PROVE  LET events == EventsOf(c, versions, expected)
           IN  /\ IsFiniteSet(events)
               /\ \A e \in events : e.key = c.key
               /\ \A e, f \in events : e.sequence = f.sequence => e = f
<1> DEFINE Event(i) == [key |-> c.key, sequence |-> i, stream |-> c.streams[i],
                        basis |-> expected[c.streams[i]],
                        version |-> versions[c.streams[i]] + EventsBefore(c, i, c.streams[i])]
           I == 1 .. Len(c.streams)
           events == {Event(i) : i \in I}
           f == [i \in I |-> Event(i)]
<1>1. Len(c.streams) \in Nat
  BY CommandAssumption
<1>2. IsFiniteSet(I)
  BY <1>1, FS_Interval
<1>3. f \in Surjection(I, events)
  BY Zenon DEF Surjection
<1>4. IsFiniteSet(events)
  BY <1>2, <1>3, FS_Surjection
<1>5. events = EventsOf(c, versions, expected)
  BY Zenon DEF EventsOf
<1>6. \A i \in I : Event(i).key = c.key /\ Event(i).sequence = i
  OBVIOUS
<1> HIDE DEF Event
<1>7. /\ \A e \in events : e.key = c.key
      /\ \A e, d \in events : e.sequence = d.sequence => e = d
  BY <1>6
<1> HIDE DEF events
<1> QED BY <1>4, <1>5, <1>7

(***************************************************************************)
(* What every applied command is, and what CommandsWhole says, with the    *)
(* facts about keys and sequence numbers that tell one event from another. *)
(***************************************************************************)
LogInv ==
    /\ streamHeads \in [Streams -> Nat]
    /\ \A a \in commandIdempotency :
          /\ a = [key |-> a.key, hash |-> a.hash, aggregate |-> a.aggregate, events |-> a.events]
          /\ \A e \in a.events : e.key = a.key
          /\ \A e, f \in a.events : e.sequence = f.sequence => e = f
    /\ IsFiniteSet(domainEvents)
    /\ domainEvents = UNION {a.events : a \in commandIdempotency}
    /\ outboxRows = {<<e.key, e.sequence>> : e \in domainEvents}
    /\ \A a, b \in commandIdempotency : a.key = b.key => a = b
    /\ answers \subseteq commandIdempotency

\* The empty tables.
LEMMA InitLogInv == LogInit => LogInv
BY FS_EmptySet DEF LogInit, LogInv

\* A command is applied under a key that is new.
LEMMA ApplyKeepsLogInv ==
    ASSUME LogInv, NEW c \in Commands, ApplyCommand(c)
    PROVE  LogInv'
<1> DEFINE events == EventsOf(c, streamHeads, streamHeads)
           new == Applied(c, events)
<1>1. /\ IsFiniteSet(events)
      /\ \A e \in events : e.key = c.key
      /\ \A e, f \in events : e.sequence = f.sequence => e = f
  BY EventsOfCommand
<1>2. /\ \A a \in commandIdempotency : a.key # c.key
      /\ commandIdempotency' = commandIdempotency \cup {new}
      /\ streamHeads' = [s \in Streams |-> streamHeads[s] + EventsBefore(c, Len(c.streams), s)]
      /\ domainEvents' = domainEvents \cup events
      /\ outboxRows' = outboxRows \cup {<<e.key, e.sequence>> : e \in events}
      /\ answers' \in {answers, answers \cup {new}}
  BY DEF ApplyCommand
<1>3. new = [key |-> new.key, hash |-> new.hash, aggregate |-> new.aggregate, events |-> new.events]
      /\ new.key = c.key /\ new.events = events
  BY DEF Applied
<1>4. streamHeads' \in [Streams -> Nat]
  <2>1. Len(c.streams) \in Nat
    BY CommandAssumption
  <2> QED BY <1>2, <2>1, EventsBeforeNat DEF LogInv
<1>5. IsFiniteSet(domainEvents')
  BY <1>1, <1>2, FS_Union, Zenon DEF LogInv
<1> HIDE DEF events, new
<1>6. domainEvents' = UNION {a.events : a \in commandIdempotency'}
  <2>1. UNION {a.events : a \in commandIdempotency'}
          = (UNION {a.events : a \in commandIdempotency}) \cup new.events
    BY <1>2, Zenon
  <2> QED BY <1>2, <1>3, <2>1 DEF LogInv
<1>7. outboxRows' = {<<e.key, e.sequence>> : e \in domainEvents'}
  <2>1. outboxRows = {<<e.key, e.sequence>> : e \in domainEvents}
    BY DEF LogInv
  <2> QED BY <1>2, <2>1, Zenon
<1>8. \A a, b \in commandIdempotency' : a.key = b.key => a = b
  BY <1>2, <1>3 DEF LogInv
<1>9. answers' \subseteq commandIdempotency'
  BY <1>2 DEF LogInv
<1>10. \A a \in commandIdempotency' :
          /\ a = [key |-> a.key, hash |-> a.hash, aggregate |-> a.aggregate, events |-> a.events]
          /\ \A e \in a.events : e.key = a.key
          /\ \A e, f \in a.events : e.sequence = f.sequence => e = f
  BY <1>1, <1>2, <1>3 DEF LogInv
<1> QED BY <1>4, <1>5, <1>6, <1>7, <1>8, <1>9, <1>10 DEF LogInv

\* Every step of the log keeps its invariant.
LEMMA NextKeepsLogInv == LogInv /\ [LogNext]_logVars => LogInv'
<1> SUFFICES ASSUME LogInv, [LogNext]_logVars PROVE LogInv'
  OBVIOUS
<1>1. CASE Answer
  BY <1>1 DEF Answer, LogInv
<1>2. ASSUME NEW c \in Commands, ApplyCommand(c) PROVE LogInv'
  BY <1>2, ApplyKeepsLogInv
<1>3. CASE UNCHANGED logVars
  BY <1>3 DEF logVars, LogInv
<1> QED BY <1>1, <1>2, <1>3 DEF LogNext

\* An event and its outbox row determine each other, so there are as many of the one as of the other.
LEMMA LogInvIsWhole == LogInv => CommandsWhole
<1> SUFFICES ASSUME LogInv PROVE Cardinality(outboxRows) = Cardinality(domainEvents)
  BY DEF LogInv, CommandsWhole
<1> DEFINE f == [e \in domainEvents |-> <<e.key, e.sequence>>]
<1>1. \A e, d \in domainEvents : e.key = d.key /\ e.sequence = d.sequence => e = d
  BY DEF LogInv
<1>2. \A e, d \in domainEvents : f[e] = f[d] => e = d
  BY <1>1
<1>3. f \in [domainEvents -> outboxRows] /\ \A r \in outboxRows : \E e \in domainEvents : f[e] = r
  BY Zenon DEF LogInv
<1>4. f \in Bijection(domainEvents, outboxRows)
  BY <1>2, <1>3, Zenon DEF Bijection, Injection, Surjection, IsInjective
<1> QED BY <1>4, FS_Bijection DEF ExistsBijection, LogInv

(***************************************************************************)
(* The abstract log never holds a part of a command.                       *)
(***************************************************************************)
THEOREM LogCommandsWhole == LogSpec => []CommandsWhole
<1>1. LogSpec => []LogInv
  BY InitLogInv, NextKeepsLogInv, PTL DEF LogSpec
<1> QED BY <1>1, LogInvIsWhole, PTL
-----------------------------------------------------------------------------
(***************************************************************************)
(* What a transaction may rely on.  Once it has reserved its key, nobody   *)
(* else holds the key and no command is stored under it.  The streams it   *)
(* has locked are its own, and their versions are still those it read; and *)
(* it commits only on the versions its caller had read.                    *)
(***************************************************************************)
Reserved == {"create", "lock", "write", "commit"}

CallRecords == [pc : {"reserve"} \cup Reserved, command : Commands, expected : [Streams -> Nat],
          attempt : Nat, todo : SUBSET Streams, versions : [Streams -> Nat]]

LocksType ==
    /\ keyHolder \in [Keys -> Writers \cup {NoWriter}]
    /\ headHolder \in [Streams -> Writers \cup {NoWriter}]
    /\ tx \in [Writers -> {NoCall} \cup CallRecords]

KeyReserved ==
    \A w \in Writers : tx[w].pc \in Reserved =>
        /\ keyHolder[tx[w].command.key] = w
        /\ \A a \in commandIdempotency : a.key # tx[w].command.key

HeadsLocked ==
    \A w \in Writers : \A s \in Streams :
        (/\ s \in StreamsOf(tx[w].command)
         /\ \/ tx[w].pc = "lock" /\ s \notin tx[w].todo
            \/ tx[w].pc \in {"write", "commit"})
        => headHolder[s] = w /\ tx[w].versions[s] = streamHeads[s]

DecidedOnRead ==
    \A w \in Writers : tx[w].pc = "commit" =>
        \A s \in StreamsOf(tx[w].command) : tx[w].versions[s] = tx[w].expected[s]

RuntimeInv == LogInv /\ LocksType /\ KeyReserved /\ HeadsLocked /\ DecidedOnRead

\* The streams of a command are streams, and its key a key.
LEMMA CommandFacts ==
    ASSUME NEW c \in Commands
    PROVE  /\ StreamsOf(c) \subseteq Streams
           /\ c.key \in Keys
           /\ Len(c.streams) \in Nat
           /\ \A i \in 1 .. Len(c.streams) : c.streams[i] \in StreamsOf(c)
BY CommandAssumption DEF StreamsOf, Keys

\* A call in progress has a command and what was read for it.
LEMMA CallInProgress ==
    ASSUME LocksType, NEW w \in Writers, tx[w].pc # "idle"
    PROVE  tx[w] \in CallRecords
BY DEF LocksType, NoCall

\* The keys that transactions have reserved are keys.
LEMMA ReservedKeys ==
    ASSUME LocksType, NEW w \in Writers, tx[w].pc \in Reserved
    PROVE  tx[w].command.key \in Keys
<1>1. tx[w] \in CallRecords
  BY CallInProgress DEF Reserved
<1> QED BY <1>1, CommandFacts DEF CallRecords

\* No transaction is running.
LEMMA InitRuntimeInv == RuntimeInit => RuntimeInv
BY InitLogInv DEF RuntimeInit, RuntimeInv, LocksType, KeyReserved, HeadsLocked, DecidedOnRead,
   NoCall, Reserved

(***************************************************************************)
(* A commit is the application of the command at that instant: what the    *)
(* transaction read of its streams is what they are.                       *)
(***************************************************************************)
LEMMA CommitApplies ==
    ASSUME RuntimeInv, NEW w \in Writers, Commit(w)
    PROVE  tx[w].command \in Commands /\ ApplyCommand(tx[w].command)
<1> DEFINE c == tx[w].command
           versions == tx[w].versions
           expected == tx[w].expected
<1>1. tx[w] \in CallRecords /\ tx[w].pc = "commit"
  BY CallInProgress DEF Commit, RuntimeInv
<1>2. c \in Commands
  BY <1>1 DEF CallRecords
<1>3. \A s \in StreamsOf(c) : versions[s] = streamHeads[s] /\ expected[s] = streamHeads[s]
  BY <1>1, <1>2, CommandFacts DEF RuntimeInv, HeadsLocked, DecidedOnRead
<1> HIDE DEF c, versions, expected
<1>4. EventsOf(c, versions, expected) = EventsOf(c, streamHeads, streamHeads)
  <2>1. \A i \in 1 .. Len(c.streams) : /\ versions[c.streams[i]] = streamHeads[c.streams[i]]
                                       /\ expected[c.streams[i]] = streamHeads[c.streams[i]]
    BY <1>2, <1>3, CommandFacts
  <2> QED BY <2>1, Zenon DEF EventsOf
<1>5. \A s \in Streams : s \notin StreamsOf(c) => EventsBefore(c, Len(c.streams), s) = 0
  <2> SUFFICES ASSUME NEW s \in Streams, s \notin StreamsOf(c)
               PROVE  EventsBefore(c, Len(c.streams), s) = 0
    OBVIOUS
  <2>1. {i \in 1 .. Len(c.streams) : c.streams[i] = s} = {}
    BY <1>2, CommandFacts
  <2> QED BY <2>1, FS_EmptySet DEF EventsBefore
<1>6. \A a \in commandIdempotency : a.key # c.key
  BY <1>1 DEF RuntimeInv, KeyReserved, Reserved, c
<1>7. streamHeads \in [Streams -> Nat]
  BY DEF RuntimeInv, LogInv
<1>8. \A s \in Streams : (IF s \in StreamsOf(c) THEN versions[s] + EventsBefore(c, Len(c.streams), s)
                          ELSE streamHeads[s]) = streamHeads[s] + EventsBefore(c, Len(c.streams), s)
  BY <1>3, <1>5, <1>7
<1>9. /\ commandIdempotency' = commandIdempotency \cup {Applied(c, EventsOf(c, streamHeads, streamHeads))}
      /\ domainEvents' = domainEvents \cup EventsOf(c, streamHeads, streamHeads)
      /\ outboxRows' = outboxRows \cup {<<e.key, e.sequence>> : e \in EventsOf(c, streamHeads, streamHeads)}
      /\ answers' \in {answers, answers \cup {Applied(c, EventsOf(c, streamHeads, streamHeads))}}
  BY <1>4, Zenon DEF Commit, c, versions, expected
<1>10. streamHeads' = [s \in Streams |-> streamHeads[s] + EventsBefore(c, Len(c.streams), s)]
  <2>1. streamHeads' = [s \in Streams |-> IF s \in StreamsOf(c)
                                          THEN versions[s] + EventsBefore(c, Len(c.streams), s)
                                          ELSE streamHeads[s]]
    BY Zenon DEF Commit, c, versions
  <2> QED BY <1>8, <2>1, Zenon
<1>11. ApplyCommand(c)
  BY <1>6, <1>9, <1>10, Zenon DEF ApplyCommand
<1> QED BY <1>2, <1>11 DEF c

\* What is replayed is the stored command, because the key, the hash and the aggregate agree.
LEMMA FindAnswers ==
    ASSUME RuntimeInv, NEW w \in Writers, FindCommand(w)
    PROVE  [Answer]_logVars
<1> DEFINE c == tx[w].command
<1>1. PICK a \in commandIdempotency :
        /\ a.key = c.key
        /\ answers' = IF a.hash = c.hash /\ a.aggregate = c.aggregate
                      THEN answers \cup {Applied(c, a.events)} ELSE answers
  BY DEF FindCommand
<1>2. UNCHANGED <<commandIdempotency, streamHeads, domainEvents, outboxRows>>
  BY DEF FindCommand
<1>3. CASE a.hash = c.hash /\ a.aggregate = c.aggregate
  <2>1. a = [key |-> a.key, hash |-> a.hash, aggregate |-> a.aggregate, events |-> a.events]
    BY DEF RuntimeInv, LogInv
  <2>2. Applied(c, a.events) = a
    BY <1>1, <1>3, <2>1 DEF Applied
  <2> QED BY <1>1, <1>2, <1>3, <2>2 DEF Answer
<1>4. CASE ~(a.hash = c.hash /\ a.aggregate = c.aggregate)
  BY <1>1, <1>2, <1>4 DEF logVars
<1> QED BY <1>3, <1>4

\* Every statement maps to a step of the log, or to none.
LEMMA StepIsLogStep == RuntimeInv /\ [RuntimeNext]_runtimeVars => [LogNext]_logVars
<1> SUFFICES ASSUME RuntimeInv, [RuntimeNext]_runtimeVars PROVE [LogNext]_logVars
  OBVIOUS
<1>1. CASE UNCHANGED runtimeVars
  BY <1>1 DEF runtimeVars
<1>2. ASSUME NEW w \in Writers, Commit(w) PROVE LogNext
  BY <1>2, CommitApplies DEF LogNext
<1>3. ASSUME NEW w \in Writers, FindCommand(w) PROVE [LogNext]_logVars
  BY <1>3, FindAnswers DEF LogNext
<1>4. ASSUME NEW w \in Writers,
             \/ \E c \in Commands : AppendCommandBatch(w, c)
             \/ ReserveCommand(w) \/ CreateStreamHead(w) \/ LockStreamHead(w)
             \/ WriteEvents(w) \/ StaleVersion(w) \/ RetryTransaction(w) \/ FailTransaction(w)
      PROVE  UNCHANGED logVars
  BY <1>4 DEF AppendCommandBatch, ReserveCommand, CreateStreamHead, LockStreamHead, WriteEvents,
     StaleVersion, RetryTransaction, FailTransaction
<1> QED BY <1>1, <1>2, <1>3, <1>4 DEF RuntimeNext, Statement

TxInv == LocksType /\ KeyReserved /\ HeadsLocked /\ DecidedOnRead

\* A call starts without locks.
LEMMA AppendKeepsTxInv ==
    ASSUME RuntimeInv, NEW w \in Writers, NEW c \in Commands, AppendCommandBatch(w, c)
    PROVE  TxInv'
<1>1. tx' = [tx EXCEPT ![w] = [pc |-> "reserve", command |-> c, expected |-> streamHeads,
                               attempt |-> 0, todo |-> StreamsOf(c), versions |-> streamHeads]]
      /\ UNCHANGED <<logVars, keyHolder, headHolder>>
  BY DEF AppendCommandBatch
<1>2. LocksType'
  BY <1>1, CommandFacts DEF RuntimeInv, LogInv, LocksType, CallRecords
<1> QED BY <1>1, <1>2 DEF RuntimeInv, TxInv, LocksType, KeyReserved, HeadsLocked, DecidedOnRead,
        Reserved, logVars

\* The key was free, and is the writer's now.
LEMMA ReserveKeepsTxInv ==
    ASSUME RuntimeInv, NEW w \in Writers, ReserveCommand(w)
    PROVE  TxInv'
<1> DEFINE c == tx[w].command
<1>1. tx[w] \in CallRecords
  BY CallInProgress DEF ReserveCommand, RuntimeInv
<1>2. c \in Commands /\ c.key \in Keys
  BY <1>1, CommandFacts DEF CallRecords
<1>3. LocksType'
  BY <1>1, <1>2 DEF ReserveCommand, Goes, RuntimeInv, LocksType, CallRecords, Reserved
<1>4. KeyReserved'
  <2>1. \A v \in Writers : tx[v].pc \in Reserved => tx[v].command.key \in Keys
    BY ReservedKeys DEF RuntimeInv
  <2> QED BY <1>1, <1>2, <2>1, RuntimeAssumption DEF ReserveCommand, Goes, RuntimeInv, LocksType,
          KeyReserved, CallRecords, logVars
<1>5. HeadsLocked' /\ DecidedOnRead'
  BY <1>1 DEF ReserveCommand, Goes, RuntimeInv, LocksType, HeadsLocked, DecidedOnRead, logVars
<1> QED BY <1>3, <1>4, <1>5 DEF TxInv

\* A head that is inserted was nobody's.
LEMMA CreateKeepsTxInv ==
    ASSUME RuntimeInv, NEW w \in Writers, CreateStreamHead(w)
    PROVE  TxInv'
<1>1. tx[w] \in CallRecords /\ tx[w].pc = "create" /\ tx[w].command \in Commands
  BY CallInProgress DEF CreateStreamHead, RuntimeInv, CallRecords
<1>2. StreamsOf(tx[w].command) \subseteq Streams
  BY <1>1, CommandFacts
<1>3. PICK s \in tx[w].todo :
        /\ \/ headHolder' = headHolder
           \/ headHolder[s] = NoWriter /\ headHolder' = [headHolder EXCEPT ![s] = w]
        /\ Advance(w, s, tx[w].versions, "lock")
        /\ UNCHANGED <<logVars, keyHolder>>
  BY DEF CreateStreamHead, NextInOrder
<1>4. PICK pc \in {"create", "lock"}, todo \in SUBSET Streams :
        /\ Goes(w, pc, todo, tx[w].versions)
        /\ pc = "lock" => todo = StreamsOf(tx[w].command)
  BY <1>1, <1>2, <1>3 DEF Advance, CallRecords
<1>5. s \in Streams
  BY <1>1, <1>3 DEF CallRecords
<1>6. LocksType'
  BY <1>1, <1>3, <1>4, <1>5 DEF Goes, RuntimeInv, LocksType, CallRecords, Reserved
<1>7. KeyReserved'
  BY <1>1, <1>3, <1>4 DEF Goes, RuntimeInv, LocksType, KeyReserved, CallRecords, Reserved, logVars
<1>8. HeadsLocked'
  BY <1>1, <1>3, <1>4, <1>5, RuntimeAssumption DEF Goes, RuntimeInv, LocksType, HeadsLocked, logVars
<1>9. DecidedOnRead'
  BY <1>1, <1>3, <1>4 DEF Goes, RuntimeInv, LocksType, DecidedOnRead, logVars
<1> QED BY <1>6, <1>7, <1>8, <1>9 DEF TxInv

\* A head that is locked is the writer's, and its version is read under the lock.
LEMMA LockKeepsTxInv ==
    ASSUME RuntimeInv, NEW w \in Writers, LockStreamHead(w)
    PROVE  TxInv'
<1>1. tx[w] \in CallRecords /\ tx[w].pc = "lock" /\ tx[w].command \in Commands
  BY CallInProgress DEF LockStreamHead, RuntimeInv, CallRecords
<1>2. StreamsOf(tx[w].command) \subseteq Streams
  BY <1>1, CommandFacts
<1>3. PICK s \in tx[w].todo :
        /\ headHolder[s] \in {NoWriter, w}
        /\ headHolder' = [headHolder EXCEPT ![s] = w]
        /\ Advance(w, s, [tx[w].versions EXCEPT ![s] = streamHeads[s]], "write")
        /\ UNCHANGED <<logVars, keyHolder>>
  BY Zenon DEF LockStreamHead, NextInOrder
<1> DEFINE versions == [tx[w].versions EXCEPT ![s] = streamHeads[s]]
<1>4. PICK pc \in {"lock", "write"}, todo \in SUBSET Streams :
        /\ Goes(w, pc, todo, versions)
        /\ pc = "lock" => todo = tx[w].todo \ {s}
        /\ pc = "write" => tx[w].todo = {s}
  BY <1>1, <1>2, <1>3 DEF Advance, CallRecords
<1>5. s \in Streams /\ versions \in [Streams -> Nat] /\ versions[s] = streamHeads[s]
      /\ \A r \in Streams : r # s => versions[r] = tx[w].versions[r]
  BY <1>1, <1>3 DEF CallRecords, RuntimeInv, LogInv
<1> HIDE DEF versions
<1>6. LocksType'
  BY <1>1, <1>3, <1>4, <1>5, Zenon DEF Goes, RuntimeInv, LocksType, CallRecords, Reserved
<1>7. KeyReserved'
  BY <1>1, <1>3, <1>4 DEF Goes, RuntimeInv, LocksType, KeyReserved, CallRecords, Reserved, logVars
<1>8. HeadsLocked'
  BY <1>1, <1>3, <1>4, <1>5, RuntimeAssumption DEF Goes, RuntimeInv, LocksType, HeadsLocked, logVars
<1>9. DecidedOnRead'
  BY <1>1, <1>3, <1>4 DEF Goes, RuntimeInv, LocksType, DecidedOnRead, logVars
<1> QED BY <1>6, <1>7, <1>8, <1>9 DEF TxInv

\* The versions were compared with what the caller had read.
LEMMA WriteKeepsTxInv ==
    ASSUME RuntimeInv, NEW w \in Writers, WriteEvents(w)
    PROVE  TxInv'
<1>1. tx[w] \in CallRecords
  BY CallInProgress DEF WriteEvents, RuntimeInv
<1>2. LocksType'
  BY <1>1 DEF WriteEvents, Goes, RuntimeInv, LocksType, CallRecords, Reserved
<1>3. KeyReserved'
  BY <1>1 DEF WriteEvents, Goes, RuntimeInv, LocksType, KeyReserved, CallRecords, Reserved, logVars
<1>4. HeadsLocked'
  BY <1>1 DEF WriteEvents, Goes, RuntimeInv, LocksType, HeadsLocked, CallRecords, logVars
<1>5. DecidedOnRead'
  BY <1>1 DEF WriteEvents, Goes, StreamsUnchanged, RuntimeInv, LocksType, DecidedOnRead, CallRecords
<1> QED BY <1>2, <1>3, <1>4, <1>5 DEF TxInv

\* Whoever lets go of its locks has nothing left to rely on; the others keep theirs.
LEMMA ReleaseKeepsTxInv ==
    ASSUME RuntimeInv, NEW w \in Writers, ReleaseLocks(w),
           NEW t \in {NoCall} \cup CallRecords, t.pc \in {"idle", "reserve"}, tx' = [tx EXCEPT ![w] = t],
           \A v \in Writers : v # w /\ tx[v].pc \in Reserved =>
               \A a \in commandIdempotency' : a.key # tx[v].command.key,
           \A s \in Streams : headHolder[s] # w => streamHeads'[s] = streamHeads[s]
    PROVE  TxInv'
<1>1. LocksType'
  BY DEF ReleaseLocks, RuntimeInv, LocksType
<1>2. \A v \in Writers : v # w => /\ tx'[v] = tx[v]
                                  /\ tx[v].pc \in Reserved => tx[v].command.key \in Keys
  BY ReservedKeys DEF RuntimeInv, LocksType
<1>3. tx'[w] = t
  BY DEF RuntimeInv, LocksType
<1>4. KeyReserved'
  BY <1>2, <1>3 DEF ReleaseLocks, RuntimeInv, LocksType, KeyReserved, Reserved
<1>5. HeadsLocked'
  BY <1>2, <1>3 DEF ReleaseLocks, RuntimeInv, LocksType, HeadsLocked
<1>6. DecidedOnRead'
  BY <1>2, <1>3 DEF RuntimeInv, DecidedOnRead
<1> QED BY <1>1, <1>4, <1>5, <1>6 DEF TxInv

\* A transaction is tried again with the command and the versions of the call.
LEMMA RetriedCall ==
    ASSUME NEW r \in CallRecords
    PROVE  LET t == [pc |-> "reserve", command |-> r.command, expected |-> r.expected,
                     attempt |-> r.attempt + 1, todo |-> StreamsOf(r.command), versions |-> r.versions]
           IN  t \in CallRecords /\ t.pc = "reserve"
<1>1. r.command \in Commands
  BY DEF CallRecords
<1> QED BY <1>1, CommandFacts DEF CallRecords

\* A call that ends, or starts again, gives up its locks; a commit changes only what it had locked.
LEMMA EndKeepsTxInv ==
    ASSUME RuntimeInv, NEW w \in Writers,
           \/ FindCommand(w) \/ StaleVersion(w) \/ Commit(w)
           \/ RetryTransaction(w) \/ FailTransaction(w)
    PROVE  TxInv'
<1>1. tx[w] \in CallRecords
  <2>1. tx[w].pc # "idle"
    BY DEF FindCommand, StaleVersion, Commit, RetryTransaction, FailTransaction
  <2> QED BY <2>1, CallInProgress DEF RuntimeInv
<1>2. tx[w].command \in Commands
  BY <1>1 DEF CallRecords
<1>3. CASE Commit(w)
  <2>1. /\ ReleaseLocks(w) /\ tx[w].pc = "commit"
        /\ tx' = [tx EXCEPT ![w] = NoCall]
    BY <1>3, Zenon DEF Commit, EndCall
  <2>2. \A v \in Writers : v # w /\ tx[v].pc \in Reserved =>
            \A a \in commandIdempotency' : a.key # tx[v].command.key
    <3>1. \A v \in Writers : v # w /\ tx[v].pc \in Reserved => tx[v].command.key # tx[w].command.key
      BY <2>1 DEF RuntimeInv, KeyReserved, Reserved
    <3>2. \A e : Applied(tx[w].command, e).key = tx[w].command.key
      BY DEF Applied
    <3>3. \E e : commandIdempotency' = commandIdempotency \cup {Applied(tx[w].command, e)}
      BY <1>3, Zenon DEF Commit
    <3>4. \A v \in Writers : tx[v].pc \in Reserved => \A a \in commandIdempotency : a.key # tx[v].command.key
      BY Zenon DEF RuntimeInv, KeyReserved
    <3> QED BY <3>1, <3>2, <3>3, <3>4
  <2>3. \A s \in Streams : headHolder[s] # w => streamHeads'[s] = streamHeads[s]
    <3>1. streamHeads' = [s \in Streams |->
              IF s \in StreamsOf(tx[w].command)
              THEN tx[w].versions[s] + EventsBefore(tx[w].command, Len(tx[w].command.streams), s)
              ELSE streamHeads[s]]
      BY <1>3, Zenon DEF Commit
    <3>2. \A s \in StreamsOf(tx[w].command) : s \in Streams => headHolder[s] = w
      BY <2>1 DEF RuntimeInv, HeadsLocked
    <3> QED BY <3>1, <3>2
  <2> QED BY <2>1, <2>2, <2>3, ReleaseKeepsTxInv, Zenon DEF NoCall
<1>4. CASE FindCommand(w) \/ StaleVersion(w) \/ FailTransaction(w)
  <2>1. /\ ReleaseLocks(w)
        /\ tx' = [tx EXCEPT ![w] = NoCall]
        /\ UNCHANGED <<commandIdempotency, streamHeads>>
    BY <1>4, Zenon DEF FindCommand, StaleVersion, FailTransaction, EndCall, logVars
  <2> QED BY <2>1, ReleaseKeepsTxInv, Zenon DEF NoCall, RuntimeInv, KeyReserved
<1>5. CASE RetryTransaction(w)
  <2> DEFINE t == [pc |-> "reserve", command |-> tx[w].command, expected |-> tx[w].expected,
                   attempt |-> tx[w].attempt + 1, todo |-> StreamsOf(tx[w].command),
                   versions |-> tx[w].versions]
  <2>1. /\ ReleaseLocks(w)
        /\ tx' = [tx EXCEPT ![w] = t]
        /\ UNCHANGED <<commandIdempotency, streamHeads>>
    BY <1>5, Zenon DEF RetryTransaction, logVars
  <2>2. t \in CallRecords /\ t.pc = "reserve"
    BY <1>1, RetriedCall, Zenon
  <2> HIDE DEF t
  <2> QED BY <2>1, <2>2, ReleaseKeepsTxInv, Zenon DEF RuntimeInv, KeyReserved
<1> QED BY <1>3, <1>4, <1>5

\* Every step of every writer keeps the invariant.
LEMMA NextKeepsRuntimeInv == RuntimeInv /\ [RuntimeNext]_runtimeVars => RuntimeInv'
<1> SUFFICES ASSUME RuntimeInv, [RuntimeNext]_runtimeVars PROVE RuntimeInv'
  OBVIOUS
<1>1. LogInv'
  BY StepIsLogStep, NextKeepsLogInv DEF RuntimeInv
<1>2. CASE UNCHANGED runtimeVars
  <2>1. UNCHANGED <<keyHolder, headHolder, tx, commandIdempotency, streamHeads>>
    BY <1>2 DEF runtimeVars, logVars
  <2>2. LocksType' /\ KeyReserved'
    BY <2>1, Zenon DEF RuntimeInv, LocksType, KeyReserved
  <2>3. HeadsLocked' /\ DecidedOnRead'
    BY <2>1, Zenon DEF RuntimeInv, HeadsLocked, DecidedOnRead
  <2> QED BY <1>1, <2>2, <2>3 DEF RuntimeInv
<1>3. CASE RuntimeNext
  <2>1. PICK w \in Writers : \/ \E c \in Commands : AppendCommandBatch(w, c)
                             \/ Statement(w) \/ RetryTransaction(w) \/ FailTransaction(w)
    BY <1>3 DEF RuntimeNext
  <2>2. TxInv'
    BY <2>1, AppendKeepsTxInv, ReserveKeepsTxInv, CreateKeepsTxInv, LockKeepsTxInv, WriteKeepsTxInv,
       EndKeepsTxInv DEF Statement
  <2> QED BY <1>1, <2>2 DEF TxInv, RuntimeInv
<1> QED BY <1>2, <1>3

(***************************************************************************)
(* appendCommandBatch implements the log of commands: each call applies    *)
(* its command at one instant, on the versions its caller had read, or not *)
(* at all.                                                                 *)
(***************************************************************************)
THEOREM RuntimeImplementsLog == RuntimeSpec => LogSpec
<1>1. RuntimeInit => LogInit
  BY DEF RuntimeInit
<1>2. RuntimeSpec => []RuntimeInv
  BY InitRuntimeInv, NextKeepsRuntimeInv, PTL DEF RuntimeSpec
<1> QED BY <1>1, <1>2, StepIsLogStep, PTL DEF RuntimeSpec, LogSpec

(***************************************************************************)
(* Therefore the tables never hold a part of a command: every stored event *)
(* and outbox message is one of a completed command, one per key.          *)
(***************************************************************************)
THEOREM RuntimeCommandsWhole == RuntimeSpec => []CommandsWhole
BY RuntimeImplementsLog, LogCommandsWhole, PTL
-----------------------------------------------------------------------------
(***************************************************************************)
(* The outbox: a leased message is pending and does not wait, and what is  *)
(* published or dead is not leased and does not wait.                      *)
(***************************************************************************)
Rows == [status : {"absent", "pending", "published", "dead"}, attempts : Nat,
         lockedBy : Workers \cup {Nobody}, age : Nat, wait : Nat]

OutboxInv ==
    /\ outbox \in [Messages -> Rows]
    /\ \A m \in Messages :
          /\ outbox[m].lockedBy # Nobody => outbox[m].status = "pending" /\ outbox[m].wait = 0
          /\ outbox[m].status \in {"published", "dead"} => outbox[m].wait = 0

\* No message is in the outbox.
LEMMA InitOutboxInv == Init => OutboxInv
BY DEF Init, OutboxInv, Rows, Absent

\* What a step of the outbox may do to its rows; the inbox leaves them alone.
LEMMA OutboxStep ==
    ASSUME OutboxInv, [Next]_vars
    PROVE  \/ UNCHANGED outbox
           \/ \E m \in Messages : Enqueue(m)
           \/ \E w \in Workers : ClaimOutboxBatch(w) \/ MarkOutboxPublished(w) \/ MarkOutboxFailed(w)
           \/ Tick
BY Zenon DEF Next, OutboxNext, WorkerStep, Publish, PublishFails, WorkerCrashes, InboxNext, ConsumerStep,
   Receive, InsertInbox, CompleteInbox, RollBackInbox, vars, outboxVars

\* Every step keeps the outbox in order and honors the leases.
LEMMA OutboxStepHonors ==
    ASSUME OutboxInv, [Next]_vars
    PROVE  OutboxInv' /\ LeaseKept
<1> USE DEF OutboxInv, LeaseKept, Rows, Row
<1>1. CASE UNCHANGED outbox
  BY <1>1
<1>2. ASSUME NEW n \in Messages, Enqueue(n) PROVE OutboxInv' /\ LeaseKept
  BY <1>2 DEF Enqueue
<1>3. ASSUME NEW w \in Workers, ClaimOutboxBatch(w) PROVE OutboxInv' /\ LeaseKept
  <2> DEFINE C == Candidates
  <2>1. \A m \in C : m \in Messages /\ Claimable(outbox[m])
    BY DEF Candidates
  <2>2. outbox' = [m \in Messages |->
          IF Exhausted(outbox[m]) THEN Unlocked(outbox[m], "dead")
          ELSE IF m \in C THEN Row("pending", outbox[m].attempts + 1, w, 0, outbox[m].wait)
          ELSE outbox[m]]
    BY <1>3 DEF ClaimOutboxBatch
  <2> HIDE DEF C
  <2>3. ASSUME NEW m \in Messages
        PROVE  /\ outbox'[m] \in Rows
               /\ outbox'[m].lockedBy # Nobody => outbox'[m].status = "pending" /\ outbox'[m].wait = 0
               /\ outbox'[m].status \in {"published", "dead"} => outbox'[m].wait = 0
               /\ outbox[m].lockedBy # Nobody /\ ~Expired(outbox[m]) => outbox'[m].lockedBy = outbox[m].lockedBy
               /\ outbox[m].status \in {"published", "dead"} => outbox'[m] = outbox[m]
    BY <2>1, <2>2 DEF Exhausted, Claimable, Expired, Unlocked
  <2> QED BY <2>2, <2>3
<1>4. ASSUME NEW w \in Workers, MarkOutboxPublished(w) PROVE OutboxInv' /\ LeaseKept
  BY <1>4, DeliveryAssumption DEF MarkOutboxPublished, Owns, Unlocked
<1>5. ASSUME NEW w \in Workers, MarkOutboxFailed(w) PROVE OutboxInv' /\ LeaseKept
  BY <1>5, DeliveryAssumption, Zenon DEF MarkOutboxFailed, Owns, Unlocked
<1>6. CASE Tick
  BY <1>6, DeliveryAssumption DEF Tick
<1> QED BY <1>1, <1>2, <1>3, <1>4, <1>5, <1>6, OutboxStep, Zenon

(***************************************************************************)
(* A worker that comes back late never touches a message that another      *)
(* worker has leased since, however many workers there are and whenever    *)
(* they crash.                                                             *)
(***************************************************************************)
THEOREM DeliveryLeaseHonored == Spec => LeaseHonored
<1>1. OutboxInv /\ [Next]_vars => OutboxInv' /\ [LeaseKept]_vars
  BY OutboxStepHonors
<1> QED BY InitOutboxInv, <1>1, PTL DEF Spec, LeaseHonored
-----------------------------------------------------------------------------
(***************************************************************************)
(* The inbox: a consumer that handles a message holds its row, and the row *)
(* is not completed.                                                       *)
(***************************************************************************)
InboxInv ==
    /\ inbox \in [Messages -> Payloads \cup {Nobody}]
    /\ inboxHolder \in [Messages -> Consumers \cup {Nobody}]
    /\ consumer \in [Consumers -> {IdleConsumer} \cup
                        [pc : {"insert", "handle"}, message : Messages, payload : Payloads]]
    /\ effects \in [Messages -> Seq(Payloads)]
    /\ \A c \in Consumers : consumer[c].pc = "handle" =>
          inboxHolder[consumer[c].message] = c /\ inbox[consumer[c].message] = Nobody
    /\ EffectOnce

\* Nothing was received.
LEMMA InitInboxInv == Init => InboxInv
BY DEF Init, InboxInv, EffectOnce, IdleConsumer

\* Only the holder of a row completes it, and only once.
LEMMA NextKeepsInboxInv == InboxInv /\ [Next]_vars => InboxInv'
<1> SUFFICES ASSUME InboxInv, [Next]_vars PROVE InboxInv'
  OBVIOUS
<1> USE DeliveryAssumption DEF InboxInv, IdleConsumer
<1>1. CASE UNCHANGED inboxVars
  BY <1>1 DEF inboxVars, EffectOnce
<1>2. ASSUME NEW c \in Consumers, NEW m \in Messages, NEW payload \in Payloads, Receive(c, m, payload)
      PROVE  InboxInv'
  BY <1>2 DEF Receive, EffectOnce
<1>3. ASSUME NEW c \in Consumers, InsertInbox(c) PROVE InboxInv'
  <2> DEFINE m == consumer[c].message
  <2>1. m \in Messages /\ consumer[c].payload \in Payloads /\ inboxHolder[m] = Nobody
    BY <1>3 DEF InsertInbox
  <2>2. EffectOnce' /\ UNCHANGED <<inbox, effects>>
    BY <1>3 DEF InsertInbox, EffectOnce
  <2>3. CASE /\ inbox[m] = Nobody
             /\ inboxHolder' = [inboxHolder EXCEPT ![m] = c]
             /\ consumer' = [consumer EXCEPT ![c] = [pc |-> "handle", message |-> m,
                                                     payload |-> consumer[c].payload]]
    BY <2>1, <2>2, <2>3
  <2>4. CASE consumer' = [consumer EXCEPT ![c] = IdleConsumer] /\ UNCHANGED inboxHolder
    BY <2>2, <2>4
  <2> QED BY <1>3, <2>3, <2>4 DEF InsertInbox
<1>4. ASSUME NEW c \in Consumers, CompleteInbox(c) PROVE InboxInv'
  <2> DEFINE m == consumer[c].message
             payload == consumer[c].payload
  <2>1. m \in Messages /\ payload \in Payloads /\ inbox[m] = Nobody /\ inboxHolder[m] = c
    BY <1>4 DEF CompleteInbox
  <2>2. effects[m] = <<>>
    BY <2>1, Zenon DEF EffectOnce
  <2>3. /\ inbox' = [inbox EXCEPT ![m] = payload]
        /\ effects' = [effects EXCEPT ![m] = <<payload>>]
        /\ inboxHolder' = [inboxHolder EXCEPT ![m] = Nobody]
        /\ consumer' = [consumer EXCEPT ![c] = IdleConsumer]
    BY <1>4, <2>1, <2>2 DEF CompleteInbox
  <2> HIDE DEF m, payload
  <2>4. EffectOnce'
    BY <2>1, <2>3 DEF EffectOnce
  <2>5. \A d \in Consumers : d # c /\ consumer[d].pc = "handle" => consumer[d].message # m
    BY <2>1
  <2> QED BY <2>1, <2>3, <2>4, <2>5
<1>5. ASSUME NEW c \in Consumers, RollBackInbox(c) PROVE InboxInv'
  BY <1>5 DEF RollBackInbox, EffectOnce
<1>6. CASE OutboxNext(Messages, Workers)
  <2>1. UNCHANGED inboxVars
    BY <1>6, Zenon DEF OutboxNext, Enqueue, WorkerStep, ClaimOutboxBatch, Publish, PublishFails,
       MarkOutboxPublished, MarkOutboxFailed, WorkerCrashes, Tick
  <2> QED BY <1>1, <2>1
<1> HIDE DEF InboxInv, IdleConsumer
<1> QED BY <1>1, <1>2, <1>3, <1>4, <1>5, <1>6, Zenon DEF Next, InboxNext, ConsumerStep, vars

(***************************************************************************)
(* Whatever is delivered, however often and to however many consumers at   *)
(* once, the handler's effect is committed at most once.                   *)
(***************************************************************************)
THEOREM DeliveryEffectOnce == Spec => []EffectOnce
<1>1. InboxInv => EffectOnce
  BY DEF InboxInv
<1> QED BY InitInboxInv, NextKeepsInboxInv, <1>1, PTL DEF Spec
=============================================================================
