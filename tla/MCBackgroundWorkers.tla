------------------------- MODULE MCBackgroundWorkers -------------------------
(***************************************************************************)
(* The loops that background workers run, on small instances side by side. *)
(* A behaviour is one of four.  Two writers append three commands to two   *)
(* streams: two of them go to both streams in opposite orders, one appends *)
(* twice to a stream, and two use one idempotency key with different       *)
(* hashes.  Two workers serve an outbox of two messages.  One message,     *)
(* published by one worker, goes through the inbox to three consumers.  Or *)
(* the local trading-capital component runs, whose flatten and settlement  *)
(* are run by system workers.  The lease is one tick.  With a principal of *)
(* 10 the facility's capital is 11, and the notionals bring utilization to *)
(* 27, 54, 81 and 100 percent, one for each risk state.                    *)
(***************************************************************************)
EXTENDS EventDelivery, TradingFacility, CommandRuntime

CONSTANTS w1, w2, c1, c2, c3, p, q, m1, m2, d1, d2, s1, s2, k1, k2, h1, h2, Loops

MCMessages == 1 .. 2
MCWorkers == {w1, w2}
MCConsumers == {c1, c2, c3}
MCPayloads == {p, q}
MCWriters == {w1, w2}
MCStreams == {s1, s2}
MCRank == [s \in MCStreams |-> IF s = s1 THEN 1 ELSE 2]
MCCommands ==
    {[key |-> k1, hash |-> h1, aggregate |-> s1, streams |-> <<s1, s2, s1>>],
     [key |-> k1, hash |-> h2, aggregate |-> s1, streams |-> <<s1>>],
     [key |-> k2, hash |-> h1, aggregate |-> s2, streams |-> <<s2, s1>>]}

VARIABLE loop           \* "commands", "outbox", "inbox" or "facility"

MCInit == Init /\ TradingInit /\ RuntimeInit /\ loop \in Loops

Delivery(A) == A /\ UNCHANGED <<tradingVars, runtimeVars, loop>>

Facility(A) ==
    loop = "facility" /\ A /\ UNCHANGED <<vars, runtimeVars, loop>>

Runtime(A) == loop = "commands" /\ A /\ UNCHANGED <<vars, tradingVars, loop>>

MCNext ==
    \/ Delivery(\/ loop = "outbox" /\ OutboxNext(Messages, Workers)
                \/ loop = "inbox" /\ OutboxNext({1}, {w1})
                \/ loop = "inbox" /\ InboxNext)
    \/ Facility(TradingNext)
    \/ Runtime(RuntimeNext)

allVars == <<vars, tradingVars, runtimeVars, loop>>

MCSpec == MCInit /\ [][MCNext]_allVars

\* Every worker process loops for ever, a supervisor restarting it, and time
\* passes; the database executes every statement that does not wait for another
\* transaction.  A behaviour runs one loop, so each conjunct is a condition of
\* that loop.
MCFairSpec ==
    /\ MCSpec
    /\ WF_allVars(\/ Delivery(loop \in {"outbox", "inbox"} /\ Tick)
                  \/ Facility(flattenTradingFacilityHandler)
                  \/ Runtime(Statement(w1)))
    /\ WF_allVars(\/ Delivery(loop \in {"outbox", "inbox"} /\ WorkerStep(w1))
                  \/ Facility(runTradingSettlementHandler)
                  \/ Runtime(Statement(w2)))
    /\ WF_allVars(Delivery(loop = "outbox" /\ WorkerStep(w2)))
=============================================================================
