------------------------------- MODULE Calls --------------------------------
(***************************************************************************)
(* The server processes that the control services share: each runs one     *)
(* call at a time, a call is several steps wherever the code awaits, and   *)
(* between two steps it holds what it has read.  Time passes in ticks.     *)
(***************************************************************************)
EXTENDS Integers

CONSTANTS Workers,      \* server processes
          MaxTime       \* bound: ticks in a behaviour

VARIABLES call,         \* call[w]: the operation, its step and what it holds
          now           \* the clock every process reads

callVars == <<call, now>>

Idle == [op |-> "idle"]

CallsInit == call = [w \in Workers |-> Idle] /\ now = 0

hold(w, c) == call' = [call EXCEPT ![w] = c] /\ UNCHANGED now

\* The call returns, throws, or its process dies.
ends(w) == hold(w, Idle)

Tick == now < MaxTime /\ now' = now + 1 /\ UNCHANGED call
=============================================================================
