--------------------------- MODULE CapitalPromise ---------------------------
(***************************************************************************)
(* What a Trading Facility promises its two parties, whatever commands and *)
(* services act on it: capital is at work only after both sides agreed and *)
(* both paid in, nobody pays in twice, and it is paid out once, when       *)
(* nothing is exposed any more and never before.                           *)
(***************************************************************************)
EXTENDS Integers

VARIABLES phase,        \* "open", "agreed", "trading", "flat", "settled"
          paid,         \* the sides that paid in
          exposed,      \* whether an order is open
          payouts       \* settlements of the facility so far

vars == <<phase, paid, exposed, payouts>>

Parties == {"provider", "subject"}

Init == phase = "open" /\ paid = {} /\ exposed = FALSE /\ payouts = 0

Agree ==
  /\ phase = "open" /\ phase' = "agreed"
  /\ UNCHANGED <<paid, exposed, payouts>>

PayIn(s) ==
  /\ phase = "agreed" /\ s \notin paid
  /\ paid' = paid \cup {s}
  /\ UNCHANGED <<phase, exposed, payouts>>

Start ==
  /\ phase = "agreed" /\ paid = Parties
  /\ phase' = "trading"
  /\ UNCHANGED <<paid, exposed, payouts>>

Trade ==
  /\ phase = "trading"
  /\ exposed' \in BOOLEAN
  /\ UNCHANGED <<phase, paid, payouts>>

Flatten ==
  /\ phase = "trading"
  /\ phase' = "flat" /\ exposed' = FALSE
  /\ UNCHANGED <<paid, payouts>>

PayOut ==
  /\ phase = "flat" /\ ~exposed /\ payouts = 0
  /\ phase' = "settled" /\ payouts' = 1
  /\ UNCHANGED <<paid, exposed>>

Next ==
  Agree \/ (\E s \in Parties : PayIn(s)) \/ Start \/ Trade \/ Flatten \/ PayOut

Spec == Init /\ [][Next]_vars
=============================================================================
