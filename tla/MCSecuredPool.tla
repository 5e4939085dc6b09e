--------------------------- MODULE MCSecuredPool ---------------------------
(***************************************************************************)
(* Instances of SecuredPool for TLC.  Two accounts are enough for shares   *)
(* to be split, for one to liquidate the other and for each to be lender   *)
(* and borrower at once; they start with equal balances, so they are       *)
(* interchangeable.  The bound is on the number of calls and blocks.       *)
(***************************************************************************)
EXTENDS SecuredPool, TLC

CONSTANTS alice, bob, MaxCalls, Rounds, Answers, UpdateTimes, Endowment, CollateralEndowment

MCAccounts == {alice, bob}
Interchangeable == Permutations(MCAccounts)

\* Complete rounds of the feed, one without a price, and one whose answer an older round gave.
MCFeeds ==
    {[roundId |-> r, answer |-> p, updatedAt |-> t, answeredInRound |-> r] :
        r \in Rounds, p \in Answers, t \in UpdateTimes}
    \cup {[roundId |-> 2, answer |-> 0, updatedAt |-> 2, answeredInRound |-> 2],
          [roundId |-> 2, answer |-> 8, updatedAt |-> 2, answeredInRound |-> 1]}
MCObservation == [price |-> 10, observedAt |-> StartTime, roundId |-> 1]
MCDebtTokens == [a \in MCAccounts |-> Endowment]
MCCollateralTokens == [a \in MCAccounts |-> CollateralEndowment]

VARIABLE calls

MCInit == Init /\ calls = 0
MCNext == Next /\ calls' = calls + 1
MCSpec == MCInit /\ [][MCNext]_<<vars, calls>>

CallBound == calls <= MaxCalls
=============================================================================
