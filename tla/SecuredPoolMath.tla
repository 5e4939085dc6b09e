-------------------------- MODULE SecuredPoolMath --------------------------
(***************************************************************************)
(* The pure arithmetic of the secured lending pool, translated from        *)
(* contracts/src/m2/libraries/SecuredPoolMathV1.sol.  Rates, thresholds    *)
(* and factors keep their basis-point values; the two large scale factors  *)
(* (seconds in a year, 1e30 between price and asset units) are constants,  *)
(* so that a model can use units of time and of price that fit TLC's       *)
(* integers.  Every quantity is a natural number, as in the contract.      *)
(***************************************************************************)
EXTENDS Integers

CONSTANTS
    SecondsPerYear,  \* SECONDS_PER_YEAR, 365 days in the contract
    PriceScale       \* 1e30: collateral units * price per unit of debt asset

ASSUME ScaleAssumption ==
    /\ SecondsPerYear \in Nat \ {0}
    /\ PriceScale \in Nat \ {0}

BPS == 10000
KinkBps == 8000
BaseBorrowAprBps == 200
Slope1Bps == 800
Slope2Bps == 6000
ReserveFactorBps == 1000

(***************************************************************************)
(* OpenZeppelin's Math.mulDiv, rounding down or (Rounding.Ceil) up; both   *)
(* revert when c = 0, which the callers' guards exclude.                   *)
(***************************************************************************)
MulDiv(a, b, c) == (a * b) \div c
MulDivCeil(a, b, c) == (a * b + (c - 1)) \div c

MinOf(a, b) == IF a <= b THEN a ELSE b

UtilizationBps(cash, performing) ==
    IF cash + performing = 0 THEN 0 ELSE MulDiv(performing, BPS, cash + performing)

BorrowAprBps(cash, performing) ==
    LET utilization == UtilizationBps(cash, performing)
    IN  IF utilization <= KinkBps
        THEN BaseBorrowAprBps + MulDiv(Slope1Bps, utilization, KinkBps)
        ELSE BaseBorrowAprBps + Slope1Bps
               + MulDiv(Slope2Bps, utilization - KinkBps, BPS - KinkBps)

\* interestAtRate returns the interest, rounded up, and the reserve's part of it, rounded down.
InterestAssets(debt, aprBps, elapsed) ==
    MulDivCeil(debt, aprBps * elapsed, SecondsPerYear * BPS)

ReserveAssets(interest) == MulDiv(interest, ReserveFactorBps, BPS)

CollateralValueAssets(collateral, price) == MulDiv(collateral, price, PriceScale)

CollateralRequiredForValue(value, price) == MulDivCeil(value, PriceScale, price)
=============================================================================
