------------------------- MODULE CrowdfundWaterfall -------------------------
(***************************************************************************)
(* The arithmetic of ArmadaCrowdfund.finalize() and claim(): how a sale    *)
(* size is divided into three hop ceilings, what each hop receives for its *)
(* capped demand, and what one participant receives inside a hop.          *)
(*                                                                         *)
(* Amounts are USDC units, naturals.  Solidity's unsigned division is \div *)
(* and a checked subtraction that would underflow reverts; the theorems of *)
(* CrowdfundProofs show that none of the subtractions below can.           *)
(***************************************************************************)
EXTENDS Integers

HOP2_BASE_FLOOR_BPS  == 500
HOP2_EXTRA_FLOOR_BPS == 1000
HOP0_CEILING_BPS     == 6000
HOP1_CEILING_BPS     == 4500

Hops == 0..2

Smaller(a, b) == IF a <= b THEN a ELSE b

\* x scaled by a share in basis points, rounded down.
Bps(x, share) == (x * share) \div 10000

Hop2Floor(sale) == Bps(sale, HOP2_BASE_FLOOR_BPS + HOP2_EXTRA_FLOOR_BPS)

\* What hop 0 and hop 1 share.
Available(sale) == sale - Hop2Floor(sale)

BasePool(sale) == Bps(sale, 10000 - HOP2_BASE_FLOOR_BPS)

\* Hop 0 funds hop 2's extra floor out of its own share; hop 1 does not.
RawCeiling0(sale) ==
    Bps(BasePool(sale), HOP0_CEILING_BPS) - Bps(sale, HOP2_EXTRA_FLOOR_BPS)

RawCeiling1(sale) == Bps(BasePool(sale), HOP1_CEILING_BPS)

(***************************************************************************)
(* One hop after the other: an unused part of a ceiling rolls over to the  *)
(* next hop, hop 1 is cut to what hop 0 left available, and hop 2 has no   *)
(* ceiling of its own beyond its floor and hop 1's leftover.               *)
(***************************************************************************)
Granted(demand, ceiling) == Smaller(demand, ceiling)

\* Mutant: the cut to what hop 0 left available is forgotten.
UncutCeiling1(sale, alloc0) == RawCeiling1(sale) + (RawCeiling0(sale) - alloc0)

\* Mutant: hop 0's leftover rolls over only when hop 0 sold nothing.
ConditionalRollover(sale, alloc0) ==
    Smaller(RawCeiling1(sale) + (IF alloc0 = 0 THEN RawCeiling0(sale) ELSE 0),
            Available(sale) - alloc0)

Ceiling1(sale, alloc0) ==
    Smaller(RawCeiling1(sale) + (RawCeiling0(sale) - alloc0),
            Available(sale) - alloc0)

\* Mutant: hop 2's extra floor is forgotten.
BaseFloorOnly(sale, ceiling1, alloc1) ==
    Bps(sale, HOP2_BASE_FLOOR_BPS) + (ceiling1 - alloc1)

Ceiling2(sale, ceiling1, alloc1) == Hop2Floor(sale) + (ceiling1 - alloc1)

HopCeilings(sale, demand) ==
    LET ceiling0 == RawCeiling0(sale)
        ceiling1 == Ceiling1(sale, Granted(demand[0], ceiling0))
        ceiling2 == Ceiling2(sale, ceiling1, Granted(demand[1], ceiling1))
    IN  [h \in Hops |-> CASE h = 0 -> ceiling0
                          [] h = 1 -> ceiling1
                          [] h = 2 -> ceiling2]

TotalAllocation(sale, demand) ==
    LET ceiling == HopCeilings(sale, demand)
    IN    Granted(demand[0], ceiling[0])
        + Granted(demand[1], ceiling[1])
        + Granted(demand[2], ceiling[2])

(***************************************************************************)
(* One participant inside a hop.  The accepted amount is the deposit up to *)
(* the participant's cap; an oversubscribed hop is shared pro rata,        *)
(* rounding down.                                                          *)
(***************************************************************************)
Accepted(deposit, cap) == Smaller(deposit, cap)

AllocatedUsdc(deposit, cap, ceiling, demand) ==
    IF demand <= ceiling
    THEN Accepted(deposit, cap)
    ELSE (Accepted(deposit, cap) * ceiling) \div demand

=============================================================================
