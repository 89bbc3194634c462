----------------------------- MODULE SaleDemand -----------------------------
(***************************************************************************)
(* The waterfall under growing demand.  The state is the capped demand of  *)
(* each hop; a step is a deposit that raises one of them, which is how     *)
(* commit() changes what finalize() will compute.                          *)
(***************************************************************************)
EXTENDS CrowdfundWaterfall

CONSTANTS SmallSale, LargeSale, ExpandAt,
          MaxDemand     \* bound on the demand of a hop

\* The expansion is wider than the rounding of the ceilings.
ASSUME SaleSizeAssumption ==
    /\ {SmallSale, LargeSale, ExpandAt, MaxDemand} \subseteq Nat
    /\ SmallSale + 10 <= LargeSale

VARIABLE wanted

NoDemand == wanted = [h \in Hops |-> 0]

Deposit(h) ==
    /\ wanted[h] < MaxDemand
    /\ wanted' = [wanted EXCEPT ![h] = @ + 1]

DemandGrows == \E h \in Hops : Deposit(h)

DemandSpec == NoDemand /\ [][DemandGrows]_wanted

\* finalize()'s elastic expansion.
Size(d) == IF d[0] + d[1] + d[2] >= ExpandAt THEN LargeSale ELSE SmallSale

Grant(d, h) == Granted(d[h], HopCeilings(Size(d), d)[h])

DemandTypeOK == wanted \in [Hops -> Nat]

(***************************************************************************)
(* No demand makes one of finalize()'s checked subtractions underflow,     *)
(* which would block finalization for ever, and the hops together never    *)
(* receive more than the sale size although their raw ceilings overlap.    *)
(***************************************************************************)
WaterfallWithinSale ==
    LET ceiling == HopCeilings(Size(wanted), wanted)
    IN  /\ \A h \in Hops : ceiling[h] >= 0
        /\ Granted(wanted[0], ceiling[0]) <= Available(Size(wanted))
        /\ TotalAllocation(Size(wanted), wanted) <= Size(wanted)

(***************************************************************************)
(* Hop 2's floor is a guarantee: however large the demand of the hops      *)
(* before it, hop 2 is granted its demand up to 15% of the sale.           *)
(***************************************************************************)
HopTwoKeepsItsFloor ==
    Grant(wanted, 2) >= Smaller(wanted[2], Hop2Floor(Size(wanted)))

(***************************************************************************)
(* More demand never shrinks the sale: a deposit lowers neither the total  *)
(* allocation nor what its own hop is granted, across the elastic          *)
(* expansion too, so nobody can deposit a sale into refund mode.           *)
(***************************************************************************)
NothingShrinks ==
    /\ TotalAllocation(Size(wanted'), wanted') >= TotalAllocation(Size(wanted), wanted)
    /\ \A h \in Hops :
         wanted'[h] > wanted[h] => Grant(wanted', h) >= Grant(wanted, h)

DemandNeverShrinksTheSale == [][NothingShrinks]_wanted

=============================================================================
