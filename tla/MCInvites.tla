----------------------------- MODULE MCInvites ------------------------------
(***************************************************************************)
(* What comes in before the sale ends, in three settings, one per          *)
(* behaviour: budgets that stack, with signed tickets that race revocation *)
(* and expiry; three accounts without deposits that fill every slot the    *)
(* budgets allow; and every demand of the waterfall, unit by unit, while   *)
(* the contract stands still.                                              *)
(***************************************************************************)
EXTENDS MCCrowdfund, SaleDemand

VARIABLE setting

Structure == INSTANCE Crowdfund WITH
    Users <- {a, b, c}, Tickets <- {}, Nonces <- {}, Amounts <- {}

SaleInit == /\ NoDemand
            /\ \/ setting = "tickets"   /\ Init
               \/ setting = "structure" /\ Structure!Init
               \/ setting = "demand"    /\ Init
SaleNext == /\ UNCHANGED setting
            /\ \/ setting = "tickets"   /\ Next /\ UNCHANGED wanted
               \/ setting = "structure" /\ Structure!Next /\ UNCHANGED wanted
               \/ setting = "demand"    /\ DemandGrows /\ UNCHANGED vars
SaleSpec == SaleInit /\ [][SaleNext]_<<vars, wanted, setting>>
=============================================================================
