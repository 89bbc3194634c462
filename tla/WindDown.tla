------------------------------ MODULE WindDown ------------------------------
(***************************************************************************)
(* The end of the protocol: contracts/governance/ArmadaWindDown.sol, which *)
(* freezes revenue, frees ARM and ends governance in one transaction, and  *)
(* ArmadaRedemption.sol, which trades ARM for a share of what the treasury *)
(* left, together with the token sale, the revenue lock and the treasury,  *)
(* whose ARM enters the denominator of that share.                         *)
(***************************************************************************)
EXTENDS Revenue

CONSTANTS
    Holders,                  \* accounts that hold ARM
    Bought,                   \* ARM the sale allocates to each of them when it sells
    Assets,                   \* tokens the treasury leaves, "eth" among them
    RedemptionDelay, ClaimPeriod, SaleEnd,
    Thresholds, Deadlines,    \* parameters governance sets
    Supply,                   \* initial ARM of treasury, lock, sale
    Funds, Proceeds,          \* what the treasury holds of an asset, what the sale adds
    ArmInputs                 \* amounts of ARM that are sent or redeemed

Contracts == {"treasury", "lock", "sale", "redemption"}

\* The lock is deployed with all it may ever release (deploy_crowdfund.ts asserts it).
ASSUME EndAssumption ==
    /\ IsFiniteSet(Holders) /\ Holders \cap Contracts = {} /\ Beneficiaries \subseteq Holders
    /\ Bought \in [Holders -> Nat]
    /\ Supply \in [Contracts \ {"redemption"} -> Nat] /\ Supply["lock"] >= TotalAllocation
    /\ {RedemptionDelay, ClaimPeriod, SaleEnd, Funds, Proceeds} \subseteq Nat
    /\ Thresholds \subseteq Nat /\ Deadlines \subseteq Nat /\ ArmInputs \subseteq Nat

VARIABLES
    arm,                      \* ARM balances
    transferable,
    sale, claimed, claimDeadline,
    threshold, deadline, triggered, triggerTime,
    windDownActive,           \* of the governor
    treasuryHas, pool         \* assets of the treasury, of the redemption contract

saleVars    == <<sale, claimed, claimDeadline>>
triggerVars == <<threshold, deadline, triggered, triggerTime, windDownActive>>
assetVars   == <<treasuryHas, pool>>

endVars == <<day, counterVars, ratchetVars, releaseVars, arm, transferable, saleVars,
          triggerVars, assetVars>>

-----------------------------------------------------------------------------
EndInit ==
    /\ RevenueInit
    /\ arm = [a \in Holders \cup Contracts |-> IF a \in DOMAIN Supply THEN Supply[a] ELSE 0]
    /\ transferable = FALSE
    /\ sale = "Active" /\ claimed = {} /\ claimDeadline = 0
    /\ threshold \in Thresholds /\ deadline \in Deadlines
    /\ triggered = FALSE /\ triggerTime = 0 /\ windDownActive = FALSE
    /\ treasuryHas = [a \in Assets |-> Funds]
    /\ pool = [a \in Assets |-> 0]

Move(from, to, amount) ==
    /\ amount <= arm[from] /\ from # to
    /\ arm' = [arm EXCEPT ![from] = @ - amount, ![to] = @ + amount]

\* armStillOwed of the sale: nothing once its claims have expired.
ArmStillOwed ==
    IF sale = "Sold" /\ day <= claimDeadline THEN SumOver(Bought, Holders \ claimed) ELSE 0

\* Mutant: all the sale holds counts as unsold.
SupplyWithoutSale ==
    SumOver(arm, Holders \cup Contracts) - arm["treasury"] - arm["redemption"] - Locked - arm["sale"]

\* All ARM but the treasury's, what was redeemed, what the lock withholds and what the
\* sale did not sell.
CirculatingSupply ==
    SumOver(arm, Holders \cup Contracts) - arm["treasury"] - arm["redemption"] - Locked
       - Higher(arm["sale"] - ArmStillOwed, 0)

-----------------------------------------------------------------------------
\* The token sale as the others see it: finalized, sold or refunded; claimed; swept.
FinalizeSale(outcome) ==
    /\ sale = "Active" /\ day > SaleEnd
    /\ sale' = outcome
    /\ claimDeadline' = day + ClaimPeriod
    /\ treasuryHas' = IF outcome = "Sold"
                      THEN [treasuryHas EXCEPT !["usdc"] = @ + Proceeds] ELSE treasuryHas
    /\ UNCHANGED <<day, counterVars, ratchetVars, releaseVars, arm, transferable, claimed,
                   triggerVars, pool>>

ClaimArm(h) ==
    /\ sale = "Sold" /\ day <= claimDeadline
    /\ h \notin claimed /\ Bought[h] > 0
    /\ claimed' = claimed \cup {h}
    /\ Move("sale", h, Bought[h])
    /\ UNCHANGED <<day, counterVars, ratchetVars, releaseVars, transferable, sale,
                   claimDeadline, triggerVars, assetVars>>

WithdrawUnallocatedArm ==
    /\ sale # "Active" /\ arm["sale"] > ArmStillOwed
    /\ Move("sale", "treasury", arm["sale"] - ArmStillOwed)
    /\ UNCHANGED <<day, counterVars, ratchetVars, releaseVars, transferable, saleVars,
                   triggerVars, assetVars>>

-----------------------------------------------------------------------------
\* The calls only the timelock may make, which end with governance.
GovernanceCredits ==
    /\ \/ \E r \in RevenueInputs : AddRevenue(r) \/ ProposeAttestation(r)
       \/ \E p \in attestations : AttestRevenue(p)
       \/ \E c \in Collectors \cup {NoCollector} : SetFeeCollector(c)
    /\ UNCHANGED <<day, ratchetVars, releaseVars, arm, transferable, saleVars, triggerVars,
                   assetVars>>

SetRevenueThreshold(t) ==
    /\ t > 0 /\ ~triggered
    /\ threshold' = t
    /\ UNCHANGED <<day, counterVars, ratchetVars, releaseVars, arm, transferable, saleVars,
                   deadline, triggered, triggerTime, windDownActive, assetVars>>

SetWindDownDeadline(d) ==
    /\ d > day /\ ~triggered
    /\ deadline' = d
    /\ UNCHANGED <<day, counterVars, ratchetVars, releaseVars, arm, transferable, saleVars,
                   threshold, triggered, triggerTime, windDownActive, assetVars>>

SetTransferable ==
    /\ ~transferable /\ transferable' = TRUE
    /\ UNCHANGED <<day, counterVars, ratchetVars, releaseVars, arm, saleVars, triggerVars,
                   assetVars>>

DistributeArm(h, amount) ==
    /\ Move("treasury", h, amount)
    /\ UNCHANGED <<day, counterVars, ratchetVars, releaseVars, transferable, saleVars,
                   triggerVars, assetVars>>

\* _executeWindDown, atomic: the counter freezes, the ratchet advances once more and freezes,
\* transfers are enabled, governance ends.
ExecuteWindDown ==
    /\ triggered' = TRUE /\ triggerTime' = day
    /\ frozen' = TRUE
    /\ maxObservedRevenue' =
          IF frozenAtWindDown THEN maxObservedRevenue
          ELSE Higher(maxObservedRevenue,
                      Lower(recognizedRevenueUsd',
                            maxObservedRevenue + (day - lastSyncTimestamp) * MaxIncreasePerDay))
    /\ lastSyncTimestamp' = day /\ frozenAtWindDown' = TRUE
    /\ transferable' = TRUE /\ windDownActive' = TRUE
    /\ UNCHANGED <<day, releaseVars, arm, saleVars, threshold, deadline, assetVars>>

\* Permissionless after the deadline.  The sync is best effort: without a collector it reverts
\* and is caught.
TriggerWindDown ==
    /\ ~triggered /\ day > deadline
    /\ IF SyncSucceeds
       THEN /\ recognizedRevenueUsd' = recognizedRevenueUsd + Unsynced
            /\ lastSyncedCumulative' = collected[feeCollector]
       ELSE UNCHANGED <<recognizedRevenueUsd, lastSyncedCumulative>>
    /\ recognizedRevenueUsd' < threshold
    /\ ExecuteWindDown
    /\ UNCHANGED <<collected, feeCollector, attestations, historyVars>>

GovernanceTriggerWindDown ==
    /\ ~triggered
    /\ UNCHANGED <<collected, feeCollector, lastSyncedCumulative, recognizedRevenueUsd,
                   attestations, historyVars>>
    /\ ExecuteWindDown

-----------------------------------------------------------------------------
\* sweepToken, sweepETH
Sweep(a) ==
    /\ triggered /\ treasuryHas[a] > 0
    /\ pool' = [pool EXCEPT ![a] = @ + treasuryHas[a]]
    /\ treasuryHas' = [treasuryHas EXCEPT ![a] = 0]
    /\ UNCHANGED <<day, counterVars, ratchetVars, releaseVars, arm, transferable, saleVars,
                   triggerVars>>

Share(a, amount) == (pool[a] * amount) \div CirculatingSupply

\* The tokens asked for, and ETH whenever there is some.
Paid(tokens) == tokens \cup {a \in Assets : a = "eth" /\ pool[a] > 0}

Redeem(h, amount, tokens) ==
    /\ transferable
    /\ triggered /\ day >= triggerTime + RedemptionDelay
    /\ CirculatingSupply > 0
    /\ Paid(tokens) # {} /\ \A a \in Paid(tokens) : Share(a, amount) > 0
    /\ Move(h, "redemption", amount)
    /\ pool' = [a \in Assets |-> IF a \in Paid(tokens) THEN pool[a] - Share(a, amount) ELSE pool[a]]
    /\ UNCHANGED <<day, counterVars, ratchetVars, releaseVars, transferable, saleVars,
                   triggerVars, treasuryHas>>

\* Plain transfers of ARM, to anybody and to any of the contracts.
Send(h, to, amount) ==
    /\ transferable
    /\ Move(h, to, amount)
    /\ UNCHANGED <<day, counterVars, ratchetVars, releaseVars, transferable, saleVars,
                   triggerVars, assetVars>>

-----------------------------------------------------------------------------
Outside == <<arm, transferable, saleVars, triggerVars, assetVars>>

RevenueStep ==
    \/ /\ \/ \E c \in Collectors, f \in FeeInputs : CollectFees(c, f)
          \/ SyncStablecoinRevenue
       /\ UNCHANGED <<day, ratchetVars, releaseVars, Outside>>
    \/ /\ SyncObservedRevenue \/ Activate(arm["lock"])
       /\ UNCHANGED <<day, counterVars, Outside>>

ReleaseArm(b) ==
    /\ Release(b)
    /\ Move("lock", b, Releasable(b))
    /\ UNCHANGED <<day, counterVars, transferable, saleVars, triggerVars, assetVars>>

EndGovernance ==
    /\ ~windDownActive
    /\ \/ GovernanceCredits
       \/ \E t \in Thresholds \ {threshold} : SetRevenueThreshold(t)
       \/ \E d \in Deadlines \ {deadline} : SetWindDownDeadline(d)
       \/ SetTransferable
       \/ \E h \in Holders, n \in ArmInputs : DistributeArm(h, n)
       \/ GovernanceTriggerWindDown

NextDay ==
    /\ day < MaxDay /\ day' = day + 1
    /\ UNCHANGED <<counterVars, ratchetVars, releaseVars, Outside>>

EndNext ==
    \/ RevenueStep
    \/ \E b \in Beneficiaries : ReleaseArm(b)
    \/ \E outcome \in {"Sold", "Refunded"} : FinalizeSale(outcome)
    \/ \E h \in Holders : ClaimArm(h)
    \/ WithdrawUnallocatedArm
    \/ EndGovernance
    \/ TriggerWindDown
    \/ \E a \in Assets : Sweep(a)
    \/ \E h \in Holders, n \in ArmInputs :
          \/ \E tokens \in SUBSET (Assets \ {"eth"}) : Redeem(h, n, tokens)
          \/ \E to \in Holders \cup Contracts : Send(h, to, n)
    \/ NextDay

EndSpec == EndInit /\ [][EndNext]_endVars

-----------------------------------------------------------------------------
CounterTypeOK ==
    /\ day \in Nat
    /\ collected \in [Collectors -> Nat] /\ feeCollector \in Collectors \cup {NoCollector}
    /\ {lastSyncedCumulative, recognizedRevenueUsd, entrusted, attested} \subseteq Nat
    /\ maxObservedRevenue \in Nat /\ lastSyncTimestamp \in 0..day
    /\ attestations \subseteq [basis : Nat, cumulative : Nat] /\ IsFiniteSet(attestations)
    /\ {frozen, frozenAtWindDown, activated, overtaken} \subseteq BOOLEAN
    /\ released \in [Beneficiaries -> Nat]

EndTypeOK ==
    /\ CounterTypeOK
    /\ arm \in [Holders \cup Contracts -> Nat]
    /\ sale \in {"Active", "Sold", "Refunded"} /\ claimed \subseteq Holders
    /\ {claimDeadline, threshold, deadline, triggerTime} \subseteq Nat
    /\ {transferable, triggered, windDownActive} \subseteq BOOLEAN
    /\ treasuryHas \in [Assets -> Nat] /\ pool \in [Assets -> Nat]

-----------------------------------------------------------------------------
HeldByHolders == SumOver(arm, Holders)

(***************************************************************************)
(* What a redeemer may count on, once the sale is decided: no step lowers  *)
(* what an ARM is worth of any asset, so whoever waits never gets less     *)
(* than who came first; the denominator moves only when holders give ARM   *)
(* up or claims expire, never by a claim, a release or a sweep; and the    *)
(* revenue behind it stays fixed (circulatingSupply, "sequential           *)
(* correctness and claim invariance").                                     *)
(***************************************************************************)
RedemptionIsFair ==
    [][triggered /\ sale' = sale =>
          /\ \A a \in Assets : pool[a] * CirculatingSupply' <= pool'[a] * CirculatingSupply
          /\ CirculatingSupply' # CirculatingSupply => HeldByHolders' < HeldByHolders \/ day' > day
          /\ recognizedRevenueUsd' = recognizedRevenueUsd
          /\ maxObservedRevenue' = maxObservedRevenue]_endVars

(***************************************************************************)
(* The revenue that unlocks ARM and decides wind-down is earned: no fee    *)
(* counts twice, and none is dropped but by an attestation that was        *)
(* overtaken; the ratchet is paced, the lock holds all it has not          *)
(* released, no balance and no denominator of redemption underflows.       *)
(***************************************************************************)
RevenueIsEarned ==
    /\ EndTypeOK
    /\ FeesCountedOnce
    /\ RatchetIsPaced
    /\ arm["lock"] >= TotalAllocation - SumOver(released, Beneficiaries)
    /\ CirculatingSupply >= 0
=============================================================================
