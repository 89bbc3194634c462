------------------------------ MODULE Revenue ------------------------------
(***************************************************************************)
(* contracts/governance/RevenueCounter.sol, which recognises the fees a    *)
(* collector reports and what governance adds, and RevenueLock.sol, whose  *)
(* rate-limited ratchet over that counter unlocks ARM by milestones.       *)
(*                                                                         *)
(* Revenue is in one unit on both sides (the counter scales USDC to USD),  *)
(* time in days.                                                           *)
(***************************************************************************)
EXTENDS NaturalSums

CONSTANTS
    Collectors, NoCollector,     \* fee collectors, address(0)
    Beneficiaries, Allocation,   \* of the lock
    Milestones,                  \* unlockBps reached at a revenue
    FullBps,                     \* 10000
    MaxIncreasePerDay,
    FeeInputs, RevenueInputs,
    MaxRevenue, MaxDay,          \* bounds on what is earned and on the clock
    MaxAttestations              \* bound on the attestations voted on at a time

\* The constructor of the lock requires it.
ASSUME LockAssumption ==
    /\ IsFiniteSet(Beneficiaries) /\ Allocation \in [Beneficiaries -> Nat \ {0}]
    /\ FullBps \in Nat \ {0} /\ MaxIncreasePerDay \in Nat \ {0}
    /\ Milestones \subseteq [revenue : Nat, bps : 0..FullBps]

ASSUME CounterAssumption ==
    /\ NoCollector \notin Collectors
    /\ FeeInputs \subseteq Nat /\ RevenueInputs \subseteq Nat
    /\ {MaxRevenue, MaxDay, MaxAttestations} \subseteq Nat

VARIABLES
    day,
    collected,         \* cumulativeFeesCollected() of every collector
    feeCollector, lastSyncedCumulative, recognizedRevenueUsd, frozen,
    maxObservedRevenue, lastSyncTimestamp, frozenAtWindDown,
    activated, released,
    attestations,      \* attested totals that are voted on, with what was recognised then
    entrusted,         \* fees collected by a collector while it was the one in use
    attested,          \* revenue governance meant to add
    overtaken          \* an attestation replaced more than what it was proposed on

historyVars == <<entrusted, attested, overtaken>>
counterVars == <<collected, feeCollector, lastSyncedCumulative, recognizedRevenueUsd, frozen,
                 attestations, historyVars>>
ratchetVars == <<maxObservedRevenue, lastSyncTimestamp, frozenAtWindDown>>
releaseVars == <<activated, released>>

-----------------------------------------------------------------------------
RevenueInit ==
    /\ day = 0
    /\ collected = [c \in Collectors |-> 0]
    /\ feeCollector = NoCollector
    /\ lastSyncedCumulative = 0 /\ recognizedRevenueUsd = 0 /\ frozen = FALSE
    /\ maxObservedRevenue = 0 /\ lastSyncTimestamp = 0 /\ frozenAtWindDown = FALSE
    /\ activated = FALSE /\ released = [b \in Beneficiaries |-> 0]
    /\ attestations = {} /\ entrusted = 0 /\ attested = 0 /\ overtaken = FALSE

\* Yield and fees reach a collector (ArmadaFeeModule only ever adds).
CollectFees(c, amount) ==
    /\ collected[c] + amount <= MaxRevenue
    /\ collected' = [collected EXCEPT ![c] = @ + amount]
    /\ entrusted' = IF c = feeCollector THEN entrusted + amount ELSE entrusted
    /\ UNCHANGED <<feeCollector, lastSyncedCumulative, recognizedRevenueUsd, frozen,
                   attestations, attested, overtaken>>

\* What the collector in use reports beyond the last sync; a regression counts as nothing.
Unsynced ==
    IF feeCollector = NoCollector \/ collected[feeCollector] < lastSyncedCumulative THEN 0
    ELSE collected[feeCollector] - lastSyncedCumulative

SyncSucceeds == ~frozen /\ feeCollector # NoCollector

SyncStablecoinRevenue ==
    /\ SyncSucceeds
    /\ recognizedRevenueUsd' = recognizedRevenueUsd + Unsynced
    /\ lastSyncedCumulative' = collected[feeCollector]
    /\ UNCHANGED <<collected, feeCollector, frozen, attestations, historyVars>>

AddRevenue(delta) ==
    /\ ~frozen
    /\ recognizedRevenueUsd' = recognizedRevenueUsd + delta
    /\ attested + delta <= MaxRevenue /\ attested' = attested + delta
    /\ UNCHANGED <<collected, feeCollector, lastSyncedCumulative, frozen, attestations,
                   entrusted, overtaken>>

\* A proposal to correct the counter by so much carries the total of the day it is made.
ProposeAttestation(correction) ==
    /\ Cardinality(attestations) < MaxAttestations
    /\ attested + correction <= MaxRevenue
    /\ attestations' = attestations \cup
          {[basis |-> recognizedRevenueUsd, cumulative |-> recognizedRevenueUsd + correction]}
    /\ UNCHANGED <<collected, feeCollector, lastSyncedCumulative, recognizedRevenueUsd, frozen,
                   historyVars>>

(***************************************************************************)
(* The total is set, whatever was recognised since it was proposed, but    *)
(* never to a lower one.  What came in between is overwritten and no later *)
(* sync brings it back: the comment on the function names the hazard.      *)
(***************************************************************************)
AttestRevenue(proposal) ==
    /\ ~frozen
    /\ proposal \in attestations
    /\ proposal.cumulative >= recognizedRevenueUsd
    /\ recognizedRevenueUsd' = proposal.cumulative
    /\ attestations' = attestations \ {proposal}
    /\ attested' = attested + (proposal.cumulative - proposal.basis)
    /\ overtaken' = (overtaken \/ recognizedRevenueUsd # proposal.basis)
    /\ UNCHANGED <<collected, feeCollector, lastSyncedCumulative, frozen, entrusted>>

\* Mutant: the new collector starts from the old one's baseline.
SetCollectorKeepBaseline(c) ==
    /\ feeCollector' = c
    /\ recognizedRevenueUsd' = recognizedRevenueUsd + Unsynced
    /\ lastSyncedCumulative' = IF feeCollector = NoCollector THEN lastSyncedCumulative
                               ELSE collected[feeCollector]
    /\ UNCHANGED <<collected, frozen, attestations, historyVars>>

\* The old collector's last fees are credited, also when the counter is frozen.
SetFeeCollector(c) ==
    /\ feeCollector' = c
    /\ recognizedRevenueUsd' = recognizedRevenueUsd + Unsynced
    /\ lastSyncedCumulative' = IF c = NoCollector THEN 0 ELSE collected[c]
    /\ UNCHANGED <<collected, frozen, attestations, historyVars>>

-----------------------------------------------------------------------------
Lower(m, n) == IF m < n THEN m ELSE n

Higher(m, n) == IF m > n THEN m ELSE n

\* getCappedObservedRevenue, what an update of the ratchet stores.
CappedObservedRevenue ==
    IF frozenAtWindDown THEN maxObservedRevenue
    ELSE Higher(maxObservedRevenue,
                Lower(recognizedRevenueUsd,
                      maxObservedRevenue + (day - lastSyncTimestamp) * MaxIncreasePerDay))

\* The allowance of the elapsed days is used up by every update, also one that advances nothing.
UpdateMaxObservedRevenue ==
    /\ maxObservedRevenue' = CappedObservedRevenue
    /\ lastSyncTimestamp' = IF frozenAtWindDown THEN lastSyncTimestamp ELSE day

UnlockBps(revenue) ==
    LET reached == {m \in Milestones : revenue >= m.revenue}
    IN IF reached = {} THEN 0
       ELSE (CHOOSE m \in reached : \A n \in reached : n.bps <= m.bps).bps

Entitled(b, revenue) == (Allocation[b] * UnlockBps(revenue)) \div FullBps

TotalAllocation == SumOver(Allocation, Beneficiaries)

\* lockedAtWindDown
Locked == TotalAllocation - (TotalAllocation * UnlockBps(maxObservedRevenue)) \div FullBps

SyncObservedRevenue ==
    /\ UpdateMaxObservedRevenue
    /\ UNCHANGED <<frozenAtWindDown, releaseVars>>

\* Once, with at least the whole allocation in the contract.
Activate(balance) ==
    /\ ~activated /\ balance >= TotalAllocation
    /\ activated' = TRUE
    /\ UNCHANGED <<ratchetVars, released>>

Releasable(b) == Entitled(b, CappedObservedRevenue) - released[b]

\* The ratchet moves first; what is released brings the total up to the entitlement.
Release(b) ==
    /\ activated
    /\ UpdateMaxObservedRevenue
    /\ Releasable(b) > 0
    /\ released' = [released EXCEPT ![b] = @ + Releasable(b)]
    /\ UNCHANGED <<frozenAtWindDown, activated>>

(***************************************************************************)
(* No fee counts twice: what is recognised, with what the next sync would  *)
(* add, never exceeds what collectors took while in use and governance     *)
(* meant to add, through any order of syncs and changes of collector       *)
(* (setFeeCollector, "not silently dropped").  And none is dropped, unless *)
(* an attestation was overtaken by revenue recognised while it was voted   *)
(* on, which attestRevenue() says it overwrites.                           *)
(***************************************************************************)
FeesCountedOnce ==
    /\ recognizedRevenueUsd + Unsynced <= entrusted + attested
    /\ ~overtaken => recognizedRevenueUsd + Unsynced = entrusted + attested

(***************************************************************************)
(* The ratchet never outruns the days its updates have used up, nor what   *)
(* the counter recognised, and no release exceeds the entitlement          *)
(* (MAX_REVENUE_INCREASE_PER_DAY against a counter that jumps).            *)
(***************************************************************************)
RatchetIsPaced ==
    /\ maxObservedRevenue <= lastSyncTimestamp * MaxIncreasePerDay
    /\ maxObservedRevenue <= recognizedRevenueUsd
    /\ \A b \in Beneficiaries : released[b] <= Entitled(b, maxObservedRevenue)
=============================================================================
