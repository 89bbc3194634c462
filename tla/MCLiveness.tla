----------------------------- MODULE MCLiveness -----------------------------
(***************************************************************************)
(* What the token sale, the governor and the relayer's two bridges owe     *)
(* their users, checked together: a behaviour runs one of the four and      *)
(* leaves the others alone.                                                 *)
(***************************************************************************)
EXTENDS MCGovernor, TLC

CONSTANTS buyer1, buyer2, LaunchTeam, burn, chain, NoCursor, NoMessage

VARIABLES
    saleNow, phase, armLoaded, refundMode, participantNodes, invitesReceived, invitesSent,
    invitedBy, launchTeamUsed, usedNonces, committed, hopCommitted, uniqueCommitters,
    totalCommitted, cappedDemand, saleSize, finalCeilings, finalDemands,
    totalAllocatedUsdc, totalAllocatedArm, claimDeadline, saleFinalizedAt, claimed,
    totalArmTransferred, wallet, escrow, treasuryUsdc, armHeld, armBalance

saleVars ==
    <<saleNow, phase, armLoaded, refundMode, participantNodes, invitesReceived, invitesSent,
      invitedBy, launchTeamUsed, usedNonces, committed, hopCommitted, uniqueCommitters,
      totalCommitted, cappedDemand, saleSize, finalCeilings, finalDemands,
      totalAllocatedUsdc, totalAllocatedArm, claimDeadline, saleFinalizedAt, claimed,
      totalArmTransferred, wallet, escrow, treasuryUsdc, armHeld, armBalance>>

ByHop(zero, one, two) == (0 :> zero) @@ (1 :> one) @@ (2 :> two)

Sale == INSTANCE Crowdfund WITH
    now <- saleNow, finalizedAt <- saleFinalizedAt,
    Users <- {buyer1, buyer2}, ArmPerUsdc <- 2,
    BaseSale <- 120, MaxSale <- 180, MinSale <- 100, ElasticTrigger <- 150, MinCommit <- 35,
    Cap <- ByHop(60, 40, 20), MaxInvitesReceived <- ByHop(1, 2, 2),
    MaxInvites <- ByHop(1, 1, 0), MaxSeeds <- 2, LaunchTeamBudget <- [h \in 1..2 |-> 0],
    WindowStart <- 1, WindowEnd <- 2, ClaimDeadlineDuration <- 1,
    Tickets <- {}, Nonces <- {}, Amounts <- {70}, InitialWallet <- 70, ArmGrants <- {360},
    MaxFinalizeNodes <- 4, MaxTime <- 4

VARIABLES
    irisHead, irisMinted, irisCursor, irisScanTo, irisProcessed, irisDead, irisStatus, irisFile,
    irisCrashes, irisFaults, attested, txs, at, after, chunkTo, todo, seen, dirty, pending

irisVars ==
    <<irisHead, irisMinted, irisCursor, irisScanTo, irisProcessed, irisDead, irisStatus, irisFile,
      irisCrashes, irisFaults, attested, txs, at, after, chunkTo, todo, seen, dirty, pending>>

VARIABLES
    head, minted, cursor, scanTo, processed, dead, status, file, crashes, faults,
    stray, job, queue, writes, spent

mockVars ==
    <<head, minted, cursor, scanTo, processed, dead, status, file, crashes, faults,
      stray, job, queue, writes, spent>>

Iris == INSTANCE IrisRelay WITH
    head <- irisHead, minted <- irisMinted, cursor <- irisCursor, scanTo <- irisScanTo,
    processed <- irisProcessed, dead <- irisDead, status <- irisStatus, file <- irisFile,
    crashes <- irisCrashes, faults <- irisFaults,
    Messages <- {burn}, BlockOf <- burn :> 1, TxOf <- burn :> "tx", BodyOf <- burn :> "bytes",
    Blocks <- 1, MaxRange <- 1, BootLookback <- 2, MaxBootLookback <- 2,
    MaxRetries <- 2, MaxTxs <- 2, MaxCrashes <- 1, FaultSets <- {{}, {"lost reply", "lookup"}}

Mock == INSTANCE CctpRelay WITH
    Chains <- {chain}, Messages <- {burn}, ChainOf <- burn :> chain, BlockOf <- burn :> 1,
    Blocks <- 1, MaxRange <- 1, BootLookback <- 2, MaxBootLookback <- 2,
    MaxRetries <- 2, ProcessedCap <- 1, MaxCrashes <- 1, FaultSets <- {{}}

PromiseInit ==
    /\ Init /\ Sale!Init /\ Iris!Init /\ Mock!Init
    /\ setting \in {"governance", "sale", "iris", "mock"}
    /\ setting = "iris" <=> irisFaults # {}

GovernanceStep == setting = "governance" /\ Next /\ UNCHANGED <<setting, saleVars, irisVars, mockVars>>
SaleStep       == setting = "sale" /\ Sale!Next /\ UNCHANGED <<setting, vars, irisVars, mockVars>>
IrisStep       == setting = "iris" /\ Iris!Next /\ UNCHANGED <<setting, vars, saleVars, mockVars>>
MockStep       == setting = "mock" /\ Mock!Next /\ UNCHANGED <<setting, vars, saleVars, irisVars>>

Held == UNCHANGED <<vars, saleVars, irisFaults, faults>>

\* FairSpec of each component, for the behaviours that run it.
PromiseSpec ==
    /\ PromiseInit
    /\ [][GovernanceStep \/ SaleStep \/ IrisStep \/ MockStep]_<<vars, setting, saleVars, irisVars, mockVars>>
    /\ WF_vars(setting = "governance" /\ Mine /\ now' = now + 1 /\ UNCHANGED saleVars)
    /\ \A i \in Ids :
          WF_vars(setting = "governance" /\ ResolveRatification(i) /\ UNCHANGED saleVars)
    /\ WF_saleVars(setting = "sale" /\ Sale!Tick /\ UNCHANGED vars)
    /\ WF_saleVars(setting = "sale" /\ Sale!Finalize /\ UNCHANGED vars)
    /\ \A a \in Sale!Addresses :
          /\ WF_saleVars(setting = "sale" /\ Sale!Claim(a, TRUE) /\ UNCHANGED vars)
          /\ WF_saleVars(setting = "sale" /\ Sale!ClaimRefund(a) /\ UNCHANGED vars)
    /\ WF_irisVars(setting = "iris" /\ Iris!Loop /\ Held)
    /\ SF_irisVars(setting = "iris" /\ Iris!ScanChunk /\ Held)
    /\ SF_irisVars(setting = "iris" /\ Iris!FetchReceipts({}) /\ Held)
    /\ WF_irisVars(setting = "iris" /\ Iris!Attest(burn) /\ Held)
    /\ SF_irisVars(setting = "iris" /\ Iris!CheckAttestations({burn}) /\ Held)
    /\ SF_irisVars(setting = "iris" /\ Iris!Resubmit(burn) /\ Held)
    /\ \A i \in 1..2 : WF_irisVars(setting = "iris" /\ i \in DOMAIN txs /\ Iris!Mine(i) /\ Held)
    /\ WF_mockVars(setting = "mock" /\ Mock!LandWrite /\ Held)
    /\ WF_mockVars(setting = "mock" /\ Mock!Loop /\ Held)
    /\ \A t \in Mock!Threads : WF_mockVars(setting = "mock" /\ Mock!Attempt(t) /\ Held)
    /\ WF_mockVars(setting = "mock" /\ Mock!ScanStep(chain) /\ Held)
    /\ SF_mockVars(setting = "mock" /\ Mock!ScanChunk(chain) /\ Held)
    /\ SF_mockVars(setting = "mock" /\ Mock!StartRetries({burn}) /\ Held)

(***************************************************************************)
(* EveryDepositSettles of the sale: whatever becomes of it, each deposit   *)
(* ends in a claim or a refund.                                            *)
(***************************************************************************)
EveryDepositSettles == Sale!EveryDepositSettles

(***************************************************************************)
(* EveryBurnSettles of the two bridges: whatever RPC calls, sends and one   *)
(* restart do, a burn is minted or given up after its retries.              *)
(***************************************************************************)
EveryBurnSettles == Iris!EveryBurnSettles /\ Mock!EveryBurnSettles

=============================================================================
