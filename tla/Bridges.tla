------------------------------- MODULE Bridges --------------------------------
(***************************************************************************)
(* The relayer with its two ways to carry a burn across: IrisRelay polls    *)
(* Circle's attestation service, CctpRelay relays by itself.  The process   *)
(* constructs one of the two at its start and never changes over: the other *)
(* one stays at its initial state.                                          *)
(***************************************************************************)
EXTENDS IrisRelay

\* What the mock bridge takes beside the constants that both bridges share.
CONSTANTS Chains, MockMessages, ChainOf, MockBlockOf, ProcessedCap, NoMessage, MockCrashes, MockFaultSets

VARIABLES
    setting,    \* which bridge was chosen: "iris" or "mock" (CCTP_MODE)
    mockHead, mockMinted, stray, job, mockCursor, mockScanTo, queue, writes, mockProcessed,
    mockDead, spent, mockStatus, mockFile, mockCrashes, mockFaults

mockVars ==
    <<mockHead, mockMinted, stray, job, mockCursor, mockScanTo, queue, writes, mockProcessed,
      mockDead, spent, mockStatus, mockFile, mockCrashes, mockFaults>>

Mock == INSTANCE CctpRelay WITH
    Messages <- MockMessages, BlockOf <- MockBlockOf, MaxCrashes <- MockCrashes, FaultSets <- MockFaultSets,
    head <- mockHead, minted <- mockMinted, cursor <- mockCursor, scanTo <- mockScanTo,
    processed <- mockProcessed, dead <- mockDead, status <- mockStatus, file <- mockFile,
    crashes <- mockCrashes, faults <- mockFaults

ASSUME MockAssumption == Mock!CctpAssumption

BridgesInit == Init /\ Mock!Init /\ setting \in {"iris", "mock"}

IrisStep == setting = "iris" /\ Next /\ UNCHANGED <<setting, mockVars>>
MockStep == setting = "mock" /\ Mock!Next /\ UNCHANGED <<setting, vars>>

BridgesSpec == BridgesInit /\ [][IrisStep \/ MockStep]_<<vars, setting, mockVars>>

(***************************************************************************)
(* Properties                                                              *)
(***************************************************************************)
(* NothingLost of both relays: between scans, retries, timeouts and a kill  *)
(* at any await, each burn that was seen is waiting somewhere that survives *)
(* a restart, or is settled.                                                *)
BridgesLoseNothing ==
    /\ setting = "iris" => NothingLost
    /\ setting = "mock" => Mock!NothingLost

(* CctpRelay: the attempts of a queued message are never handed out afresh. *)
AttemptsOnlyGrow == Mock!AttemptsOnlyGrow

(* CctpRelay: a message whose last retry failed is recorded for manual      *)
(* relay, as the comment at enqueueRetry says.                              *)
GivenUpIsDeadLettered == Mock!GivenUpIsDeadLettered

=============================================================================
