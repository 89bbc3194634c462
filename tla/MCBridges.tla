----------------------------- MODULE MCBridges ------------------------------
(***************************************************************************)
(* Both bridges on small instances.  "iris": two burns in two blocks, each  *)
(* scanned as a chunk of its own; the second block comes where no fault is  *)
(* chosen.  "mock": two burns on the hub and one on a client chain; either  *)
(* both of the hub's are burnt, or the two chains have one each and are     *)
(* scanned in parallel.                                                     *)
(***************************************************************************)
EXTENDS Bridges, TLC

CONSTANTS a, b, c, t1, t2, x, y, hub, client

Block == a :> 1 @@ b :> 2
Tx == a :> t1 @@ b :> t2
Body == a :> x @@ b :> y
MockChain == a :> hub @@ b :> hub @@ c :> client
MockBlock == a :> 1 @@ b :> 2 @@ c :> 1

\* The bridge that stands still has no faults to choose.
MCInit ==
    /\ BridgesInit
    /\ setting = "iris" => mockFaults = {}
    /\ setting = "mock" => faults = {}

\* Bounds: a second burn comes where a kill, a revert or a failing call is all
\* that disturbs the relay, and before the kill; the client's burn is a second
\* one too, and comes while nothing waits for a retry.
IrisBounds ==
    head' = 2 =>
        /\ faults = {} /\ (head = 1 => crashes = 0)
        /\ \A i \in DOMAIN txs' : txs'[i].state # "dropped"
MockBounds ==
    /\ mockHead'[hub] = 2 => mockHead[client] = 0 /\ mockFaults = {}
    /\ mockHead'[client] = 1 => mockHead[hub] = 1 /\ mockFaults = {}
    /\ mockHead'[client] # mockHead[client] => queue = << >> /\ mockCrashes = 0

MCNext == (IrisStep /\ IrisBounds) \/ (MockStep /\ MockBounds)

\* BridgesSpec within these bounds.
MCSpec == MCInit /\ [][MCNext]_<<vars, setting, mockVars>>

=============================================================================
