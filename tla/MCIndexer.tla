----------------------------- MODULE MCIndexer -----------------------------
(*****************************************************************************)
(* The poller and an operator over a chain of three blocks.  A behaviour     *)
(* keeps one of two settings: "confirmed", whose operator asks only for      *)
(* blocks that are confirmed, or "early", whose operator asks for any, with  *)
(* one faulty fetch less.                                                    *)
(*****************************************************************************)
EXTENDS Indexer

VARIABLE setting

\* Every fetch that may fail or mislead may as well succeed, so that fairness asks for no step
\* that a setting leaves out.
SettingStep ==
    /\ IngestNext
    /\ setting = "confirmed" => early' = early
    /\ setting = "early" => faults' < MaxFaults
    /\ UNCHANGED setting

SettingInit == IngestInit /\ setting \in {"confirmed", "early"}

SettingSpec == SettingInit /\ [][SettingStep]_<<ingestVars, setting>> /\ PollerFairness

=============================================================================
