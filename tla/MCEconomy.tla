----------------------------- MODULE MCEconomy ------------------------------
(***************************************************************************)
(* What the DAO's treasury may pay while it governs, and what wind-down    *)
(* leaves to redeem.  A behaviour keeps one of four settings and leaves    *)
(* the state of the other half alone.  A treasury of four units and a      *)
(* delay of two days: "limits", without a steward and with outflow         *)
(* settings of two values each, or "steward", whose budget takes two       *)
(* values and outflow settings one.  A lock with one beneficiary, a sale   *)
(* with one buyer and two collectors: "earning", where fees and governance *)
(* decide when wind-down may trigger, over more revenue and fewer days,    *)
(* the sale stays open, ARM is paid out to alice alone, an attestation is  *)
(* proposed on the first day and governance adds one unit at most; or      *)
(* "sharing", where one collector is put in use on the first day,          *)
(* governance credits and distributes nothing and leaves transfers to      *)
(* wind-down, and ARM moves freely.                                        *)
(***************************************************************************)
EXTENDS Treasury, WindDown, TLC

CONSTANTS alice, bob, c1, c2

MCBudgets == {[limit |-> 2, window |-> 2], [limit |-> 1, window |-> 2]}
MCAllocation == alice :> 2
MCMilestones == {[revenue |-> 1, bps |-> 2], [revenue |-> 2, bps |-> 4]}
MCBought == alice :> 0 @@ bob :> 2
MCSupply == "treasury" :> 1 @@ "lock" :> 2 @@ "sale" :> 3

Limited  == INSTANCE Treasury WITH Budgets <- {}
Stewards == INSTANCE Treasury WITH WindowInputs <- {1}, AbsoluteInputs <- {3}

VARIABLE setting

\* What a setting of the second half leaves out; "sharing" earns less, over more days.
OnlyReleases ==
    /\ arm'[alice] >= arm[alice] /\ arm'[bob] = arm[bob]
    /\ sale' = sale /\ pool' = pool
    /\ day' < MaxDay
    /\ attested' < MaxRevenue
    /\ attestations' # {} => attestations # {} \/ day = 0

OnlyShares ==
    /\ attested' = attested /\ attestations' = attestations
    /\ threshold' = threshold /\ deadline' = deadline
    /\ feeCollector' # feeCollector => day = 0 /\ feeCollector = NoCollector /\ feeCollector' = c1
    /\ \A c \in {c1, c2} : collected'[c] # collected[c] => c = feeCollector /\ collected'[c] < MaxRevenue
    /\ transferable' = triggered'
    /\ \A h \in {alice, bob} : arm'[h] > arm[h] => arm'["treasury"] = arm["treasury"]

EconomyInit ==
    /\ Init /\ EndInit
    /\ setting \in {"limits", "steward", "earning", "sharing"}
    /\ setting # "earning" => deadline = 0 /\ threshold = 2

LimitsStep  == setting = "limits" /\ Limited!Next /\ UNCHANGED <<setting, endVars>>
StewardStep == setting = "steward" /\ Stewards!Next /\ UNCHANGED <<setting, endVars>>
EarningStep == setting = "earning" /\ EndNext /\ OnlyReleases /\ UNCHANGED <<setting, vars>>
SharingStep == setting = "sharing" /\ EndNext /\ OnlyShares /\ UNCHANGED <<setting, vars>>

EconomySpec ==
    /\ EconomyInit
    /\ [][LimitsStep \/ StewardStep \/ EarningStep \/ SharingStep]_<<vars, setting, endVars>>

=============================================================================
