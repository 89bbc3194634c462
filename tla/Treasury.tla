------------------------------ MODULE Treasury ------------------------------
(***************************************************************************)
(* contracts/governance/ArmadaTreasuryGov.sol, for one token: what leaves  *)
(* is bounded per rolling window, by settings whose loosening waits and is *)
(* applied lazily, by the next call that reads them.  The owner is the     *)
(* timelock; its calls are inputs here, whatever governance decides.       *)
(*                                                                         *)
(* Time is counted in days.  The records of payments, appended in the      *)
(* order of time and read back to a cutoff, are the sums of each day.      *)
(***************************************************************************)
EXTENDS NaturalSums

CONSTANTS
    LimitActivationDelay,
    BpsScale,                    \* 10000
    MinWindow, MaxOutflowWindow, \* 1 day, 365 days
    FloorAbsolute,               \* chosen once, by initOutflowConfig
    WindowInputs, BpsInputs, AbsoluteInputs, Amounts, Budgets,
    InitialBalance,
    MaxTime, MaxBalance          \* bounds on the clock and on deposits

ASSUME DelayAssumption == LimitActivationDelay \in Nat \ {0}
ASSUME ScaleAssumption == BpsScale \in Nat \ {0}
ASSUME BoundAssumption ==
    {MinWindow, MaxOutflowWindow, FloorAbsolute, InitialBalance, MaxTime, MaxBalance} \subseteq Nat
ASSUME InputAssumption ==
    /\ WindowInputs \subseteq Nat /\ BpsInputs \subseteq Nat /\ AbsoluteInputs \subseteq Nat
    /\ Amounts \subseteq Nat
    /\ Budgets \subseteq [limit : Nat, window : Nat]

Days  == 0..MaxTime
Knobs == {"window", "bps", "absolute"}

NoPending == [value |-> 0, at |-> 0]

NoBudget == [limit |-> 0, window |-> 0]

VARIABLES
    now,
    balance,
    initialized,
    active,         \* windowDuration, limitBps, limitAbsolute as stored
    pending,        \* and their pending slots, at = 0 when empty
    spentAt,        \* _outflowHistory, the amounts of each day
    budget, authorized,
    stewardSpentAt, \* _stewardSpendHistory
    windDownSet,
    stewardPaid,    \* history: what the steward was paid each day
    shown           \* history: what the getters showed at the end of the latest days

vars == <<now, balance, initialized, active, pending, spentAt, budget, authorized,
          stewardSpentAt, windDownSet, stewardPaid, shown>>

limitVars   == <<initialized, active, pending, spentAt>>
stewardVars == <<budget, authorized, stewardSpentAt, stewardPaid>>

-----------------------------------------------------------------------------
InputsOf(k) ==
    CASE k = "window" -> WindowInputs [] k = "bps" -> BpsInputs [] OTHER -> AbsoluteInputs

Allowed(k, v) ==
    CASE k = "window" -> MinWindow <= v /\ v <= MaxOutflowWindow
      [] k = "bps"    -> 0 < v /\ v <= BpsScale
      [] OTHER        -> v >= FloorAbsolute

\* Mutant: every setting loosens by increasing.
LooserWhenLarger(k, new, old) == new > old

\* A shorter lookback drops payments from the sum sooner: the window loosens by decreasing.
Looser(k, new, old) == IF k = "window" THEN new < old ELSE new > old

Due(k) == pending[k].at > 0 /\ now >= pending[k].at

\* _effectiveParams, and the values _lazyActivate returns and stores.
Effective == [k \in Knobs |-> IF Due(k) THEN pending[k].value ELSE active[k]]

StillPending == [k \in Knobs |-> IF Due(k) THEN NoPending ELSE pending[k]]

LazyActivate == active' = Effective /\ pending' = StillPending

AtLeast(m, n) == IF m > n THEN m ELSE n

EffectiveLimit(knobs, held) ==
    AtLeast(AtLeast((held * knobs["bps"]) \div BpsScale, knobs["absolute"]), FloorAbsolute)

\* _sumRecentRecords: the cutoff itself still counts.
RecentSum(records, window) == SumOver(records, AtLeast(now - window, 0)..now)

-----------------------------------------------------------------------------
Init ==
    /\ now = 0 /\ balance = InitialBalance
    /\ initialized = FALSE
    /\ active = [k \in Knobs |-> 0]
    /\ pending = [k \in Knobs |-> NoPending]
    /\ spentAt = [d \in Days |-> 0]
    /\ budget = NoBudget /\ authorized = FALSE
    /\ stewardSpentAt = [d \in Days |-> 0]
    /\ windDownSet = FALSE
    /\ stewardPaid = [d \in Days |-> 0]
    /\ shown = [d \in {} |-> active]

InitOutflowConfig ==
    /\ ~initialized /\ initialized' = TRUE
    /\ \E w \in WindowInputs, b \in BpsInputs, a \in AbsoluteInputs :
          /\ Allowed("window", w) /\ Allowed("bps", b) /\ Allowed("absolute", a)
          /\ active' = [k \in Knobs |-> CASE k = "window" -> w [] k = "bps" -> b [] OTHER -> a]
    /\ UNCHANGED <<now, balance, pending, spentAt, stewardVars, windDownSet, shown>>

\* Mutant: the direction is measured against the stored value.
SetStoredParam(k, v) ==
    /\ initialized /\ Allowed(k, v)
    /\ IF Looser(k, v, active[k])
       THEN /\ active' = active
            /\ pending' = [pending EXCEPT ![k] = [value |-> v, at |-> now + LimitActivationDelay]]
       ELSE /\ active' = [active EXCEPT ![k] = v]
            /\ pending' = [pending EXCEPT ![k] = NoPending]
    /\ UNCHANGED <<now, balance, initialized, spentAt, stewardVars, windDownSet, shown>>

\* setOutflowWindow, setOutflowLimitBps, setOutflowLimitAbsolute: loosening waits (a later
\* call overwrites it and restarts the delay), tightening is immediate and cancels it.
SetOutflowParam(k, v) ==
    /\ initialized /\ Allowed(k, v)
    /\ IF Looser(k, v, Effective[k])
       THEN /\ active' = Effective
            /\ pending' = [StillPending EXCEPT
                             ![k] = [value |-> v, at |-> now + LimitActivationDelay]]
       ELSE /\ active' = [Effective EXCEPT ![k] = v]
            /\ pending' = [StillPending EXCEPT ![k] = NoPending]
    /\ UNCHANGED <<now, balance, initialized, spentAt, stewardVars, windDownSet, shown>>

ActivatePending ==
    /\ LazyActivate
    /\ UNCHANGED <<now, balance, initialized, spentAt, stewardVars, windDownSet, shown>>

\* Checked, recorded and transferred in one transaction, or reverted.
CheckAndRecordOutflow(amount) ==
    /\ initialized
    /\ LazyActivate
    /\ RecentSum(spentAt, Effective["window"]) + amount <= EffectiveLimit(Effective, balance)
    /\ spentAt' = [spentAt EXCEPT ![now] = @ + amount]
    /\ amount <= balance /\ balance' = balance - amount
    /\ UNCHANGED <<now, initialized, windDownSet, shown>>

Distribute(amount) ==
    /\ amount > 0
    /\ CheckAndRecordOutflow(amount)
    /\ UNCHANGED stewardVars

StewardSpend(amount) ==
    /\ amount > 0
    /\ authorized
    /\ RecentSum(stewardSpentAt, budget.window) + amount <= budget.limit
    /\ stewardSpentAt' = [stewardSpentAt EXCEPT ![now] = @ + amount]
    /\ stewardPaid' = [stewardPaid EXCEPT ![now] = @ + amount]
    /\ CheckAndRecordOutflow(amount)
    /\ UNCHANGED <<budget, authorized>>

\* addStewardBudgetToken and updateStewardBudgetToken differ in what they require to exist.
AddStewardBudget(b) ==
    /\ ~authorized /\ authorized' = TRUE
    /\ b.limit > 0 /\ b.window >= MinWindow
    /\ budget' = b
    /\ UNCHANGED <<now, balance, limitVars, stewardSpentAt, stewardPaid, windDownSet, shown>>

UpdateStewardBudget(b) ==
    /\ authorized
    /\ b.limit > 0 /\ b.window >= MinWindow
    /\ budget' = b
    /\ UNCHANGED <<now, balance, limitVars, authorized, stewardSpentAt, stewardPaid, windDownSet, shown>>

\* Mutant: the history goes with the budget.
RemoveBudgetAndHistory ==
    /\ authorized /\ authorized' = FALSE
    /\ budget' = NoBudget
    /\ stewardSpentAt' = [d \in Days |-> 0]
    /\ UNCHANGED <<now, balance, limitVars, stewardPaid, windDownSet, shown>>

\* The history of spends stays, so that a budget added again counts them.
RemoveStewardBudget ==
    /\ authorized /\ authorized' = FALSE
    /\ budget' = NoBudget
    /\ UNCHANGED <<now, balance, limitVars, stewardSpentAt, stewardPaid, windDownSet, shown>>

SetWindDownContract ==
    /\ ~windDownSet /\ windDownSet' = TRUE
    /\ UNCHANGED <<now, balance, limitVars, stewardVars, shown>>

\* transferTo: the wind-down contract empties the treasury past every limit.
TransferTo ==
    /\ windDownSet /\ balance > 0
    /\ balance' = 0
    /\ UNCHANGED <<now, limitVars, stewardVars, windDownSet, shown>>

\* Revenue arrives; MaxBalance bounds it.
Receive(amount) ==
    /\ balance + amount <= MaxBalance /\ balance' = balance + amount
    /\ UNCHANGED <<now, limitVars, stewardVars, windDownSet, shown>>

\* The loosest value of a setting that is in force or on its way (getPendingOutflowConfig,
\* getEffectiveOutflowConfig).
Shown == [k \in Knobs |-> IF pending[k].at > 0 THEN pending[k].value ELSE active[k]]

\* The latest days for which a reader of the getters was promised something.
Remembered == {d \in AtLeast(now + 1 - LimitActivationDelay, 0)..now :
                  IF d = now THEN initialized ELSE d \in DOMAIN shown}

Tick ==
    /\ now < MaxTime /\ now' = now + 1
    /\ shown' = [d \in Remembered |-> IF d = now THEN Shown ELSE shown[d]]
    /\ UNCHANGED <<balance, limitVars, stewardVars, windDownSet>>

Governance ==
    \/ InitOutflowConfig
    \/ \E k \in Knobs : \E v \in InputsOf(k) : SetOutflowParam(k, v)
    \/ \E amount \in Amounts : Distribute(amount) \/ StewardSpend(amount)
    \/ \E b \in Budgets : AddStewardBudget(b) \/ UpdateStewardBudget(b)
    \/ RemoveStewardBudget
    \/ SetWindDownContract

Next ==
    \/ Governance
    \/ ActivatePending
    \/ TransferTo
    \/ \E amount \in Amounts : Receive(amount)
    \/ Tick

Spec == Init /\ [][Next]_vars

-----------------------------------------------------------------------------
TypeOK ==
    /\ now \in Days
    /\ balance \in Nat
    /\ initialized \in BOOLEAN
    /\ active \in [Knobs -> Nat]
    /\ pending \in [Knobs -> [value : Nat, at : 0..(now + LimitActivationDelay)]]
    /\ spentAt \in [Days -> Nat]
    /\ budget \in [limit : Nat, window : Nat]
    /\ authorized \in BOOLEAN
    /\ stewardSpentAt \in [Days -> Nat]
    /\ windDownSet \in BOOLEAN
    /\ stewardPaid \in [Days -> Nat]
    /\ \E S \in SUBSET Days : shown \in [S -> [Knobs -> Nat]]

(***************************************************************************)
(* Notice: who read the settings in force and on their way at the end of a *)
(* day knows what may leave on each of the next LimitActivationDelay days, *)
(* whatever governance decides meanwhile: every payment stays within that  *)
(* limit over that window (LIMIT_ACTIVATION_DELAY, the defence against a   *)
(* captured governance).                                                   *)
(***************************************************************************)
Notice ==
    [][\A d \in DOMAIN shown :
          spentAt' # spentAt =>
             RecentSum(spentAt', shown[d]["window"]) <= EffectiveLimit(shown[d], balance)]_vars

\* No budget the owner can grant has a larger limit than b or a shorter window than c.
Extreme(b, c) ==
    \A d \in Budgets :
       /\ d.limit <= b.limit
       /\ d.window >= MinWindow => d.window >= c.window

(***************************************************************************)
(* However often the steward's budget is removed, added again or changed,  *)
(* what it spends within the shortest window it ever had never exceeds the *)
(* largest limit it ever had (the history survives removeStewardBudget).   *)
(***************************************************************************)
StewardStaysBounded ==
    \A b, c \in Budgets :
       Extreme(b, c) => RecentSum(stewardPaid, c.window) <= b.limit

Limits == INSTANCE OutflowLimits WITH
    Delay <- LimitActivationDelay, Scale <- BpsScale, Floor <- FloorAbsolute,
    day <- now, held <- balance, configured <- initialized,
    knobs <- Effective, scheduled <- StillPending, paid <- spentAt

(***************************************************************************)
(* Lazy activation cannot be observed: the treasury implements limits that *)
(* change by themselves on the day they are due, in every call that reads  *)
(* or replaces them (_lazyActivate "must be called at the top of every     *)
(* code path that reads an outflow parameter").                            *)
(***************************************************************************)
ImplementsOutflowLimits == Limits!Spec
=============================================================================
