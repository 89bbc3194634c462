--------------------------- MODULE OutflowLimits ---------------------------
(***************************************************************************)
(* What contracts/governance/ArmadaTreasuryGov.sol promises about one      *)
(* token: three settings bound what may leave in a rolling window, a       *)
(* tightening applies at once, and a loosening applies by itself when its  *)
(* delay is over.  Nothing here is lazy; the treasury implements this.     *)
(***************************************************************************)
EXTENDS NaturalSums

CONSTANTS Delay, Scale, Floor

Knobs == {"window", "bps", "absolute"}

NoChange == [value |-> 0, at |-> 0]

\* A shorter window forgets payments sooner, so it is the decrease that loosens it.
Looser(k, new, old) == IF k = "window" THEN new < old ELSE new > old

AtLeast(m, n) == IF m > n THEN m ELSE n

LimitOf(knobs, held) ==
    AtLeast(AtLeast((held * knobs["bps"]) \div Scale, knobs["absolute"]), Floor)

\* The payments of the window that ends on the given day, its first day included.
RecentSum(paid, window, day) == SumOver(paid, AtLeast(day - window, 0)..day)

VARIABLES
    day,        \* block time
    held,       \* the treasury's balance
    configured,
    knobs,      \* the settings in force
    scheduled,  \* loosenings on their way
    paid        \* outflow of each day

vars == <<day, held, configured, knobs, scheduled, paid>>

Init ==
    /\ day = 0 /\ held \in Nat
    /\ configured = FALSE
    /\ scheduled = [k \in Knobs |-> NoChange]
    /\ paid = [d \in DOMAIN paid |-> 0]

Configure ==
    /\ ~configured /\ configured' = TRUE
    /\ knobs' \in [Knobs -> Nat]
    /\ UNCHANGED <<day, held, scheduled, paid>>

Tighten(k) ==
    /\ ~Looser(k, knobs'[k], knobs[k])
    /\ knobs' = [knobs EXCEPT ![k] = knobs'[k]]
    /\ scheduled' = [scheduled EXCEPT ![k] = NoChange]
    /\ UNCHANGED <<day, held, configured, paid>>

Loosen(k) ==
    /\ Looser(k, scheduled'[k].value, knobs[k])
    /\ scheduled' = [scheduled EXCEPT ![k] = [value |-> scheduled'[k].value, at |-> day + Delay]]
    /\ UNCHANGED <<day, held, configured, knobs, paid>>

Due(k) == scheduled[k].at > 0 /\ day' >= scheduled[k].at

NewDay ==
    /\ day' = day + 1
    /\ knobs' = [k \in Knobs |-> IF Due(k) THEN scheduled[k].value ELSE knobs[k]]
    /\ scheduled' = [k \in Knobs |-> IF Due(k) THEN NoChange ELSE scheduled[k]]
    /\ UNCHANGED <<held, configured, paid>>

Pay ==
    /\ configured
    /\ \E amount \in 1..held :
          /\ RecentSum(paid, knobs["window"], day) + amount <= LimitOf(knobs, held)
          /\ paid' = [paid EXCEPT ![day] = @ + amount]
          /\ held' = held - amount
    /\ UNCHANGED <<day, configured, knobs, scheduled>>

\* Deposits, and the sweeps of wind-down, which no limit bounds.
Move ==
    /\ held' \in Nat
    /\ UNCHANGED <<day, configured, knobs, scheduled, paid>>

Next ==
    \/ Configure \/ NewDay \/ Pay \/ Move
    \/ configured /\ \E k \in Knobs : Tighten(k) \/ Loosen(k)

Spec == Init /\ [][Next]_vars
=============================================================================
