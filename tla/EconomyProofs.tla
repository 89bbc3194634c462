--------------------------- MODULE EconomyProofs ----------------------------
(***************************************************************************)
(* What holds of the treasury, of revenue, of the lock and of redemption   *)
(* for every delay, scale and set of settings, and for every set of        *)
(* accounts, beneficiaries, milestones and amounts.                        *)
(***************************************************************************)
EXTENDS Treasury, WindDown, NaturalSumLemmas

-----------------------------------------------------------------------------
(***************************************************************************)
(* THE TREASURY                                                            *)
(***************************************************************************)

(***************************************************************************)
(* Higher settings allow at least as much.                                 *)
(***************************************************************************)
LEMMA LimitMonotone ==
    ASSUME NEW x \in [Knobs -> Nat], NEW y \in [Knobs -> Nat], NEW h \in Nat,
           x["bps"] <= y["bps"], x["absolute"] <= y["absolute"]
    PROVE  EffectiveLimit(x, h) <= EffectiveLimit(y, h)
<1>1. /\ x["bps"] \in Nat /\ y["bps"] \in Nat
      /\ x["absolute"] \in Nat /\ y["absolute"] \in Nat
  BY DEF Knobs
<1>2. /\ h * x["bps"] \in Nat
      /\ h * y["bps"] \in Nat
      /\ h * x["bps"] <= h * y["bps"]
  BY <1>1, ProductMonotone
<1>3. /\ (h * x["bps"]) \div BpsScale \in Nat
      /\ (h * y["bps"]) \div BpsScale \in Nat
      /\ (h * x["bps"]) \div BpsScale <= (h * y["bps"]) \div BpsScale
  BY <1>2, DivMonotone, ScaleAssumption
<1>. QED  BY <1>1, <1>3, BoundAssumption, SMT DEF EffectiveLimit, AtLeast

\* A limit in force is a number.
LEMMA LimitType ==
    ASSUME NEW x \in [Knobs -> Nat], NEW h \in Nat
    PROVE  EffectiveLimit(x, h) \in Nat
<1>1. x["bps"] \in Nat /\ x["absolute"] \in Nat
  BY DEF Knobs
<1>2. h * x["bps"] \in Nat
  BY <1>1, ProductMonotone, SMT
<1>3. (h * x["bps"]) \div BpsScale \in Nat
  BY <1>2, DivMonotone, ScaleAssumption, SMT
<1>. QED  BY <1>1, <1>3, BoundAssumption, SMT DEF EffectiveLimit, AtLeast

-----------------------------------------------------------------------------
(* Sums over windows *)

\* A window consists of days of the instance.
LEMMA WindowIsDays ==
    ASSUME NEW t \in Days, NEW w \in Nat
    PROVE  /\ AtLeast(t - w, 0)..t \subseteq Days
           /\ IsFiniteSet(AtLeast(t - w, 0)..t)
           /\ t \in AtLeast(t - w, 0)..t
<1>1. AtLeast(t - w, 0) \in Nat /\ AtLeast(t - w, 0) <= t /\ t \in Nat
  BY BoundAssumption, SMT DEF AtLeast, Days
<1>. HIDE DEF AtLeast
<1>2. IsFiniteSet(AtLeast(t - w, 0)..t)
  BY <1>1, FS_Interval, SMT
<1>3. AtLeast(t - w, 0)..t \subseteq Days /\ t \in AtLeast(t - w, 0)..t
  BY <1>1, BoundAssumption, SMT DEF Days
<1>. QED  BY <1>2, <1>3

\* What was paid within a window is a number.
LEMMA WindowSumType ==
    ASSUME NEW f \in [Days -> Nat], NEW t \in Days, NEW w \in Nat
    PROVE  SumOver(f, AtLeast(t - w, 0)..t) \in Nat
  BY WindowIsDays, SumType

\* Within a shorter window not more was paid.
LEMMA ShorterWindow ==
    ASSUME NEW f \in [Days -> Nat], NEW t \in Days, NEW v \in Nat, NEW w \in Nat, v <= w
    PROVE  SumOver(f, AtLeast(t - v, 0)..t) <= SumOver(f, AtLeast(t - w, 0)..t)
<1>. DEFINE R == AtLeast(t - v, 0)..t
            S == AtLeast(t - w, 0)..t
<1>1. R \subseteq S
  BY BoundAssumption, SMT DEF AtLeast, Days
<1>2. S \subseteq Days /\ IsFiniteSet(S)
  BY WindowIsDays
<1>3. \A x \in R : f[x] <= f[x]
  <2>. SUFFICES ASSUME NEW x \in R PROVE f[x] <= f[x]
    OBVIOUS
  <2>1. x \in Days
    BY <1>1, <1>2
  <2>2. f[x] \in Nat
    BY <2>1
  <2>. QED  BY <2>2, SMT
<1>. HIDE DEF R, S
<1>4. SumOver(f, R) <= SumOver(f, S)
  BY <1>1, <1>2, <1>3, SumMonotone
<1>. QED  BY <1>4 DEF R, S

\* A payment adds its amount to every window that ends today.
LEMMA PaidToday ==
    ASSUME NEW f \in [Days -> Nat], NEW t \in Days, NEW w \in Nat, NEW a \in Nat
    PROVE  SumOver([f EXCEPT ![t] = @ + a], AtLeast(t - w, 0)..t)
              = SumOver(f, AtLeast(t - w, 0)..t) + a
<1>. DEFINE g == [f EXCEPT ![t] = @ + a]
            S == AtLeast(t - w, 0)..t
<1>1. S \subseteq Days /\ IsFiniteSet(S) /\ t \in S
  BY WindowIsDays
<1>2. f[t] \in Nat /\ f[t] + a \in Nat
  BY SMT
<1>3. g \in [Days -> Nat]
  BY <1>2
<1>4. g[t] = f[t] + a
  OBVIOUS
<1>5. \A y \in S \ {t} : g[y] = f[y]
  BY <1>1
<1>6. SumOver(f, S) \in Nat /\ SumOver(g, S) \in Nat
  BY <1>1, <1>3, SumType
<1>. HIDE DEF g, S
<1>7. SumOver(g, S) + f[t] = SumOver(f, S) + g[t]
  BY <1>1, <1>3, <1>5, SumUpdate
<1>8. SumOver(g, S) = SumOver(f, S) + a
  BY <1>2, <1>4, <1>6, <1>7, SMT
<1>. QED  BY <1>8 DEF g, S

(***************************************************************************)
(* Overnight a window forgets a day and gains an empty one.                *)
(***************************************************************************)
LEMMA Overnight ==
    ASSUME NEW f \in [Days -> Nat], NEW t \in Days, NEW u \in Days, u = t + 1, NEW w \in Nat,
           f[u] = 0
    PROVE  SumOver(f, AtLeast(u - w, 0)..u) <= SumOver(f, AtLeast(t - w, 0)..t)
<1>. DEFINE first == AtLeast(u - w, 0)
            R == first..t
            S == AtLeast(t - w, 0)..t
            N == first..u
<1>1. t \in Nat /\ u \in Nat /\ first \in Nat /\ first <= u
  BY BoundAssumption, SMT DEF Days, AtLeast
<1>2. R \subseteq S
  BY BoundAssumption, SMT DEF AtLeast, Days
<1>3. S \subseteq Days /\ IsFiniteSet(S) /\ N \subseteq Days /\ IsFiniteSet(N)
  BY WindowIsDays
<1>4. u \in N /\ N \ {u} = R
  <2>. HIDE DEF first
  <2>1. u \in N
    BY <1>1, SMT
  <2>2. \A x : x \in R <=> x \in N /\ x # u
    BY <1>1, SMT
  <2>. HIDE DEF R, N
  <2>. QED  BY <2>1, <2>2
<1>5. \A x \in R : f[x] <= f[x]
  <2>. SUFFICES ASSUME NEW x \in R PROVE f[x] <= f[x]
    OBVIOUS
  <2>1. x \in Days
    BY <1>2, <1>3
  <2>2. f[x] \in Nat
    BY <2>1
  <2>. QED  BY <2>2, SMT
<1>6. IsFiniteSet(R) /\ R \subseteq Days
  BY <1>2, <1>3, FS_Subset
<1>. HIDE DEF R, S, N, first
<1>7. SumOver(f, N) = SumOver(f, N \ {u}) + f[u]
  <2>1. N \in SUBSET Days /\ IsFiniteSet(N) /\ u \in N
    BY <1>3, <1>4
  <2>. QED  BY <2>1, SumWithout
<1>8. SumOver(f, R) <= SumOver(f, S)
  BY <1>2, <1>3, <1>5, SumMonotone
<1>9. SumOver(f, R) \in Nat /\ SumOver(f, S) \in Nat /\ SumOver(f, N) \in Nat
  BY <1>3, <1>6, SumType
<1>10. SumOver(f, N) <= SumOver(f, S)
  BY <1>4, <1>7, <1>8, <1>9, SMT
<1>. QED  BY <1>10 DEF S, N, first

-----------------------------------------------------------------------------
(* The inductive invariant *)

\* A reader of the getters is remembered for the length of the delay.
ShownLately ==
    \A d \in DOMAIN shown : d < now /\ now <= d + LimitActivationDelay

\* Before initOutflowConfig there was nothing to read, and nothing is on its way.
NothingBeforeInit ==
    ~initialized => /\ DOMAIN shown = {}
                    /\ \A k \in Knobs : pending[k].at = 0

\* What is on its way is looser than what it will replace.
PendingLoosens ==
    \A k \in Knobs : pending[k].at > 0 => Looser(k, pending[k].value, active[k])

\* No setting in force is looser than a reader was shown.
InForceAsShown ==
    \A d \in DOMAIN shown : \A k \in Knobs : ~Looser(k, Effective[k], shown[d][k])

\* Nor is one that comes into force while the reader counts on it.
PendingAsShown ==
    \A k \in Knobs : pending[k].at > 0 =>
       \A d \in DOMAIN shown :
          pending[k].at <= d + LimitActivationDelay => ~Looser(k, pending[k].value, shown[d][k])

NoticeInv ==
    TypeOK /\ ShownLately /\ NothingBeforeInit /\ PendingLoosens /\ InForceAsShown /\ PendingAsShown

\* The steward's recorded and actual spends agree, none of them lies ahead, and its budget was
\* given by the owner.
StewardInv ==
    /\ stewardPaid = stewardSpentAt
    /\ \A d \in Days : d > now => stewardPaid[d] = 0
    /\ authorized => budget \in Budgets /\ budget.window >= MinWindow
    /\ StewardStaysBounded

-----------------------------------------------------------------------------
(* Types *)

PendingType == [value : Nat, at : 0..(now + LimitActivationDelay)]

\* Activation leaves settings and changes of them that are well formed.
LEMMA EffectiveType ==
    ASSUME TypeOK
    PROVE  /\ Effective \in [Knobs -> Nat]
           /\ StillPending \in [Knobs -> PendingType]
           /\ \A k \in Knobs : /\ pending[k].value \in Nat /\ pending[k].at \in Nat
                               /\ pending[k].at <= now + LimitActivationDelay
                               /\ active[k] \in Nat
           /\ now \in Nat
<1>1. now \in Nat /\ NoPending \in PendingType
  BY DelayAssumption, BoundAssumption, SMT DEF TypeOK, Days, NoPending, PendingType
<1>2. ASSUME NEW k \in Knobs
      PROVE  /\ pending[k] \in PendingType
             /\ pending[k].value \in Nat /\ pending[k].at \in Nat
             /\ pending[k].at <= now + LimitActivationDelay
             /\ active[k] \in Nat
  <2>1. pending[k] \in PendingType
    BY DEF TypeOK, PendingType
  <2>2. pending[k].value \in Nat /\ pending[k].at \in 0..(now + LimitActivationDelay)
    BY <2>1 DEF PendingType
  <2>3. active[k] \in Nat
    BY DEF TypeOK
  <2>. QED  BY <1>1, <2>1, <2>2, <2>3, DelayAssumption, SMT
<1>3. Effective \in [Knobs -> Nat]
  BY <1>2 DEF Effective
<1>4. StillPending \in [Knobs -> PendingType]
  BY <1>1, <1>2 DEF StillPending
<1>. QED  BY <1>1, <1>2, <1>3, <1>4

\* A setting that is changed stays well formed.
LEMMA SetType ==
    ASSUME TypeOK, NEW k \in Knobs, NEW v \in InputsOf(k), SetOutflowParam(k, v)
    PROVE  TypeOK' /\ v \in Nat
<1>1. v \in Nat
  BY InputAssumption DEF InputsOf
<1>2. NoPending \in PendingType /\ [value |-> v, at |-> now + LimitActivationDelay] \in PendingType
  BY <1>1, EffectiveType, DelayAssumption, SMT DEF NoPending, PendingType
<1>3. active' \in [Knobs -> Nat] /\ pending' \in [Knobs -> PendingType]
  BY <1>1, <1>2, EffectiveType DEF SetOutflowParam
<1>. QED  BY <1>1, <1>3 DEF TypeOK, SetOutflowParam, stewardVars, PendingType

\* A payment leaves the limits, the spending and the balance well formed.
LEMMA PaymentType ==
    ASSUME TypeOK, NEW a \in Nat, CheckAndRecordOutflow(a)
    PROVE  /\ now' = now /\ now' \in Days /\ initialized' \in BOOLEAN /\ windDownSet' \in BOOLEAN
           /\ balance' \in Nat
           /\ active' \in [Knobs -> Nat] /\ pending' \in [Knobs -> PendingType]
           /\ spentAt' \in [Days -> Nat]
           /\ \E S \in SUBSET Days : shown' \in [S -> [Knobs -> Nat]]
<1>1. active' \in [Knobs -> Nat] /\ pending' \in [Knobs -> PendingType]
  BY EffectiveType DEF CheckAndRecordOutflow, LazyActivate
<1>2. balance' \in Nat
  BY SMT DEF TypeOK, CheckAndRecordOutflow
<1>3. spentAt' \in [Days -> Nat]
  <2>1. spentAt[now] + a \in Nat
    BY SMT DEF TypeOK
  <2>. QED  BY <2>1 DEF TypeOK, CheckAndRecordOutflow
<1>. QED  BY <1>1, <1>2, <1>3 DEF TypeOK, CheckAndRecordOutflow

\* So does the passing of a day.
LEMMA TickType ==
    ASSUME TypeOK, Tick
    PROVE  TypeOK'
<1>1. now' \in Days /\ now \in Nat /\ now' = now + 1
  BY BoundAssumption, SMT DEF TypeOK, Tick, Days
<1>2. pending' \in [Knobs -> [value : Nat, at : 0..(now' + LimitActivationDelay)]]
  <2>1. 0..(now + LimitActivationDelay) \subseteq 0..(now' + LimitActivationDelay)
    BY <1>1, DelayAssumption, SMT
  <2>. QED  BY <2>1 DEF TypeOK, Tick, limitVars
<1>3. Shown \in [Knobs -> Nat]
  BY EffectiveType DEF Shown
<1>4. Remembered \subseteq Days
  BY <1>1, DelayAssumption, BoundAssumption, SMT DEF Remembered, AtLeast, TypeOK, Days
<1>5. \A d \in Remembered : d # now => d \in DOMAIN shown
  BY DEF Remembered
<1>6. shown' \in [Remembered -> [Knobs -> Nat]]
  BY <1>3, <1>5 DEF Tick, TypeOK
<1>7. UNCHANGED <<balance, initialized, active, spentAt, stewardVars, windDownSet>>
  BY DEF Tick, limitVars
<1>. QED  BY <1>1, <1>2, <1>4, <1>6, <1>7 DEF TypeOK, stewardVars

\* Initially everything is well formed.
LEMMA TypeInit == Init => TypeOK
<1>. SUFFICES ASSUME Init PROVE TypeOK
  OBVIOUS
<1>1. 0 \in Days /\ 0 \in Nat
  BY BoundAssumption, SMT DEF Days
<1>2. pending \in [Knobs -> [value : Nat, at : 0..(now + LimitActivationDelay)]]
  BY DelayAssumption, SMT DEF Init, NoPending
<1>3. shown \in [{} -> [Knobs -> Nat]]
  BY DEF Init
<1>. QED  BY <1>1, <1>2, <1>3, BoundAssumption DEF Init, TypeOK, NoBudget

(***************************************************************************)
(* Every step keeps the types; no payment and no sweep takes the balance   *)
(* below zero.                                                             *)
(***************************************************************************)
THEOREM TypeCorrect == Spec => []TypeOK
<1>1. Init => TypeOK
  BY TypeInit
<1>2. TypeOK /\ [Next]_vars => TypeOK'
  <2>. SUFFICES ASSUME TypeOK, [Next]_vars PROVE TypeOK'
    OBVIOUS
  <2>1. CASE InitOutflowConfig
    <3>1. active' \in [Knobs -> Nat]
      BY <2>1, InputAssumption DEF InitOutflowConfig
    <3>. QED  BY <2>1, <3>1 DEF TypeOK, InitOutflowConfig, stewardVars
  <2>2. ASSUME NEW k \in Knobs, NEW v \in InputsOf(k), SetOutflowParam(k, v) PROVE TypeOK'
    BY <2>2, SetType
  <2>3. ASSUME NEW a \in Amounts, Distribute(a) PROVE TypeOK'
    <3>1. a \in Nat /\ CheckAndRecordOutflow(a) /\ UNCHANGED stewardVars
      BY <2>3, InputAssumption DEF Distribute
    <3>. QED  BY <3>1, PaymentType DEF TypeOK, stewardVars, PendingType
  <2>4. ASSUME NEW a \in Amounts, StewardSpend(a) PROVE TypeOK'
    <3>1. a \in Nat /\ CheckAndRecordOutflow(a) /\ UNCHANGED <<budget, authorized>>
      BY <2>4, InputAssumption DEF StewardSpend
    <3>2. stewardSpentAt[now] + a \in Nat /\ stewardPaid[now] + a \in Nat
      BY <3>1, SMT DEF TypeOK
    <3>3. stewardSpentAt' \in [Days -> Nat] /\ stewardPaid' \in [Days -> Nat]
      BY <2>4, <3>2 DEF TypeOK, StewardSpend
    <3>. QED  BY <3>1, <3>3, PaymentType DEF TypeOK, PendingType
  <2>5. ASSUME NEW b \in Budgets, AddStewardBudget(b) \/ UpdateStewardBudget(b) PROVE TypeOK'
    BY <2>5, InputAssumption DEF TypeOK, AddStewardBudget, UpdateStewardBudget, limitVars
  <2>6. CASE RemoveStewardBudget
    <3>1. budget' \in [limit : Nat, window : Nat]
      BY <2>6, SMT DEF RemoveStewardBudget, NoBudget
    <3>. QED  BY <2>6, <3>1 DEF TypeOK, RemoveStewardBudget, limitVars
  <2>7. CASE SetWindDownContract
    BY <2>7 DEF TypeOK, SetWindDownContract, limitVars, stewardVars
  <2>8. CASE ActivatePending
    <3>1. active' \in [Knobs -> Nat] /\ pending' \in [Knobs -> PendingType]
      BY <2>8, EffectiveType DEF ActivatePending, LazyActivate
    <3>. QED  BY <2>8, <3>1 DEF TypeOK, ActivatePending, stewardVars, PendingType
  <2>9. CASE TransferTo
    BY <2>9, SMT DEF TypeOK, TransferTo, limitVars, stewardVars
  <2>10. ASSUME NEW a \in Amounts, Receive(a) PROVE TypeOK'
    <3>1. a \in Nat /\ balance' \in Nat
      BY <2>10, InputAssumption, SMT DEF TypeOK, Receive
    <3>. QED  BY <2>10, <3>1 DEF TypeOK, Receive, limitVars, stewardVars
  <2>11. CASE Tick
    BY <2>11, TickType
  <2>12. CASE UNCHANGED vars
    BY <2>12 DEF TypeOK, vars
  <2>. QED
    BY <2>1, <2>2, <2>3, <2>4, <2>5, <2>6, <2>7, <2>8, <2>9, <2>10, <2>11, <2>12
       DEF Next, Governance
<1>. QED  BY <1>1, <1>2, PTL DEF Spec

-----------------------------------------------------------------------------
(* Notice *)

(***************************************************************************)
(* Lazy activation changes what is stored, not what is in force.           *)
(***************************************************************************)
LEMMA LazyIsInvisible ==
    ASSUME TypeOK, LazyActivate, now' = now
    PROVE  /\ Effective' = Effective
           /\ StillPending' = StillPending
           /\ \A k \in Knobs : pending'[k].at > 0 =>
                 pending'[k] = pending[k] /\ active'[k] = active[k]
<1>1. ASSUME NEW k \in Knobs
      PROVE  /\ (IF Due(k)' THEN pending'[k].value ELSE active'[k]) = Effective[k]
             /\ (IF Due(k)' THEN NoPending ELSE pending'[k]) = StillPending[k]
             /\ pending'[k].at > 0 => pending'[k] = pending[k] /\ active'[k] = active[k]
  <2>1. active'[k] = Effective[k] /\ pending'[k] = StillPending[k]
    BY DEF LazyActivate
  <2>2. CASE Due(k)
    <3>1. pending'[k] = NoPending
      BY <2>1, <2>2 DEF StillPending
    <3>2. ~(NoPending.at > 0)
      BY SMT DEF NoPending
    <3>. QED  BY <2>1, <3>1, <3>2 DEF Due
  <2>3. CASE ~Due(k)
    <3>1. pending'[k] = pending[k] /\ active'[k] = active[k]
      BY <2>1, <2>3 DEF StillPending, Effective
    <3>2. ~Due(k)'
      BY <2>3, <3>1 DEF Due
    <3>. QED  BY <2>1, <3>1, <3>2
  <2>. QED  BY <2>2, <2>3
<1>. QED  BY <1>1 DEF Effective, StillPending, LazyActivate

(***************************************************************************)
(* Steps of the same day that leave the settings alone, up to activation.  *)
(***************************************************************************)
LEMMA NoticeKept ==
    ASSUME NoticeInv, TypeOK', now' = now, shown' = shown, initialized' = initialized,
           LazyActivate \/ UNCHANGED <<active, pending>>
    PROVE  NoticeInv'
<1>1. /\ Effective' = Effective
      /\ \A k \in Knobs : pending'[k].at > 0 => pending'[k] = pending[k] /\ active'[k] = active[k]
  <2>1. CASE LazyActivate
    BY <2>1, LazyIsInvisible DEF NoticeInv
  <2>2. CASE UNCHANGED <<active, pending>>
    BY <2>2 DEF Effective, Due
  <2>. QED  BY <2>1, <2>2
<1>2. \A k \in Knobs : pending'[k].at \in Nat
  <2>. SUFFICES ASSUME NEW k \in Knobs PROVE pending'[k].at \in Nat
    OBVIOUS
  <2>. QED  BY DelayAssumption, BoundAssumption, SMT DEF TypeOK, Days
<1>3. ShownLately' /\ InForceAsShown'
  BY <1>1 DEF NoticeInv, ShownLately, InForceAsShown
<1>4. NothingBeforeInit'
  <2>. SUFFICES ASSUME ~initialized' PROVE \A k \in Knobs : pending'[k].at = 0
    BY DEF NoticeInv, NothingBeforeInit
  <2>. SUFFICES ASSUME NEW k \in Knobs PROVE pending'[k].at = 0
    OBVIOUS
  <2>1. pending[k].at = 0
    BY DEF NoticeInv, NothingBeforeInit
  <2>2. ~(pending'[k].at > 0)
    BY <1>1, <2>1, SMT
  <2>. QED  BY <1>2, <2>2, SMT
<1>5. PendingLoosens'
  BY <1>1 DEF NoticeInv, PendingLoosens
<1>6. PendingAsShown'
  BY <1>1 DEF NoticeInv, PendingAsShown
<1>. QED  BY <1>3, <1>4, <1>5, <1>6 DEF NoticeInv

(***************************************************************************)
(* A new value is either no looser than the one in force, or too far away  *)
(* to surprise anybody.                                                    *)
(***************************************************************************)
LEMMA SetKeepsNotice ==
    ASSUME NoticeInv, NEW k \in Knobs, NEW v \in InputsOf(k), SetOutflowParam(k, v)
    PROVE  NoticeInv'
<1>1. /\ TypeOK /\ TypeOK' /\ v \in Nat /\ now' = now /\ shown' = shown
      /\ initialized /\ initialized'
  BY SetType DEF NoticeInv, SetOutflowParam
<1>2. \A d \in DOMAIN shown : \A j \in Knobs : shown[d][j] \in Nat
  BY <1>1 DEF TypeOK
<1>3. \A d \in DOMAIN shown : d \in Nat /\ d < now /\ now \in Nat
  <2>1. \A d \in DOMAIN shown : d \in Days
    BY <1>1 DEF TypeOK
  <2>. QED  BY <1>1, <2>1, BoundAssumption, SMT DEF NoticeInv, ShownLately, TypeOK, Days
<1>4. \A j \in Knobs : Effective[j] \in Nat
  BY <1>1, EffectiveType
<1>5. ASSUME NEW j \in Knobs, j # k
      PROVE  /\ Effective'[j] = Effective[j]
             /\ pending'[j].at > 0 => pending'[j] = pending[j] /\ active'[j] = active[j]
  <2>1. active'[j] = Effective[j] /\ pending'[j] = StillPending[j]
    BY <1>1, <1>5, EffectiveType DEF SetOutflowParam
  <2>2. CASE Due(j)
    <3>1. pending'[j] = NoPending
      BY <2>1, <2>2 DEF StillPending
    <3>2. ~(NoPending.at > 0)
      BY SMT DEF NoPending
    <3>. QED  BY <2>1, <3>1, <3>2 DEF Due, Effective
  <2>3. CASE ~Due(j)
    <3>1. pending'[j] = pending[j] /\ active'[j] = active[j]
      BY <2>1, <2>3 DEF StillPending, Effective
    <3>2. ~Due(j)'
      BY <1>1, <2>3, <3>1 DEF Due
    <3>. QED  BY <2>1, <3>1, <3>2 DEF Effective
  <2>. QED  BY <2>2, <2>3
<1>6. CASE Looser(k, v, Effective[k])
  <2>1. active'[k] = Effective[k] /\ pending'[k] = [value |-> v, at |-> now + LimitActivationDelay]
    BY <1>1, <1>6, EffectiveType DEF SetOutflowParam
  <2>2. pending'[k].value = v /\ pending'[k].at = now + LimitActivationDelay
    BY <2>1
  <2>3. now \in Nat
    BY <1>1, EffectiveType
  <2>4. ~Due(k)'
    BY <1>1, <2>2, <2>3, DelayAssumption, SMT DEF Due
  <2>5. Effective'[k] = Effective[k]
    BY <2>1, <2>4 DEF Effective
  <2>6. \A d \in DOMAIN shown : ~(pending'[k].at <= d + LimitActivationDelay)
    BY <1>3, <2>2, DelayAssumption, SMT
  <2>7. PendingLoosens'
    <3>. SUFFICES ASSUME NEW j \in Knobs, pending'[j].at > 0
                  PROVE  Looser(j, pending'[j].value, active'[j])
      BY DEF PendingLoosens
    <3>. QED  BY <1>5, <1>6, <2>1, <2>2 DEF NoticeInv, PendingLoosens
  <2>8. InForceAsShown'
    <3>. SUFFICES ASSUME NEW d \in DOMAIN shown, NEW j \in Knobs
                  PROVE  ~Looser(j, Effective'[j], shown[d][j])
      BY <1>1 DEF InForceAsShown
    <3>. QED  BY <1>5, <2>5 DEF NoticeInv, InForceAsShown
  <2>9. PendingAsShown'
    <3>. SUFFICES ASSUME NEW j \in Knobs, pending'[j].at > 0, NEW d \in DOMAIN shown,
                         pending'[j].at <= d + LimitActivationDelay
                  PROVE  ~Looser(j, pending'[j].value, shown[d][j])
      BY <1>1 DEF PendingAsShown
    <3>. QED  BY <1>5, <2>6 DEF NoticeInv, PendingAsShown
  <2>. QED  BY <1>1, <2>7, <2>8, <2>9 DEF NoticeInv, ShownLately, NothingBeforeInit
<1>7. CASE ~Looser(k, v, Effective[k])
  <2>1. active'[k] = v /\ pending'[k] = NoPending
    BY <1>1, <1>7, EffectiveType DEF SetOutflowParam
  <2>2. ~(pending'[k].at > 0)
    BY <2>1, SMT DEF NoPending
  <2>3. Effective'[k] = v
    BY <2>1, <2>2 DEF Effective, Due
  <2>4. PendingLoosens'
    <3>. SUFFICES ASSUME NEW j \in Knobs, pending'[j].at > 0
                  PROVE  Looser(j, pending'[j].value, active'[j])
      BY DEF PendingLoosens
    <3>. QED  BY <1>5, <2>2 DEF NoticeInv, PendingLoosens
  <2>5. InForceAsShown'
    <3>. SUFFICES ASSUME NEW d \in DOMAIN shown, NEW j \in Knobs
                  PROVE  ~Looser(j, Effective'[j], shown[d][j])
      BY <1>1 DEF InForceAsShown
    <3>1. ~Looser(j, Effective[j], shown[d][j])
      BY DEF NoticeInv, InForceAsShown
    <3>2. CASE j = k
      BY <1>1, <1>2, <1>4, <1>7, <2>3, <3>1, <3>2, SMT DEF Looser
    <3>. QED  BY <1>5, <3>1, <3>2
  <2>6. PendingAsShown'
    <3>. SUFFICES ASSUME NEW j \in Knobs, pending'[j].at > 0, NEW d \in DOMAIN shown,
                         pending'[j].at <= d + LimitActivationDelay
                  PROVE  ~Looser(j, pending'[j].value, shown[d][j])
      BY <1>1 DEF PendingAsShown
    <3>. QED  BY <1>5, <2>2 DEF NoticeInv, PendingAsShown
  <2>. QED  BY <1>1, <2>4, <2>5, <2>6 DEF NoticeInv, ShownLately, NothingBeforeInit
<1>. QED  BY <1>6, <1>7

(***************************************************************************)
(* Overnight a loosening comes into force that everybody who is still      *)
(* remembered was shown.                                                   *)
(***************************************************************************)
LEMMA TickKeepsNotice ==
    ASSUME NoticeInv, Tick
    PROVE  NoticeInv'
<1>1. /\ TypeOK /\ TypeOK' /\ now' = now + 1
      /\ active' = active /\ pending' = pending /\ initialized' = initialized
      /\ shown' = [d \in Remembered |-> IF d = now THEN Shown ELSE shown[d]]
  BY TickType DEF NoticeInv, Tick, limitVars
<1>2. now \in Nat /\ LimitActivationDelay \in Nat \ {0}
  BY <1>1, EffectiveType, DelayAssumption
<1>3. ASSUME NEW k \in Knobs
      PROVE  /\ pending[k].value \in Nat /\ pending[k].at \in Nat /\ active[k] \in Nat
             /\ pending[k].at <= now + LimitActivationDelay
             /\ Due(k)' <=> pending[k].at > 0 /\ now + 1 >= pending[k].at
             /\ Effective'[k] = IF Due(k)' THEN pending[k].value ELSE active[k]
  BY <1>1, EffectiveType DEF Effective, Due
<1>4. ASSUME NEW d \in Remembered
      PROVE  /\ d \in Nat /\ d <= now /\ now + 1 <= d + LimitActivationDelay
             /\ d = now => initialized
             /\ d # now => d \in DOMAIN shown
  <2>1. d \in AtLeast(now + 1 - LimitActivationDelay, 0)..now
    BY DEF Remembered
  <2>2. d \in Nat /\ d <= now /\ now + 1 <= d + LimitActivationDelay
    BY <1>2, <2>1, SMT DEF AtLeast
  <2>. QED  BY <2>2 DEF Remembered
<1>5. DOMAIN shown' = Remembered
  BY <1>1
<1>6. ASSUME NEW d \in Remembered, NEW k \in Knobs
      PROVE  shown'[d][k] = IF d = now THEN Shown[k] ELSE shown[d][k]
  BY <1>1
<1>7. ShownLately'
  <2>. SUFFICES ASSUME NEW d \in Remembered
                PROVE  d < now' /\ now' <= d + LimitActivationDelay
    BY <1>5 DEF ShownLately
  <2>. QED  BY <1>1, <1>2, <1>4, SMT
<1>8. NothingBeforeInit'
  <2>. SUFFICES ASSUME ~initialized PROVE Remembered = {}
    BY <1>1, <1>5 DEF NoticeInv, NothingBeforeInit
  <2>1. DOMAIN shown = {}
    BY DEF NoticeInv, NothingBeforeInit
  <2>. QED  BY <1>4, <2>1
<1>9. PendingLoosens'
  BY <1>1 DEF NoticeInv, PendingLoosens
<1>10. ASSUME NEW k \in Knobs
       PROVE  /\ Shown[k] = IF pending[k].at > 0 THEN pending[k].value ELSE active[k]
              /\ pending[k].at > 0 => Looser(k, pending[k].value, active[k])
  BY DEF Shown, NoticeInv, PendingLoosens
<1>11. ASSUME NEW d \in Remembered, NEW k \in Knobs, d # now
       PROVE  shown[d][k] \in Nat
  <2>1. d \in DOMAIN shown
    BY <1>4, <1>11
  <2>. QED  BY <1>1, <2>1 DEF TypeOK
<1>12. PendingAsShown'
  <2>. SUFFICES ASSUME NEW k \in Knobs, pending[k].at > 0, NEW d \in Remembered,
                       pending[k].at <= d + LimitActivationDelay
                PROVE  ~Looser(k, pending[k].value, shown'[d][k])
    BY <1>1, <1>5 DEF PendingAsShown
  <2>1. CASE d = now
    <3>1. shown'[d][k] = pending[k].value
      BY <1>6, <1>10, <2>1
    <3>. QED  BY <1>3, <3>1, SMT DEF Looser
  <2>2. CASE d # now
    BY <1>4, <1>6, <2>2 DEF NoticeInv, PendingAsShown
  <2>. QED  BY <2>1, <2>2
<1>13. InForceAsShown'
  <2>. SUFFICES ASSUME NEW d \in Remembered, NEW k \in Knobs
                PROVE  ~Looser(k, Effective'[k], shown'[d][k])
    BY <1>5 DEF InForceAsShown
  <2>1. CASE Due(k)'
    <3>1. pending[k].at > 0 /\ pending[k].at <= d + LimitActivationDelay
      BY <1>2, <1>3, <1>4, <2>1, SMT
    <3>. QED  BY <1>1, <1>3, <1>5, <1>12, <2>1, <3>1 DEF PendingAsShown
  <2>2. CASE ~Due(k)' /\ d = now
    <3>1. Effective'[k] = active[k] /\ shown'[d][k] = Shown[k]
      BY <1>3, <1>6, <2>2
    <3>. QED  BY <1>3, <1>10, <3>1, SMT DEF Looser
  <2>3. CASE ~Due(k)' /\ d # now
    <3>1. ~Due(k)
      BY <1>2, <1>3, <2>3, SMT DEF Due
    <3>2. Effective'[k] = Effective[k] /\ shown'[d][k] = shown[d][k]
      BY <1>3, <1>6, <2>3, <3>1 DEF Effective
    <3>. QED  BY <1>4, <2>3, <3>2 DEF NoticeInv, InForceAsShown
  <2>. QED  BY <2>1, <2>2, <2>3
<1>. QED  BY <1>1, <1>7, <1>8, <1>9, <1>12, <1>13 DEF NoticeInv

\* Every step keeps what the settings shown promise.
LEMMA NoticeInductive ==
    ASSUME NoticeInv, [Next]_vars, TypeOK'
    PROVE  NoticeInv'
<1>1. CASE InitOutflowConfig
  <2>1. /\ now' = now /\ pending' = pending /\ shown' = shown /\ ~initialized /\ initialized'
    BY <1>1 DEF InitOutflowConfig
  <2>2. DOMAIN shown = {} /\ \A k \in Knobs : pending[k].at = 0
    BY <2>1 DEF NoticeInv, NothingBeforeInit
  <2>3. \A k \in Knobs : ~(pending'[k].at > 0)
    BY <2>1, <2>2, SMT
  <2>. QED
    BY <2>1, <2>2, <2>3 DEF NoticeInv, ShownLately, NothingBeforeInit, PendingLoosens,
                            InForceAsShown, PendingAsShown
<1>2. ASSUME NEW k \in Knobs, NEW v \in InputsOf(k), SetOutflowParam(k, v) PROVE NoticeInv'
  BY <1>2, SetKeepsNotice
<1>3. ASSUME NEW a \in Amounts, Distribute(a) \/ StewardSpend(a) PROVE NoticeInv'
  BY <1>3, NoticeKept DEF Distribute, StewardSpend, CheckAndRecordOutflow
<1>4. ASSUME NEW b \in Budgets, AddStewardBudget(b) \/ UpdateStewardBudget(b) PROVE NoticeInv'
  BY <1>4, NoticeKept DEF AddStewardBudget, UpdateStewardBudget, limitVars
<1>5. CASE RemoveStewardBudget \/ SetWindDownContract
  BY <1>5, NoticeKept DEF RemoveStewardBudget, SetWindDownContract, limitVars
<1>6. CASE ActivatePending
  BY <1>6, NoticeKept DEF ActivatePending
<1>7. CASE TransferTo
  BY <1>7, NoticeKept DEF TransferTo, limitVars
<1>8. ASSUME NEW a \in Amounts, Receive(a) PROVE NoticeInv'
  BY <1>8, NoticeKept DEF Receive, limitVars
<1>9. CASE Tick
  BY <1>9, TickKeepsNotice
<1>10. CASE UNCHANGED vars
  BY <1>10, NoticeKept DEF vars
<1>. QED
  BY <1>1, <1>2, <1>3, <1>4, <1>5, <1>6, <1>7, <1>8, <1>9, <1>10 DEF Next, Governance

\* Hence they keep it in every reachable state.
LEMMA NoticeInvariant == Spec => []NoticeInv
<1>1. Init => NoticeInv
  <2>. SUFFICES ASSUME Init, TypeOK PROVE NoticeInv
    BY TypeInit
  <2>1. \A k \in Knobs : pending[k].at = 0 /\ ~(pending[k].at > 0)
    BY SMT DEF Init, NoPending
  <2>2. DOMAIN shown = {}
    BY DEF Init
  <2>. QED
    BY <2>1, <2>2 DEF NoticeInv, ShownLately, NothingBeforeInit, PendingLoosens,
                      InForceAsShown, PendingAsShown
<1>2. NoticeInv /\ TypeOK' /\ [Next]_vars => NoticeInv'
  BY NoticeInductive
<1>. QED  BY <1>1, <1>2, TypeCorrect, PTL DEF Spec

(***************************************************************************)
(* A payment of a limited amount stays within what everybody was shown.    *)
(***************************************************************************)
LEMMA PaymentAsShown ==
    ASSUME NoticeInv, NEW a \in Nat, CheckAndRecordOutflow(a), NEW d \in DOMAIN shown
    PROVE  RecentSum(spentAt', shown[d]["window"]) <= EffectiveLimit(shown[d], balance)
<1>1. /\ TypeOK /\ now \in Days /\ balance \in Nat /\ spentAt \in [Days -> Nat]
      /\ Effective \in [Knobs -> Nat] /\ shown[d] \in [Knobs -> Nat]
  BY EffectiveType DEF NoticeInv, TypeOK
<1>2. /\ Effective["window"] \in Nat /\ shown[d]["window"] \in Nat
      /\ Effective["bps"] \in Nat /\ shown[d]["bps"] \in Nat
      /\ Effective["absolute"] \in Nat /\ shown[d]["absolute"] \in Nat
      /\ "window" \in Knobs /\ "bps" \in Knobs /\ "absolute" \in Knobs
  BY <1>1 DEF Knobs
<1>3. /\ ~Looser("window", Effective["window"], shown[d]["window"])
      /\ ~Looser("bps", Effective["bps"], shown[d]["bps"])
      /\ ~Looser("absolute", Effective["absolute"], shown[d]["absolute"])
  BY <1>2 DEF NoticeInv, InForceAsShown
<1>4. /\ shown[d]["window"] <= Effective["window"]
      /\ Effective["bps"] <= shown[d]["bps"]
      /\ Effective["absolute"] <= shown[d]["absolute"]
  BY <1>2, <1>3, SMT DEF Looser
<1>5. EffectiveLimit(Effective, balance) <= EffectiveLimit(shown[d], balance)
  BY <1>1, <1>4, LimitMonotone
<1>6. spentAt' = [spentAt EXCEPT ![now] = @ + a]
  BY DEF CheckAndRecordOutflow
<1>7. RecentSum(spentAt, Effective["window"]) + a <= EffectiveLimit(Effective, balance)
  BY DEF CheckAndRecordOutflow
<1>8. spentAt' \in [Days -> Nat]
  BY <1>1, PaymentType
<1>9. RecentSum(spentAt', Effective["window"]) = RecentSum(spentAt, Effective["window"]) + a
  <2>1. \A w \in Nat : SumOver([spentAt EXCEPT ![now] = @ + a], AtLeast(now - w, 0)..now)
                         = SumOver(spentAt, AtLeast(now - w, 0)..now) + a
    <3>1. spentAt \in [Days -> Nat] /\ now \in Days
      BY <1>1
    <3>. QED  BY <3>1, PaidToday
  <2>2. \A w \in Nat : RecentSum(spentAt', w) = RecentSum(spentAt, w) + a
    BY <1>6, <2>1 DEF RecentSum
  <2>3. Effective["window"] \in Nat
    BY <1>2
  <2>. QED  BY <2>2, <2>3, Zenon
<1>10. RecentSum(spentAt', shown[d]["window"]) <= RecentSum(spentAt', Effective["window"])
  BY <1>1, <1>2, <1>4, <1>8, ShorterWindow DEF RecentSum
<1>11. /\ RecentSum(spentAt', shown[d]["window"]) \in Nat
       /\ RecentSum(spentAt', Effective["window"]) \in Nat
  BY <1>1, <1>2, <1>8, WindowSumType DEF RecentSum
<1>12. EffectiveLimit(Effective, balance) \in Nat /\ EffectiveLimit(shown[d], balance) \in Nat
  BY <1>1, LimitType
<1>. QED  BY <1>5, <1>7, <1>9, <1>10, <1>11, <1>12, SMT

(***************************************************************************)
(* Who read the settings at the end of a day cannot be surprised by a      *)
(* payment within LIMIT_ACTIVATION_DELAY, whatever governance does.        *)
(***************************************************************************)
THEOREM NobodyIsSurprised == Spec => Notice
<1>1. NoticeInv /\ [Next]_vars =>
        [\A d \in DOMAIN shown :
            spentAt' # spentAt =>
               RecentSum(spentAt', shown[d]["window"]) <= EffectiveLimit(shown[d], balance)]_vars
  <2>. SUFFICES ASSUME NoticeInv, [Next]_vars, NEW d \in DOMAIN shown, spentAt' # spentAt
                PROVE  RecentSum(spentAt', shown[d]["window"]) <= EffectiveLimit(shown[d], balance)
    OBVIOUS
  <2>1. \E a \in Amounts : Distribute(a) \/ StewardSpend(a)
    BY DEF Next, Governance, InitOutflowConfig, SetOutflowParam, AddStewardBudget,
           UpdateStewardBudget, RemoveStewardBudget, SetWindDownContract, ActivatePending,
           TransferTo, Receive, Tick, limitVars, vars
  <2>2. PICK a \in Amounts : CheckAndRecordOutflow(a)
    BY <2>1 DEF Distribute, StewardSpend
  <2>. QED  BY <2>2, PaymentAsShown, InputAssumption
<1>. QED  BY <1>1, NoticeInvariant, PTL DEF Spec, Notice

-----------------------------------------------------------------------------
(* The steward *)

\* A step that pays the steward nothing keeps its bound.
LEMMA StewardKept ==
    ASSUME StewardInv, now' = now, UNCHANGED <<stewardSpentAt, stewardPaid>>,
           authorized' => budget' \in Budgets /\ budget'.window >= MinWindow
    PROVE  StewardInv'
  BY DEF StewardInv, StewardStaysBounded, RecentSum

(***************************************************************************)
(* Whatever budget it acts under, a steward's spend counts all it spent in *)
(* the shortest window, and is held to at most the largest limit.          *)
(***************************************************************************)
LEMMA SpendKeepsBounded ==
    ASSUME TypeOK, StewardInv, NEW a \in Amounts, StewardSpend(a)
    PROVE  StewardInv'
<1>1. /\ now' = now /\ a \in Nat /\ now \in Days
      /\ stewardPaid = stewardSpentAt /\ stewardSpentAt \in [Days -> Nat]
      /\ stewardPaid' = [stewardPaid EXCEPT ![now] = @ + a] /\ stewardPaid' = stewardSpentAt'
      /\ budget' = budget /\ authorized' = authorized
      /\ budget \in Budgets /\ budget.window >= MinWindow
      /\ RecentSum(stewardSpentAt, budget.window) + a <= budget.limit
  BY InputAssumption DEF StewardInv, StewardSpend, CheckAndRecordOutflow, TypeOK
<1>2. \A b \in Budgets : b.limit \in Nat /\ b.window \in Nat
  BY InputAssumption
<1>3. stewardPaid' \in [Days -> Nat]
  <2>1. stewardPaid[now] + a \in Nat
    BY <1>1, SMT
  <2>. QED  BY <1>1, <2>1
<1>4. \A d \in Days : d > now' => stewardPaid'[d] = 0
  <2>. SUFFICES ASSUME NEW d \in Days, d > now PROVE stewardPaid'[d] = 0
    BY <1>1
  <2>1. d # now
    BY BoundAssumption, SMT DEF TypeOK, Days
  <2>. QED  BY <1>1, <2>1 DEF StewardInv
<1>5. ASSUME NEW b \in Budgets, NEW c \in Budgets, Extreme(b, c)
      PROVE  RecentSum(stewardPaid', c.window) <= b.limit
  <2>1. budget.limit <= b.limit /\ c.window <= budget.window
    <3>1. budget \in Budgets /\ budget.window >= MinWindow
      BY <1>1
    <3>2. budget.window >= c.window /\ budget.limit <= b.limit
      <4>1. \A d \in Budgets : d.limit <= b.limit
        BY <1>5 DEF Extreme
      <4>2. \A d \in Budgets : d.window >= MinWindow => d.window >= c.window
        BY <1>5 DEF Extreme
      <4>. QED  BY <3>1, <4>1, <4>2
    <3>. QED  BY <1>2, <3>1, <3>2, SMT
  <2>2. \A w \in Nat : RecentSum(stewardPaid', w) = RecentSum(stewardPaid, w) + a
    <3>1. \A w \in Nat : SumOver([stewardSpentAt EXCEPT ![now] = @ + a], AtLeast(now - w, 0)..now)
                           = SumOver(stewardSpentAt, AtLeast(now - w, 0)..now) + a
      <4>1. stewardSpentAt \in [Days -> Nat] /\ now \in Days /\ a \in Nat
        BY <1>1
      <4>. QED  BY <4>1, PaidToday
    <3>2. /\ stewardPaid = stewardSpentAt
          /\ stewardPaid' = [stewardSpentAt EXCEPT ![now] = @ + a] /\ now' = now
      BY <1>1
    <3>. QED  BY <3>1, <3>2 DEF RecentSum
  <2>3. RecentSum(stewardPaid', c.window) <= RecentSum(stewardPaid', budget.window)
    BY <1>1, <1>2, <1>3, <2>1, ShorterWindow DEF RecentSum
  <2>4. /\ RecentSum(stewardPaid', c.window) \in Nat
        /\ RecentSum(stewardPaid', budget.window) \in Nat
    BY <1>1, <1>2, <1>3, WindowSumType DEF RecentSum
  <2>5. RecentSum(stewardPaid', budget.window) <= budget.limit
    BY <1>1, <1>2, <2>2
  <2>. QED  BY <1>1, <1>2, <2>1, <2>3, <2>4, <2>5, SMT
<1>6. StewardStaysBounded'
  BY <1>1, <1>5 DEF StewardStaysBounded, RecentSum
<1>. QED  BY <1>1, <1>4, <1>6 DEF StewardInv

\* A new day takes a day's spending out of the steward's window at most.
LEMMA TickKeepsBounded ==
    ASSUME TypeOK, StewardInv, Tick
    PROVE  StewardInv'
<1>1. /\ now' = now + 1 /\ now \in Days /\ now' \in Days
      /\ UNCHANGED <<budget, authorized, stewardSpentAt, stewardPaid>>
      /\ stewardPaid \in [Days -> Nat]
  BY TickType DEF TypeOK, Tick, stewardVars
<1>2. \A d \in Days : d > now' => stewardPaid'[d] = 0
  <2>. SUFFICES ASSUME NEW d \in Days, d > now + 1 PROVE stewardPaid[d] = 0
    BY <1>1
  <2>1. d > now
    BY <1>1, BoundAssumption, SMT DEF Days
  <2>. QED  BY <2>1 DEF StewardInv
<1>3. stewardPaid[now'] = 0
  <2>1. now' > now
    BY <1>1, BoundAssumption, SMT DEF Days
  <2>. QED  BY <1>1, <2>1 DEF StewardInv
<1>4. \A b \in Budgets : b.limit \in Nat /\ b.window \in Nat
  BY InputAssumption
<1>5. ASSUME NEW b \in Budgets, NEW c \in Budgets, Extreme(b, c)
      PROVE  SumOver(stewardPaid, AtLeast(now' - c.window, 0)..now') <= b.limit
  <2>1. RecentSum(stewardPaid, c.window) <= b.limit
    BY <1>5 DEF StewardInv, StewardStaysBounded
  <2>2. SumOver(stewardPaid, AtLeast(now' - c.window, 0)..now')
           <= SumOver(stewardPaid, AtLeast(now - c.window, 0)..now)
    BY <1>1, <1>3, <1>4, Overnight
  <2>3. /\ SumOver(stewardPaid, AtLeast(now' - c.window, 0)..now') \in Nat
        /\ SumOver(stewardPaid, AtLeast(now - c.window, 0)..now) \in Nat
    BY <1>1, <1>4, WindowSumType
  <2>. QED  BY <1>4, <2>1, <2>2, <2>3, SMT DEF RecentSum
<1>6. StewardStaysBounded'
  BY <1>1, <1>5 DEF StewardStaysBounded, RecentSum
<1>. QED  BY <1>1, <1>2, <1>6 DEF StewardInv

(***************************************************************************)
(* No sequence of grants, changes and removals of a budget lets the        *)
(* steward spend more, within the shortest window, than the largest limit. *)
(***************************************************************************)
THEOREM StewardBounded == Spec => []StewardStaysBounded
<1>1. Init => StewardInv
  <2>. SUFFICES ASSUME Init PROVE StewardInv
    OBVIOUS
  <2>1. \A b \in Budgets : b.limit \in Nat /\ b.window \in Nat
    BY InputAssumption
  <2>2. 0 \in Days /\ [d \in Days |-> 0] \in [Days -> Nat]
    BY BoundAssumption, SMT DEF Days
  <2>3. ASSUME NEW w \in Nat
        PROVE  SumOver([d \in Days |-> 0], AtLeast(0 - w, 0)..0) = 0
    <3>1. AtLeast(0 - w, 0)..0 = {0}
      BY SMT DEF AtLeast
    <3>2. SumOver([d \in Days |-> 0], {0}) = [d \in Days |-> 0][0]
      BY <2>2, SumOfOne
    <3>. QED  BY <2>2, <3>1, <3>2
  <2>4. StewardStaysBounded
    <3>. SUFFICES ASSUME NEW b \in Budgets, NEW c \in Budgets
                  PROVE  RecentSum(stewardPaid, c.window) <= b.limit
      BY DEF StewardStaysBounded
    <3>1. RecentSum(stewardPaid, c.window) = 0
      BY <2>1, <2>3 DEF Init, RecentSum
    <3>. QED  BY <2>1, <3>1, SMT
  <2>. QED  BY <2>4 DEF Init, StewardInv
<1>2. TypeOK /\ StewardInv /\ [Next]_vars => StewardInv'
  <2>. SUFFICES ASSUME TypeOK, StewardInv, [Next]_vars PROVE StewardInv'
    OBVIOUS
  <2>0. authorized => budget \in Budgets /\ budget.window >= MinWindow
    BY DEF StewardInv
  <2>1. CASE InitOutflowConfig
    BY <2>0, <2>1, StewardKept DEF InitOutflowConfig, stewardVars
  <2>2. ASSUME NEW k \in Knobs, NEW v \in InputsOf(k), SetOutflowParam(k, v) PROVE StewardInv'
    BY <2>0, <2>2, StewardKept DEF SetOutflowParam, stewardVars
  <2>3. ASSUME NEW a \in Amounts, Distribute(a) PROVE StewardInv'
    BY <2>0, <2>3, StewardKept DEF Distribute, CheckAndRecordOutflow, stewardVars
  <2>4. ASSUME NEW a \in Amounts, StewardSpend(a) PROVE StewardInv'
    BY <2>4, SpendKeepsBounded
  <2>5. ASSUME NEW b \in Budgets, AddStewardBudget(b) \/ UpdateStewardBudget(b) PROVE StewardInv'
    BY <2>0, <2>5, StewardKept DEF AddStewardBudget, UpdateStewardBudget
  <2>6. CASE RemoveStewardBudget
    BY <2>0, <2>6, StewardKept DEF RemoveStewardBudget
  <2>7. CASE SetWindDownContract \/ ActivatePending \/ TransferTo
    BY <2>0, <2>7, StewardKept DEF SetWindDownContract, ActivatePending, TransferTo, stewardVars
  <2>8. ASSUME NEW a \in Amounts, Receive(a) PROVE StewardInv'
    BY <2>0, <2>8, StewardKept DEF Receive, stewardVars
  <2>9. CASE Tick
    BY <2>9, TickKeepsBounded
  <2>10. CASE UNCHANGED vars
    BY <2>0, <2>10, StewardKept DEF vars
  <2>. QED
    BY <2>1, <2>2, <2>3, <2>4, <2>5, <2>6, <2>7, <2>8, <2>9, <2>10 DEF Next, Governance
<1>3. StewardInv => StewardStaysBounded
  BY DEF StewardInv
<1>. QED  BY <1>1, <1>2, <1>3, TypeCorrect, PTL DEF Spec

-----------------------------------------------------------------------------
(* Refinement of OutflowLimits *)

\* The images of the two modules' variables agree where nothing but the records change.
LimitsFrame == UNCHANGED <<Effective, StillPending>>

\* The abstract window is the sum over the days of the concrete one.
LEMMA SameSums ==
    ASSUME NEW f, NEW w, NEW t
    PROVE  Limits!RecentSum(f, w, t) = SumOver(f, AtLeast(t - w, 0)..t)
<1>1. Limits!Units(f, AtLeast(t - w, 0)..t) = Units(f, AtLeast(t - w, 0)..t)
  BY DEF Limits!Units, Units
<1>2. Limits!AtLeast(t - w, 0) = AtLeast(t - w, 0)
  BY DEF Limits!AtLeast, AtLeast
<1>3. \A S : Limits!Cardinality(S) = Cardinality(S)
  BY DEF Limits!Cardinality, Cardinality
<1>. QED  BY <1>1, <1>2, <1>3 DEF Limits!RecentSum, Limits!SumOver, SumOver

\* What touches no setting and no clock changes nothing of the abstract settings.
LEMMA FrameOfDay ==
    ASSUME UNCHANGED <<active, pending, now>>
    PROVE  LimitsFrame
  BY DEF LimitsFrame, Effective, StillPending, Due

\* Nor does activating a change that is due.
LEMMA FrameOfActivation ==
    ASSUME TypeOK, LazyActivate, now' = now
    PROVE  LimitsFrame
  BY LazyIsInvisible DEF LimitsFrame

(***************************************************************************)
(* A setting tightened is tightened in force, one loosened is scheduled    *)
(* and not in force, and the other two stay as they are.                   *)
(***************************************************************************)
LEMMA SetRefines ==
    ASSUME TypeOK, NEW k \in Knobs, NEW v \in InputsOf(k), SetOutflowParam(k, v)
    PROVE  Limits!Next
<1>1. /\ initialized /\ now' = now
      /\ UNCHANGED <<now, balance, initialized, spentAt>>
      /\ Effective \in [Knobs -> Nat] /\ now \in Nat
      /\ LimitActivationDelay \in Nat \ {0}
      /\ StillPending \in [Knobs -> PendingType]
  BY EffectiveType, DelayAssumption DEF SetOutflowParam
<1>2. ~(NoPending.at > 0)
  BY SMT DEF NoPending
<1>3. ASSUME NEW j \in Knobs
      PROVE  ~(StillPending[j].at > 0 /\ now >= StillPending[j].at)
  BY <1>2 DEF StillPending, Due
<1>4. k \in Limits!Knobs
  BY DEF Knobs, Limits!Knobs
<1>5. CASE Looser(k, v, Effective[k])
  <2>. DEFINE q == [value |-> v, at |-> now + LimitActivationDelay]
  <2>1. active' = Effective /\ pending' = [StillPending EXCEPT ![k] = q]
    BY <1>5 DEF SetOutflowParam
  <2>2. ~(q.at > 0 /\ now >= q.at)
    BY <1>1, SMT
  <2>3. ASSUME NEW j \in Knobs PROVE ~Due(j)'
    <3>1. pending'[j] = IF j = k THEN q ELSE StillPending[j]
      BY <1>1, <2>1
    <3>. HIDE DEF q
    <3>. QED  BY <1>1, <1>3, <2>2, <3>1 DEF Due
  <2>4. Effective' = active'
    BY <1>1, <2>1, <2>3 DEF Effective
  <2>5. StillPending' = pending'
    <3>1. pending' = [j \in Knobs |-> pending'[j]]
      BY <1>1, <2>1
    <3>. QED  BY <2>3, <3>1 DEF StillPending
  <2>6. /\ Effective' = Effective
        /\ StillPending' = [StillPending EXCEPT ![k] = q]
    BY <2>1, <2>4, <2>5
  <2>7. StillPending'[k] = q
    BY <1>1, <2>6
  <2>8. StillPending'[k].value = v
    BY <2>7
  <2>9. Limits!Looser(k, StillPending'[k].value, Effective[k])
    BY <1>5, <2>8 DEF Looser, Limits!Looser
  <2>10. StillPending' = [StillPending EXCEPT
                            ![k] = [value |-> StillPending'[k].value, at |-> now + LimitActivationDelay]]
    BY <2>6, <2>8
  <2>11. Limits!Loosen(k)
    BY <1>1, <2>6, <2>9, <2>10 DEF Limits!Loosen
  <2>. QED  BY <1>1, <1>4, <2>11 DEF Limits!Next
<1>6. CASE ~Looser(k, v, Effective[k])
  <2>1. active' = [Effective EXCEPT ![k] = v] /\ pending' = [StillPending EXCEPT ![k] = NoPending]
    BY <1>6 DEF SetOutflowParam
  <2>2. ASSUME NEW j \in Knobs PROVE ~Due(j)'
    <3>1. pending'[j] = IF j = k THEN NoPending ELSE StillPending[j]
      BY <1>1, <2>1
    <3>. QED  BY <1>1, <1>2, <1>3, <3>1 DEF Due
  <2>3. Effective' = active'
    BY <1>1, <2>1, <2>2 DEF Effective
  <2>4. StillPending' = pending'
    <3>1. pending' = [j \in Knobs |-> pending'[j]]
      BY <1>1, <2>1
    <3>. QED  BY <2>2, <3>1 DEF StillPending
  <2>5. Effective'[k] = v
    BY <1>1, <2>1, <2>3
  <2>6. ~Limits!Looser(k, Effective'[k], Effective[k])
    BY <1>6, <2>5 DEF Looser, Limits!Looser
  <2>7. /\ Effective' = [Effective EXCEPT ![k] = Effective'[k]]
        /\ StillPending' = [StillPending EXCEPT ![k] = Limits!NoChange]
    BY <2>1, <2>3, <2>4, <2>5 DEF NoPending, Limits!NoChange
  <2>8. Limits!Tighten(k)
    BY <1>1, <2>6, <2>7 DEF Limits!Tighten
  <2>. QED  BY <1>1, <1>4, <2>8 DEF Limits!Next
<1>. QED  BY <1>5, <1>6

\* A payment is a payment of the abstract limits.
LEMMA PaymentRefines ==
    ASSUME TypeOK, NEW a \in Nat, a > 0, CheckAndRecordOutflow(a)
    PROVE  Limits!Next
<1>1. /\ initialized /\ now' = now /\ initialized' = initialized
      /\ LazyActivate /\ balance \in Nat /\ a <= balance /\ balance' = balance - a
      /\ spentAt' = [spentAt EXCEPT ![now] = @ + a]
      /\ RecentSum(spentAt, Effective["window"]) + a <= EffectiveLimit(Effective, balance)
  BY DEF CheckAndRecordOutflow, TypeOK
<1>2. UNCHANGED <<Effective, StillPending>>
  BY <1>1, FrameOfActivation DEF LimitsFrame
<1>3. Limits!RecentSum(spentAt, Effective["window"], now) + a <= Limits!LimitOf(Effective, balance)
  BY <1>1, SameSums
     DEF RecentSum, EffectiveLimit, Limits!LimitOf, Limits!AtLeast, AtLeast
<1>4. a \in 1..balance
  BY <1>1, SMT
<1>5. Limits!Pay
  BY <1>1, <1>2, <1>3, <1>4 DEF Limits!Pay
<1>. QED  BY <1>5 DEF Limits!Next

(***************************************************************************)
(* A new day activates, in the image, what is due on it.                   *)
(***************************************************************************)
LEMMA TickRefines ==
    ASSUME TypeOK, Tick
    PROVE  Limits!Next
<1>1. /\ now' = now + 1 /\ now \in Nat
      /\ UNCHANGED <<balance, initialized, active, pending, spentAt>>
  BY EffectiveType DEF Tick, limitVars
<1>2. ~(NoPending.at > 0)
  BY SMT DEF NoPending
<1>3. ASSUME NEW k \in Knobs
      PROVE  /\ Effective'[k] = IF Limits!Due(k) THEN StillPending[k].value ELSE Effective[k]
             /\ StillPending'[k] = IF Limits!Due(k) THEN Limits!NoChange ELSE StillPending[k]
  <2>1. /\ Limits!Due(k) <=> StillPending[k].at > 0 /\ now' >= StillPending[k].at
        /\ Due(k)' <=> pending[k].at > 0 /\ now' >= pending[k].at
        /\ Effective'[k] = IF Due(k)' THEN pending[k].value ELSE active[k]
        /\ StillPending'[k] = IF Due(k)' THEN NoPending ELSE pending[k]
        /\ Effective[k] = IF Due(k) THEN pending[k].value ELSE active[k]
        /\ StillPending[k] = IF Due(k) THEN NoPending ELSE pending[k]
        /\ NoPending = Limits!NoChange
    BY <1>1 DEF Limits!Due, Due, Effective, StillPending, NoPending, Limits!NoChange
  <2>2. CASE Due(k)
    <3>1. Due(k)'
      <4>1. pending[k].at \in Nat
        BY EffectiveType
      <4>. QED  BY <1>1, <2>1, <2>2, <4>1, SMT DEF Due
    <3>. QED  BY <1>2, <2>1, <2>2, <3>1
  <2>3. CASE ~Due(k)
    BY <2>1, <2>3
  <2>. QED  BY <2>2, <2>3
<1>4. Limits!Knobs = Knobs
  BY DEF Knobs, Limits!Knobs
<1>5. /\ Effective' = [k \in Knobs |-> Effective'[k]]
      /\ StillPending' = [k \in Knobs |-> StillPending'[k]]
  BY DEF Effective, StillPending
<1>6. Limits!NewDay
  BY <1>1, <1>3, <1>4, <1>5 DEF Limits!NewDay
<1>. QED  BY <1>6 DEF Limits!Next

(***************************************************************************)
(* The treasury, which activates lazily, cannot be told from limits that   *)
(* change by themselves on the day they are due.                           *)
(***************************************************************************)
THEOREM LazinessIsInvisible == Spec => ImplementsOutflowLimits
<1>1. Init => Limits!Init
  <2>. SUFFICES ASSUME Init PROVE Limits!Init
    OBVIOUS
  <2>1. ~(NoPending.at > 0) /\ NoPending = Limits!NoChange
    BY SMT DEF NoPending, Limits!NoChange
  <2>2. StillPending = [k \in Limits!Knobs |-> Limits!NoChange]
    BY <2>1 DEF Init, StillPending, Due, Knobs, Limits!Knobs
  <2>3. balance \in Nat
    BY BoundAssumption DEF Init
  <2>4. spentAt = [d \in DOMAIN spentAt |-> 0]
    BY DEF Init
  <2>. QED  BY <2>2, <2>3, <2>4 DEF Init, Limits!Init
<1>2. TypeOK /\ TypeOK' /\ [Next]_vars => [Limits!Next]_Limits!vars
  <2>. SUFFICES ASSUME TypeOK, TypeOK', [Next]_vars PROVE [Limits!Next]_Limits!vars
    OBVIOUS
  <2>0. balance' \in Nat /\ Effective' \in [Knobs -> Nat]
    <3>1. balance' \in Nat
      BY DEF TypeOK
    <3>2. ASSUME NEW k \in Knobs PROVE pending'[k].value \in Nat /\ active'[k] \in Nat
      BY DEF TypeOK
    <3>3. Effective' \in [Knobs -> Nat]
      BY <3>2 DEF Effective
    <3>. QED  BY <3>1, <3>3
  <2>1. CASE InitOutflowConfig
    <3>1. /\ ~initialized /\ initialized'
          /\ UNCHANGED <<now, balance, pending, spentAt>>
      BY <2>1 DEF InitOutflowConfig
    <3>2. StillPending' = StillPending
      BY <3>1 DEF StillPending, Due
    <3>3. Limits!Configure
      BY <2>0, <2>1, <3>1, <3>2 DEF InitOutflowConfig, Limits!Configure, Knobs, Limits!Knobs
    <3>. QED  BY <3>3 DEF Limits!Next
  <2>2. ASSUME NEW k \in Knobs, NEW v \in InputsOf(k), SetOutflowParam(k, v) PROVE Limits!Next
    BY <2>2, SetRefines
  <2>3. ASSUME NEW a \in Amounts, Distribute(a) \/ StewardSpend(a) PROVE Limits!Next
    BY <2>3, PaymentRefines, InputAssumption DEF Distribute, StewardSpend
  <2>4. ASSUME NEW b \in Budgets, AddStewardBudget(b) \/ UpdateStewardBudget(b)
        PROVE  UNCHANGED Limits!vars
    BY <2>4, FrameOfDay
       DEF AddStewardBudget, UpdateStewardBudget, limitVars, LimitsFrame, Limits!vars
  <2>5. CASE RemoveStewardBudget \/ SetWindDownContract
    BY <2>5, FrameOfDay
       DEF RemoveStewardBudget, SetWindDownContract, limitVars, LimitsFrame, Limits!vars
  <2>6. CASE ActivatePending
    BY <2>6, FrameOfActivation DEF ActivatePending, LimitsFrame, Limits!vars
  <2>7. ASSUME TransferTo \/ \E a \in Amounts : Receive(a) PROVE Limits!Next
    <3>1. UNCHANGED <<now, initialized, active, pending, spentAt>>
      BY <2>7 DEF TransferTo, Receive, limitVars
    <3>2. Limits!Move
      BY <2>0, <3>1, FrameOfDay DEF LimitsFrame, Limits!Move
    <3>. QED  BY <3>2 DEF Limits!Next
  <2>8. CASE Tick
    BY <2>8, TickRefines
  <2>9. CASE UNCHANGED vars
    BY <2>9, FrameOfDay DEF vars, LimitsFrame, Limits!vars
  <2>. QED
    BY <2>1, <2>2, <2>3, <2>4, <2>5, <2>6, <2>7, <2>8, <2>9 DEF Next, Governance
<1>. QED  BY <1>1, <1>2, TypeCorrect, PTL DEF Spec, ImplementsOutflowLimits, Limits!Spec

-----------------------------------------------------------------------------
(***************************************************************************)
(* REVENUE, THE LOCK AND REDEMPTION                                        *)
(***************************************************************************)

(* The schedule of the lock *)

\* A milestone is reached by its revenue; the highest one reached counts.
LEMMA Schedule ==
    ASSUME NEW r \in Nat
    PROVE  /\ UnlockBps(r) \in 0..FullBps
           /\ \A m \in Milestones : m.revenue <= r => m.bps <= UnlockBps(r)
           /\ UnlockBps(r) # 0 => \E m \in Milestones : m.revenue <= r /\ m.bps = UnlockBps(r)
<1>. DEFINE reached == {m \in Milestones : r >= m.revenue}
            gaps == {FullBps - m.bps : m \in reached}
            best == CHOOSE m \in reached : \A n \in reached : n.bps <= m.bps
<1>1. \A m \in Milestones : m.revenue \in Nat /\ m.bps \in 0..FullBps
  BY LockAssumption
<1>2. FullBps \in Nat
  BY LockAssumption
<1>3. CASE reached = {}
  <2>1. UnlockBps(r) = 0
    BY <1>3 DEF UnlockBps
  <2>2. \A m \in Milestones : ~(m.revenue <= r)
    BY <1>1, <1>3, SMT
  <2>. QED  BY <1>2, <2>1, <2>2, SMT
<1>4. CASE reached # {}
  <2>1. gaps \in SUBSET Nat
    BY <1>1, <1>2, SMT
  <2>2. gaps # {}
    BY <1>4
  <2>3. PICK g \in gaps : \A h \in gaps : g <= h
    BY <2>1, <2>2, LeastElement
  <2>4. PICK m \in reached : g = FullBps - m.bps
    BY <2>3
  <2>5. ASSUME NEW n \in reached PROVE n.bps <= m.bps
    <3>1. g <= FullBps - n.bps
      BY <2>3
    <3>2. n.bps \in Nat /\ m.bps \in Nat
      BY <1>1
    <3>. QED  BY <1>2, <2>4, <3>1, <3>2, SMT
  <2>6. best \in reached /\ \A n \in reached : n.bps <= best.bps
    BY <2>5
  <2>7. UnlockBps(r) = best.bps
    BY <1>4 DEF UnlockBps
  <2>. HIDE DEF best
  <2>8. best \in Milestones /\ r >= best.revenue
    BY <2>6
  <2>9. best.revenue \in Nat /\ best.bps \in 0..FullBps
    BY <1>1, <2>8
  <2>10. \A n \in Milestones : n.revenue <= r => n \in reached
    BY <1>1, SMT
  <2>11. best.revenue <= r
    BY <2>8, <2>9, SMT
  <2>. QED  BY <2>6, <2>7, <2>8, <2>9, <2>10, <2>11
<1>. QED  BY <1>3, <1>4

\* More revenue never unlocks less.
LEMMA ScheduleGrows ==
    ASSUME NEW r \in Nat, NEW s \in Nat, r <= s
    PROVE  UnlockBps(r) <= UnlockBps(s)
<1>1. UnlockBps(r) \in 0..FullBps /\ UnlockBps(s) \in 0..FullBps
  BY Schedule
<1>2. CASE UnlockBps(r) = 0
  BY <1>1, <1>2, SMT
<1>3. CASE UnlockBps(r) # 0
  <2>1. PICK m \in Milestones : m.revenue <= r /\ m.bps = UnlockBps(r)
    BY <1>3, Schedule
  <2>2. m.revenue \in Nat
    BY LockAssumption
  <2>3. m.revenue <= s
    BY <2>1, <2>2, SMT
  <2>. QED  BY <2>1, <2>3, Schedule
<1>. QED  BY <1>2, <1>3

\* What a beneficiary is entitled to is a number.
LEMMA EntitledType ==
    ASSUME NEW b \in Beneficiaries, NEW r \in Nat
    PROVE  Entitled(b, r) \in Nat
<1>1. UnlockBps(r) \in Nat /\ Allocation[b] \in Nat
  BY Schedule, LockAssumption
<1>2. Allocation[b] * UnlockBps(r) \in Nat
  BY <1>1, SMT
<1>. QED  BY <1>2, DivBounds, LockAssumption DEF Entitled

\* An entitlement grows with revenue.
LEMMA EntitledGrows ==
    ASSUME NEW b \in Beneficiaries, NEW r \in Nat, NEW s \in Nat, r <= s
    PROVE  Entitled(b, r) <= Entitled(b, s)
<1>1. /\ UnlockBps(r) \in Nat /\ UnlockBps(s) \in Nat /\ UnlockBps(r) <= UnlockBps(s)
      /\ Allocation[b] \in Nat
  BY Schedule, ScheduleGrows, LockAssumption
<1>2. /\ Allocation[b] * UnlockBps(r) \in Nat /\ Allocation[b] * UnlockBps(s) \in Nat
      /\ Allocation[b] * UnlockBps(r) <= Allocation[b] * UnlockBps(s)
  BY <1>1, ProductMonotone
<1>. QED  BY <1>2, DivMonotone, LockAssumption DEF Entitled

\* What the beneficiaries are entitled to together is what the lock does not withhold:
\* rounding each of them down never frees more than rounding the total.
LEMMA WithheldCovers ==
    ASSUME NEW f \in [Beneficiaries -> Nat], NEW r \in Nat,
           \A b \in Beneficiaries : f[b] <= Entitled(b, r)
    PROVE  /\ TotalAllocation \in Nat /\ SumOver(f, Beneficiaries) \in Nat
           /\ (TotalAllocation * UnlockBps(r)) \div FullBps \in 0..TotalAllocation
           /\ SumOver(f, Beneficiaries) <= (TotalAllocation * UnlockBps(r)) \div FullBps
<1>. DEFINE u == UnlockBps(r)
            full == [b \in Beneficiaries |-> f[b] * FullBps]
            due == [b \in Beneficiaries |-> Allocation[b] * u]
<1>1. u \in 0..FullBps /\ FullBps \in Nat \ {0}
  BY Schedule, LockAssumption
<1>2. Allocation \in [Beneficiaries -> Nat] /\ IsFiniteSet(Beneficiaries)
  BY LockAssumption
<1>3. \A b \in Beneficiaries : Allocation[b] \in Nat /\ f[b] \in Nat
  BY <1>2
<1>4. TotalAllocation \in Nat /\ SumOver(f, Beneficiaries) \in Nat
  BY <1>2, SumType DEF TotalAllocation
<1>. HIDE DEF u
<1>5. full \in [Beneficiaries -> Nat] /\ due \in [Beneficiaries -> Nat]
  BY <1>1, <1>3, SMT
<1>6. ASSUME NEW b \in Beneficiaries PROVE full[b] <= due[b]
  <2>1. Allocation[b] * u \in Nat
    BY <1>1, <1>3, SMT
  <2>2. Entitled(b, r) \in Nat /\ Entitled(b, r) * FullBps <= Allocation[b] * u
    BY <1>1, <2>1, DivBounds DEF Entitled, u
  <2>3. f[b] * FullBps <= Entitled(b, r) * FullBps
    BY <1>1, <1>3, <2>2, SMT
  <2>4. f[b] * FullBps \in Nat /\ Entitled(b, r) * FullBps \in Nat
    BY <1>1, <1>3, <2>2, SMT
  <2>5. f[b] * FullBps <= Allocation[b] * u
    BY <2>1, <2>2, <2>3, <2>4, SMT
  <2>. QED  BY <2>5
<1>7. \A b \in Beneficiaries : full[b] = f[b] * FullBps /\ due[b] = Allocation[b] * u
  OBVIOUS
<1>. HIDE DEF full, due
<1>8. SumOver(full, Beneficiaries) = SumOver(f, Beneficiaries) * FullBps
  <2>1. FullBps \in Nat /\ \A b \in Beneficiaries : full[b] = f[b] * FullBps
    BY <1>1, <1>7
  <2>2. IsFiniteSet(Beneficiaries) /\ full \in [Beneficiaries -> Nat]
    BY <1>2, <1>5
  <2>. QED  BY <2>1, <2>2, SumScaled
<1>9. SumOver(due, Beneficiaries) = TotalAllocation * u
  BY <1>1, <1>2, <1>5, <1>7, SumScaled DEF TotalAllocation
<1>10. SumOver(full, Beneficiaries) <= SumOver(due, Beneficiaries)
  BY <1>2, <1>5, <1>6, SumMonotone
<1>11. SumOver(f, Beneficiaries) * FullBps <= TotalAllocation * u
  BY <1>8, <1>9, <1>10
<1>12. TotalAllocation * u \in Nat /\ TotalAllocation * u <= TotalAllocation * FullBps
  BY <1>1, <1>4, SMT
<1>. DEFINE q == (TotalAllocation * u) \div FullBps
<1>13. /\ q \in Nat /\ q * FullBps <= TotalAllocation * u
       /\ \A n \in Nat : n * FullBps <= TotalAllocation * u => n <= q
  BY <1>1, <1>12, DivBounds
<1>14. (TotalAllocation * FullBps) \div FullBps = TotalAllocation
  BY <1>1, <1>4, SMT
<1>15. q <= TotalAllocation
  <2>1. TotalAllocation * FullBps \in Nat
    BY <1>1, <1>4, SMT
  <2>. QED  BY <1>1, <1>12, <1>14, <2>1, DivMonotone
<1>16. SumOver(f, Beneficiaries) <= q
  BY <1>4, <1>11, <1>13
<1>. HIDE DEF q
<1>17. q \in 0..TotalAllocation
  BY <1>4, <1>13, <1>15, SMT
<1>. QED  BY <1>4, <1>16, <1>17 DEF q, u

-----------------------------------------------------------------------------
(* The counter and the ratchet *)

Ratcheted(m, r, l, d) == Higher(m, Lower(r, m + (d - l) * MaxIncreasePerDay))

\* An update of the ratchet keeps it paced, below the counter and never lowers it.
LEMMA RatchetMoves ==
    ASSUME NEW m \in Nat, NEW r \in Nat, NEW l \in Nat, NEW d \in Nat, l <= d,
           m <= l * MaxIncreasePerDay, m <= r
    PROVE  /\ Ratcheted(m, r, l, d) \in Nat
           /\ m <= Ratcheted(m, r, l, d) /\ Ratcheted(m, r, l, d) <= r
           /\ Ratcheted(m, r, l, d) <= d * MaxIncreasePerDay
<1>. DEFINE x == MaxIncreasePerDay
            step == (d - l) * x
<1>1. x \in Nat
  BY LockAssumption
<1>. HIDE DEF x
<1>2. step \in Nat /\ l * x \in Nat /\ d * x \in Nat /\ d * x = l * x + step
  BY <1>1, SMT
<1>3. m <= l * x
  BY DEF x
<1>. HIDE DEF step
<1>4. Ratcheted(m, r, l, d) = Higher(m, Lower(r, m + step))
  BY DEF Ratcheted, step, x
<1>5. /\ Higher(m, Lower(r, m + step)) \in Nat
      /\ m <= Higher(m, Lower(r, m + step)) /\ Higher(m, Lower(r, m + step)) <= r
      /\ Higher(m, Lower(r, m + step)) <= d * x
  BY <1>2, <1>3, SMT DEF Higher, Lower
<1>. QED  BY <1>4, <1>5 DEF x

\* No more passes between days than the clock counts: the pace only loosens.
LEMMA PaceLoosens ==
    ASSUME NEW m \in Nat, NEW l \in Nat, NEW d \in Nat, l <= d, m <= l * MaxIncreasePerDay
    PROVE  m <= d * MaxIncreasePerDay
<1>1. MaxIncreasePerDay \in Nat
  BY LockAssumption
<1>2. l * MaxIncreasePerDay <= d * MaxIncreasePerDay
  BY <1>1, SMT
<1>3. l * MaxIncreasePerDay \in Nat /\ d * MaxIncreasePerDay \in Nat
  BY <1>1, SMT
<1>. QED  BY <1>2, <1>3, SMT

\* The baseline of the last sync is one the collector in use has reached.
Baseline == feeCollector # NoCollector => lastSyncedCumulative <= collected[feeCollector]

\* What was recognised only grows, and attestations correct it upwards.
Corrective == \A p \in attestations : p.basis <= p.cumulative /\ p.basis <= recognizedRevenueUsd

CounterInv == CounterTypeOK /\ Baseline /\ Corrective /\ FeesCountedOnce /\ RatchetIsPaced

\* What a collector took in since the last sync is never negative.
LEMMA UnsyncedType ==
    ASSUME CounterTypeOK, Baseline
    PROVE  /\ Unsynced \in Nat
           /\ feeCollector = NoCollector => Unsynced = 0
           /\ feeCollector # NoCollector =>
                 /\ feeCollector \in Collectors /\ collected[feeCollector] \in Nat
                 /\ Unsynced = collected[feeCollector] - lastSyncedCumulative
<1>1. lastSyncedCumulative \in Nat
  BY DEF CounterTypeOK
<1>2. CASE feeCollector = NoCollector
  BY <1>2, SMT DEF Unsynced
<1>3. CASE feeCollector # NoCollector
  <2>1. feeCollector \in Collectors /\ collected[feeCollector] \in Nat
    BY <1>3 DEF CounterTypeOK
  <2>2. lastSyncedCumulative <= collected[feeCollector]
    BY <1>3 DEF Baseline
  <2>. DEFINE c == collected[feeCollector]
  <2>. HIDE DEF c
  <2>3. Unsynced = c - lastSyncedCumulative
    BY <1>1, <1>3, <2>1, <2>2, SMT DEF Unsynced, c
  <2>4. c - lastSyncedCumulative \in Nat
    BY <1>1, <2>1, <2>2, SMT DEF c
  <2>. QED  BY <1>3, <2>1, <2>3, <2>4 DEF c
<1>. QED  BY <1>2, <1>3

\* The steps as revenue sees them.
Credited ==
    \/ \E c \in Collectors, f \in FeeInputs : CollectFees(c, f)
    \/ SyncStablecoinRevenue
    \/ \E r \in RevenueInputs : AddRevenue(r) \/ ProposeAttestation(r)
    \/ \E p \in attestations : AttestRevenue(p)
    \/ \E c \in Collectors \cup {NoCollector} : SetFeeCollector(c)

\* The steps as the revenue counter sees them.
LEMMA StepsOfRevenue ==
    ASSUME [EndNext]_endVars
    PROVE  \/ Credited /\ UNCHANGED <<day, ratchetVars, releaseVars>>
           \/ /\ SyncObservedRevenue \/ Activate(arm["lock"])
              /\ UNCHANGED <<day, counterVars>>
           \/ (\E b \in Beneficiaries : Release(b)) /\ UNCHANGED <<day, counterVars>>
           \/ TriggerWindDown \/ GovernanceTriggerWindDown
           \/ NextDay
           \/ UNCHANGED <<day, counterVars, ratchetVars, releaseVars>>
<1>1. CASE RevenueStep
  BY <1>1 DEF RevenueStep, Credited
<1>2. CASE \E b \in Beneficiaries : ReleaseArm(b)
  BY <1>2 DEF ReleaseArm
<1>3. CASE \E outcome \in {"Sold", "Refunded"} : FinalizeSale(outcome)
  BY <1>3 DEF FinalizeSale
<1>4. CASE \E h \in Holders : ClaimArm(h)
  BY <1>4 DEF ClaimArm
<1>5. CASE WithdrawUnallocatedArm
  BY <1>5 DEF WithdrawUnallocatedArm
<1>6. CASE EndGovernance
  <2>1. CASE GovernanceCredits
    BY <2>1 DEF GovernanceCredits, Credited
  <2>2. CASE \E t \in Thresholds \ {threshold} : SetRevenueThreshold(t)
    BY <2>2 DEF SetRevenueThreshold
  <2>3. CASE \E d \in Deadlines \ {deadline} : SetWindDownDeadline(d)
    BY <2>3 DEF SetWindDownDeadline
  <2>4. CASE SetTransferable
    BY <2>4 DEF SetTransferable
  <2>5. CASE \E h \in Holders, n \in ArmInputs : DistributeArm(h, n)
    BY <2>5 DEF DistributeArm
  <2>. QED  BY <1>6, <2>1, <2>2, <2>3, <2>4, <2>5 DEF EndGovernance
<1>7. CASE TriggerWindDown
  BY <1>7
<1>8. CASE \E a \in Assets : Sweep(a)
  BY <1>8 DEF Sweep
<1>9. CASE \E h \in Holders, n \in ArmInputs :
              \E tokens \in SUBSET (Assets \ {"eth"}) : Redeem(h, n, tokens)
  BY <1>9 DEF Redeem
<1>10. CASE \E h \in Holders, n \in ArmInputs :
              \E to \in Holders \cup Contracts : Send(h, to, n)
  BY <1>10 DEF Send
<1>11. CASE NextDay
  BY <1>11
<1>12. CASE UNCHANGED endVars
  BY <1>12 DEF endVars
<1>. QED
  BY <1>1, <1>2, <1>3, <1>4, <1>5, <1>6, <1>7, <1>8, <1>9, <1>10, <1>11, <1>12, Zenon
  DEF EndNext

\* Initially nothing was collected or counted.
LEMMA CounterInit ==
    ASSUME EndInit
    PROVE  CounterInv
<1>. USE DEF EndInit, RevenueInit
<1>1. CounterTypeOK
  <2>1. /\ collected \in [Collectors -> Nat] /\ released \in [Beneficiaries -> Nat]
        /\ day \in Nat /\ lastSyncTimestamp \in 0..day /\ maxObservedRevenue \in Nat
    BY SMT
  <2>2. /\ {lastSyncedCumulative, recognizedRevenueUsd, entrusted, attested} \subseteq Nat
        /\ {frozen, frozenAtWindDown, activated, overtaken} \subseteq BOOLEAN
        /\ feeCollector \in Collectors \cup {NoCollector}
    BY 0 \in Nat, Zenon
  <2>3. attestations \subseteq [basis : Nat, cumulative : Nat] /\ IsFiniteSet(attestations)
    BY FS_EmptySet, Zenon
  <2>. QED  BY <2>1, <2>2, <2>3 DEF CounterTypeOK
<1>2. Baseline
  BY Zenon DEF Baseline
<1>5. Corrective
  BY Zenon DEF Corrective
<1>3. FeesCountedOnce
  BY SMT DEF FeesCountedOnce, Unsynced
<1>4. RatchetIsPaced
  <2>1. 0 <= 0 * MaxIncreasePerDay
    BY LockAssumption, SMT
  <2>2. ASSUME NEW b \in Beneficiaries PROVE released[b] <= Entitled(b, 0)
    <3>1. Entitled(b, 0) \in Nat
      BY EntitledType, SMT
    <3>2. released[b] = 0
      OBVIOUS
    <3>. QED  BY <3>1, <3>2, SMT
  <2>. QED  BY <2>1, <2>2, SMT DEF RatchetIsPaced
<1>. QED  BY <1>1, <1>2, <1>3, <1>4, <1>5 DEF CounterInv

\* Recognised revenue and what is still to be synced move together.
CounterMoves ==
    /\ collected' \in [Collectors -> Nat] /\ feeCollector' \in Collectors \cup {NoCollector}
    /\ lastSyncedCumulative' \in Nat /\ recognizedRevenueUsd' \in Nat
    /\ entrusted' \in Nat /\ attested' \in Nat /\ overtaken' \in BOOLEAN
    /\ attestations' \subseteq [basis : Nat, cumulative : Nat] /\ IsFiniteSet(attestations')
    /\ Baseline' /\ Corrective' /\ FeesCountedOnce'
    /\ recognizedRevenueUsd <= recognizedRevenueUsd'

\* The counter's numbers, and what is known of them.
LEMMA CounterNumbers ==
    ASSUME CounterInv
    PROVE  /\ recognizedRevenueUsd \in Nat /\ entrusted \in Nat /\ attested \in Nat
           /\ lastSyncedCumulative \in Nat /\ overtaken \in BOOLEAN
           /\ collected \in [Collectors -> Nat] /\ feeCollector \in Collectors \cup {NoCollector}
           /\ Unsynced \in Nat
           /\ recognizedRevenueUsd + Unsynced <= entrusted + attested
           /\ ~overtaken => recognizedRevenueUsd + Unsynced = entrusted + attested
<1>1. Unsynced \in Nat
  BY UnsyncedType DEF CounterInv
<1>. QED  BY <1>1 DEF CounterInv, CounterTypeOK, FeesCountedOnce

\* What is counted and what is owed to the counter grow by as much.
LEMMA TogetherCounts ==
    ASSUME CounterInv, NEW n \in Nat,
           recognizedRevenueUsd' + Unsynced' = recognizedRevenueUsd + Unsynced + n,
           entrusted' + attested' = entrusted + attested + n,
           overtaken' = overtaken
    PROVE  FeesCountedOnce'
<1>1. /\ recognizedRevenueUsd + Unsynced <= entrusted + attested
      /\ ~overtaken => recognizedRevenueUsd + Unsynced = entrusted + attested
  BY CounterNumbers
<1>2. recognizedRevenueUsd + Unsynced \in Nat /\ entrusted + attested \in Nat
  BY CounterNumbers, SMT
<1>3. /\ recognizedRevenueUsd + Unsynced + n <= entrusted + attested + n
      /\ ~overtaken => recognizedRevenueUsd + Unsynced + n = entrusted + attested + n
  <2>. DEFINE counted == recognizedRevenueUsd + Unsynced
              owed == entrusted + attested
  <2>1. counted \in Nat /\ owed \in Nat /\ counted <= owed
    BY <1>1, <1>2
  <2>2. counted + n <= owed + n
    <3>. HIDE DEF counted, owed
    <3>. QED  BY <2>1, SMT
  <2>3. ~overtaken => counted + n = owed + n
    BY <1>1
  <2>. QED  BY <2>2, <2>3
<1>. QED  BY <1>3 DEF FeesCountedOnce

\* As long as the total does not fall, the attestations that are voted on stay corrections.
LEMMA StillCorrective ==
    ASSUME CounterInv, recognizedRevenueUsd' \in Nat, recognizedRevenueUsd <= recognizedRevenueUsd',
           attestations' \subseteq attestations
    PROVE  /\ attestations' \subseteq [basis : Nat, cumulative : Nat] /\ IsFiniteSet(attestations')
           /\ Corrective'
<1>1. attestations \subseteq [basis : Nat, cumulative : Nat] /\ IsFiniteSet(attestations)
  BY DEF CounterInv, CounterTypeOK
<1>2. IsFiniteSet(attestations')
  BY <1>1, FS_Subset
<1>3. ASSUME NEW p \in attestations'
      PROVE  p.basis <= p.cumulative /\ p.basis <= recognizedRevenueUsd'
  <2>1. p \in attestations /\ p.basis \in Nat /\ p.cumulative \in Nat
    BY <1>1
  <2>2. p.basis <= p.cumulative /\ p.basis <= recognizedRevenueUsd
    BY <2>1 DEF CounterInv, Corrective
  <2>. QED  BY <2>1, <2>2, CounterNumbers, SMT
<1>. QED  BY <1>1, <1>2, <1>3 DEF Corrective

\* A fee that comes in waits to be counted.
LEMMA CollectingCounts ==
    ASSUME CounterInv, NEW c \in Collectors, NEW f \in FeeInputs, CollectFees(c, f)
    PROVE  CounterMoves
<1>. USE DEF CollectFees
<1>1. /\ f \in Nat /\ collected[c] \in Nat /\ c # NoCollector
      /\ lastSyncedCumulative \in Nat /\ recognizedRevenueUsd \in Nat
      /\ entrusted \in Nat /\ attested \in Nat /\ overtaken \in BOOLEAN
      /\ feeCollector \in Collectors \cup {NoCollector}
      /\ collected \in [Collectors -> Nat] /\ Unsynced \in Nat
  BY CounterAssumption, CounterNumbers
<1>2. /\ collected[c] + f \in Nat /\ collected'[c] = collected[c] + f
      /\ collected' \in [Collectors -> Nat]
      /\ \A d \in Collectors : d # c => collected'[d] = collected[d]
  BY <1>1, SMT
<1>3. recognizedRevenueUsd <= recognizedRevenueUsd' /\ attestations' \subseteq attestations
  BY <1>1, SMT
<1>6. /\ attestations' \subseteq [basis : Nat, cumulative : Nat] /\ IsFiniteSet(attestations')
      /\ Corrective'
  BY <1>1, <1>3, StillCorrective
<1>4. CASE c = feeCollector
  <2>1. lastSyncedCumulative <= collected[c] /\ Unsynced = collected[c] - lastSyncedCumulative
    BY <1>1, <1>4, UnsyncedType DEF CounterInv, Baseline
  <2>2. lastSyncedCumulative' <= collected'[c] /\ entrusted' = entrusted + f
    BY <1>1, <1>2, <1>4, <2>1, SMT
  <2>3. Unsynced' = Unsynced + f
    BY <1>1, <1>2, <1>4, <2>1, SMT DEF Unsynced
  <2>4. Baseline'
    BY <1>4, <2>2 DEF Baseline
  <2>5. FeesCountedOnce'
    <3>1. recognizedRevenueUsd' + Unsynced' = recognizedRevenueUsd + Unsynced + f
      BY <1>1, <2>3, SMT
    <3>2. entrusted' + attested' = entrusted + attested + f
      BY <1>1, <2>2, SMT
    <3>. QED  BY <1>1, <3>1, <3>2, TogetherCounts
  <2>6. entrusted' \in Nat
    BY <1>1, <2>2, SMT
  <2>. QED  BY <1>1, <1>2, <1>3, <1>6, <2>4, <2>5, <2>6 DEF CounterMoves
<1>5. CASE c # feeCollector
  <2>1. entrusted' = entrusted /\ Unsynced' = Unsynced /\ Baseline'
    BY <1>1, <1>2, <1>5 DEF Unsynced, Baseline, CounterInv
  <2>2. FeesCountedOnce'
    BY <2>1 DEF FeesCountedOnce, CounterInv
  <2>. QED  BY <1>1, <1>2, <1>3, <1>6, <2>1, <2>2 DEF CounterMoves
<1>. QED  BY <1>4, <1>5

\* The sync of the counter, as syncStablecoinRevenue and a wind-down make it.
Synced ==
    /\ feeCollector # NoCollector
    /\ recognizedRevenueUsd' = recognizedRevenueUsd + Unsynced
    /\ lastSyncedCumulative' = collected[feeCollector]
    /\ UNCHANGED <<collected, feeCollector, attestations, historyVars>>

\* What waited is recognised: nothing is owed anew.
LEMMA RecognisingCounts ==
    ASSUME CounterInv, Unsynced' = 0,
           recognizedRevenueUsd' = recognizedRevenueUsd + Unsynced,
           UNCHANGED <<attestations, historyVars>>
    PROVE  /\ recognizedRevenueUsd' \in Nat /\ recognizedRevenueUsd <= recognizedRevenueUsd'
           /\ attestations' \subseteq [basis : Nat, cumulative : Nat] /\ IsFiniteSet(attestations')
           /\ Corrective' /\ FeesCountedOnce'
<1>1. recognizedRevenueUsd' \in Nat /\ recognizedRevenueUsd <= recognizedRevenueUsd'
  BY CounterNumbers, SMT
<1>2. /\ attestations' \subseteq [basis : Nat, cumulative : Nat] /\ IsFiniteSet(attestations')
      /\ Corrective'
  BY <1>1, StillCorrective
<1>3. /\ recognizedRevenueUsd' + Unsynced' = recognizedRevenueUsd + Unsynced + 0
      /\ entrusted' + attested' = entrusted + attested + 0 /\ overtaken' = overtaken
  <2>1. entrusted' = entrusted /\ attested' = attested /\ overtaken' = overtaken
    BY DEF historyVars
  <2>2. recognizedRevenueUsd + Unsynced + 0 = recognizedRevenueUsd + Unsynced
    BY CounterNumbers, SMT
  <2>3. recognizedRevenueUsd' + 0 = recognizedRevenueUsd'
    BY <1>1, SMT
  <2>4. entrusted + attested + 0 = entrusted + attested
    BY CounterNumbers, SMT
  <2>. QED  BY <2>1, <2>2, <2>3, <2>4
<1>4. FeesCountedOnce'
  BY <1>3, TogetherCounts
<1>. QED  BY <1>1, <1>2, <1>4

\* A sync counts what waits, once.
LEMMA SyncingCounts ==
    ASSUME CounterInv, Synced
    PROVE  CounterMoves
<1>. USE DEF Synced
<1>1. collected[feeCollector] \in Nat
  BY UnsyncedType DEF CounterInv
<1>2. Unsynced' = 0 /\ Baseline'
  BY <1>1, SMT DEF Unsynced, Baseline
<1>3. /\ recognizedRevenueUsd' \in Nat /\ recognizedRevenueUsd <= recognizedRevenueUsd'
      /\ attestations' \subseteq [basis : Nat, cumulative : Nat] /\ IsFiniteSet(attestations')
      /\ Corrective' /\ FeesCountedOnce'
  BY <1>2, RecognisingCounts
<1>. QED  BY <1>1, <1>2, <1>3, CounterNumbers DEF CounterMoves, historyVars

\* What governance adds counts once and for all.
LEMMA AddingCounts ==
    ASSUME CounterInv, NEW r \in RevenueInputs, AddRevenue(r)
    PROVE  CounterMoves
<1>. USE DEF AddRevenue
<1>1. r \in Nat
  BY CounterAssumption
<1>2. /\ recognizedRevenueUsd' \in Nat /\ recognizedRevenueUsd <= recognizedRevenueUsd'
      /\ attested' \in Nat
  BY <1>1, CounterNumbers, SMT
<1>3. Unsynced' = Unsynced /\ Baseline'
  BY DEF Unsynced, Baseline, CounterInv
<1>4. /\ attestations' \subseteq [basis : Nat, cumulative : Nat] /\ IsFiniteSet(attestations')
      /\ Corrective'
  BY <1>2, StillCorrective
<1>5. /\ recognizedRevenueUsd' + Unsynced' = recognizedRevenueUsd + Unsynced + r
      /\ entrusted' + attested' = entrusted + attested + r
  <2>1. recognizedRevenueUsd + r + Unsynced = recognizedRevenueUsd + Unsynced + r
    BY <1>1, CounterNumbers, SMT
  <2>2. entrusted + (attested + r) = entrusted + attested + r
    BY <1>1, CounterNumbers, SMT
  <2>. QED  BY <1>3, <2>1, <2>2
<1>6. FeesCountedOnce'
  BY <1>1, <1>5, TogetherCounts
<1>. QED  BY <1>2, <1>3, <1>4, <1>6, CounterNumbers DEF CounterMoves

\* An attestation is proposed on what is recognised at the time.
LEMMA ProposingCounts ==
    ASSUME CounterInv, NEW r \in RevenueInputs, ProposeAttestation(r)
    PROVE  CounterMoves
<1>. USE DEF ProposeAttestation
<1>. DEFINE new == [basis |-> recognizedRevenueUsd, cumulative |-> recognizedRevenueUsd + r]
<1>1. r \in Nat /\ recognizedRevenueUsd \in Nat
  BY CounterAssumption, CounterNumbers
<1>2. new \in [basis : Nat, cumulative : Nat] /\ new.basis <= new.cumulative
      /\ new.basis <= recognizedRevenueUsd
  BY <1>1, SMT
<1>3. attestations \subseteq [basis : Nat, cumulative : Nat] /\ IsFiniteSet(attestations)
  BY DEF CounterInv, CounterTypeOK
<1>4. attestations' = attestations \cup {new}
  OBVIOUS
<1>5. attestations' \subseteq [basis : Nat, cumulative : Nat] /\ IsFiniteSet(attestations')
  <2>. HIDE DEF new
  <2>1. IsFiniteSet(attestations \cup {new})
    BY ONLY <1>3, FS_AddElement
  <2>. QED  BY ONLY <1>2, <1>3, <1>4, <2>1, Zenon
<1>6. Corrective'
  BY <1>2, <1>4, Zenon DEF Corrective, CounterInv
<1>7. /\ UNCHANGED <<collected, feeCollector, lastSyncedCumulative, recognizedRevenueUsd>>
      /\ entrusted' = entrusted /\ attested' = attested /\ overtaken' = overtaken
  BY DEF historyVars
<1>8. Baseline' /\ FeesCountedOnce'
  BY <1>7 DEF Baseline, FeesCountedOnce, Unsynced, CounterInv
<1>9. recognizedRevenueUsd <= recognizedRevenueUsd'
  BY <1>1, <1>7, SMT
<1>. QED  BY <1>5, <1>6, <1>7, <1>8, <1>9, CounterNumbers DEF CounterMoves

\* An attestation credits what it was meant to, less what it overwrites.
LEMMA AttestingCounts ==
    ASSUME CounterInv, NEW p \in attestations, AttestRevenue(p)
    PROVE  CounterMoves
<1>. USE DEF AttestRevenue
<1>1. /\ p.basis \in Nat /\ p.cumulative \in Nat
      /\ p.basis <= p.cumulative /\ p.basis <= recognizedRevenueUsd
  BY DEF CounterInv, CounterTypeOK, Corrective
<1>2. /\ recognizedRevenueUsd' = p.cumulative /\ recognizedRevenueUsd <= p.cumulative
      /\ attestations' \subseteq attestations
      /\ attested' = attested + (p.cumulative - p.basis)
      /\ overtaken' = (overtaken \/ recognizedRevenueUsd # p.basis)
      /\ UNCHANGED <<collected, feeCollector, lastSyncedCumulative, entrusted>>
  BY <1>1, CounterNumbers, SMT
<1>3. p.cumulative - p.basis \in Nat /\ attested' \in Nat
  BY <1>1, <1>2, CounterNumbers, SMT
<1>4. Unsynced' = Unsynced /\ Baseline'
  BY <1>2 DEF Unsynced, Baseline, CounterInv
<1>5. /\ attestations' \subseteq [basis : Nat, cumulative : Nat] /\ IsFiniteSet(attestations')
      /\ Corrective'
  BY <1>1, <1>2, StillCorrective
<1>6. FeesCountedOnce'
  <2>. DEFINE R == recognizedRevenueUsd
              U == Unsynced
              O == entrusted + attested
              b == p.basis
              c == p.cumulative
  <2>1. /\ R \in Nat /\ U \in Nat /\ O \in Nat /\ b \in Nat /\ c \in Nat
        /\ b <= R /\ R <= c /\ R + U <= O
    BY <1>1, <1>2, CounterNumbers, SMT
  <2>2. c + U <= O + (c - b)
    <3>. HIDE DEF R, U, O, b, c
    <3>. QED  BY <2>1, SMT
  <2>3. R = b /\ R + U = O => c + U = O + (c - b)
    <3>. HIDE DEF R, U, O, b, c
    <3>. QED  BY <2>1, SMT
  <2>4. entrusted' + attested' = O + (c - b)
    BY <1>2, <1>3, CounterNumbers, SMT
  <2>5. recognizedRevenueUsd' + Unsynced' = c + U
    BY <1>2, <1>4
  <2>6. ~overtaken' => R = b /\ R + U = O
    BY <1>2, CounterNumbers
  <2>. QED  BY <2>2, <2>3, <2>4, <2>5, <2>6 DEF FeesCountedOnce
<1>7. overtaken' \in BOOLEAN
  BY <1>2
<1>. QED  BY <1>1, <1>2, <1>3, <1>4, <1>5, <1>6, <1>7, CounterNumbers DEF CounterMoves

\* A change of collector credits what the old one reports and starts at what the new one has.
LEMMA ChangingCounts ==
    ASSUME CounterInv, NEW c \in Collectors \cup {NoCollector}, SetFeeCollector(c)
    PROVE  CounterMoves
<1>. USE DEF SetFeeCollector
<1>1. lastSyncedCumulative' \in Nat /\ Unsynced' = 0 /\ Baseline'
  <2>1. CASE c = NoCollector
    BY <2>1, SMT DEF Unsynced, Baseline
  <2>2. CASE c # NoCollector
    <3>1. collected[c] \in Nat /\ lastSyncedCumulative' = collected[c] /\ collected' = collected
      BY <2>2, CounterNumbers
    <3>. QED  BY <2>2, <3>1, SMT DEF Unsynced, Baseline
  <2>. QED  BY <2>1, <2>2
<1>2. /\ recognizedRevenueUsd' \in Nat /\ recognizedRevenueUsd <= recognizedRevenueUsd'
      /\ attestations' \subseteq [basis : Nat, cumulative : Nat] /\ IsFiniteSet(attestations')
      /\ Corrective' /\ FeesCountedOnce'
  BY <1>1, RecognisingCounts
<1>. QED  BY <1>1, <1>2, CounterNumbers DEF CounterMoves, historyVars

-----------------------------------------------------------------------------
(* Revenue is counted once and the ratchet is paced *)

\* A step that credits or syncs revenue keeps the counter true.
LEMMA CreditedInductive ==
    ASSUME CounterInv, Credited \/ Synced, UNCHANGED <<day, ratchetVars, releaseVars>>,
           frozen' \in BOOLEAN
    PROVE  CounterInv'
<1>1. CounterMoves
  <2>1. CASE Synced
    BY <2>1, SyncingCounts
  <2>2. CASE SyncStablecoinRevenue
    BY <2>2, SyncingCounts DEF Synced, SyncStablecoinRevenue, SyncSucceeds
  <2>. QED  BY <2>1, <2>2, CollectingCounts, AddingCounts, ProposingCounts,
                 AttestingCounts, ChangingCounts DEF Credited
<1>2. CounterTypeOK'
  BY <1>1 DEF CounterMoves, CounterInv, CounterTypeOK, ratchetVars, releaseVars
<1>3. RatchetIsPaced'
  <2>1. maxObservedRevenue <= recognizedRevenueUsd'
    BY <1>1, SMT DEF CounterMoves, CounterInv, CounterTypeOK, RatchetIsPaced
  <2>. QED  BY <2>1 DEF CounterInv, RatchetIsPaced, ratchetVars, releaseVars
<1>. QED  BY <1>1, <1>2, <1>3 DEF CounterInv, CounterMoves

\* The ratchet as every update, and the last one at wind-down, leaves it.
Advanced ==
    /\ maxObservedRevenue' =
          IF frozenAtWindDown THEN maxObservedRevenue
          ELSE Ratcheted(maxObservedRevenue, recognizedRevenueUsd', lastSyncTimestamp, day)
    /\ lastSyncTimestamp' = IF frozenAtWindDown THEN lastSyncTimestamp ELSE day

\* An update of the maximum goes as far as the day allows.
LEMMA UpdateAdvances ==
    ASSUME UpdateMaxObservedRevenue, UNCHANGED recognizedRevenueUsd
    PROVE  Advanced /\ maxObservedRevenue' = CappedObservedRevenue
  BY DEF UpdateMaxObservedRevenue, CappedObservedRevenue, Advanced, Ratcheted

\* A maximum that advanced by the day allowance since its last sync stays within its pace.
LEMMA AdvancedPaces ==
    ASSUME CounterInv, recognizedRevenueUsd' \in Nat,
           recognizedRevenueUsd <= recognizedRevenueUsd', day' = day,
           Advanced \/ (Advanced!1 /\ lastSyncTimestamp' = day)
    PROVE  /\ maxObservedRevenue' \in Nat /\ lastSyncTimestamp' \in 0..day'
           /\ maxObservedRevenue <= maxObservedRevenue'
           /\ maxObservedRevenue' <= lastSyncTimestamp' * MaxIncreasePerDay
           /\ maxObservedRevenue' <= recognizedRevenueUsd'
<1>1. /\ maxObservedRevenue \in Nat /\ lastSyncTimestamp \in Nat /\ day \in Nat
      /\ lastSyncTimestamp <= day /\ recognizedRevenueUsd \in Nat
      /\ maxObservedRevenue <= lastSyncTimestamp * MaxIncreasePerDay
      /\ maxObservedRevenue <= recognizedRevenueUsd
  BY SMT DEF CounterInv, CounterTypeOK, RatchetIsPaced
<1>2. maxObservedRevenue <= recognizedRevenueUsd'
  BY <1>1, SMT
<1>3. CASE frozenAtWindDown
  <2>1. maxObservedRevenue' = maxObservedRevenue
    BY <1>3 DEF Advanced
  <2>2. lastSyncTimestamp' = lastSyncTimestamp \/ lastSyncTimestamp' = day
    BY <1>3 DEF Advanced
  <2>3. maxObservedRevenue <= day * MaxIncreasePerDay
    BY <1>1, PaceLoosens
  <2>. QED  BY <1>1, <1>2, <2>1, <2>2, <2>3, SMT
<1>4. CASE ~frozenAtWindDown
  <2>. DEFINE x == Ratcheted(maxObservedRevenue, recognizedRevenueUsd', lastSyncTimestamp, day)
  <2>1. maxObservedRevenue' = x /\ lastSyncTimestamp' = day
    BY <1>4 DEF Advanced
  <2>2. /\ x \in Nat /\ maxObservedRevenue <= x /\ x <= recognizedRevenueUsd'
        /\ x <= day * MaxIncreasePerDay
    BY <1>1, <1>2, RatchetMoves
  <2>. HIDE DEF x
  <2>. QED  BY <1>1, <2>1, <2>2, SMT
<1>. QED  BY <1>3, <1>4

\* What was released stays within an entitlement that grows.
LEMMA StillEntitled ==
    ASSUME CounterInv, maxObservedRevenue' \in Nat, maxObservedRevenue <= maxObservedRevenue'
    PROVE  \A b \in Beneficiaries : released[b] <= Entitled(b, maxObservedRevenue')
<1>. SUFFICES ASSUME NEW b \in Beneficiaries
              PROVE  released[b] <= Entitled(b, maxObservedRevenue')
  OBVIOUS
<1>1. maxObservedRevenue \in Nat /\ released[b] \in Nat
  BY DEF CounterInv, CounterTypeOK
<1>2. released[b] <= Entitled(b, maxObservedRevenue)
  BY DEF CounterInv, RatchetIsPaced
<1>3. Entitled(b, maxObservedRevenue) <= Entitled(b, maxObservedRevenue')
  BY <1>1, EntitledGrows
<1>4. Entitled(b, maxObservedRevenue) \in Nat /\ Entitled(b, maxObservedRevenue') \in Nat
  BY <1>1, EntitledType
<1>. QED  BY <1>1, <1>2, <1>3, <1>4, SMT

\* A sync of the ratchet or an activation keeps the counter sound.
LEMMA SyncingRatchet ==
    ASSUME CounterInv, SyncObservedRevenue \/ Activate(arm["lock"]), UNCHANGED <<day, counterVars>>
    PROVE  CounterInv'
<1>1. FeesCountedOnce' /\ Baseline' /\ Corrective'
  BY DEF CounterInv, FeesCountedOnce, Baseline, Corrective, Unsynced, counterVars, historyVars
<1>2. CASE SyncObservedRevenue
  <2>1. Advanced /\ UNCHANGED <<recognizedRevenueUsd, day, released>>
    BY <1>2, UpdateAdvances DEF SyncObservedRevenue, counterVars, releaseVars
  <2>2. recognizedRevenueUsd' \in Nat /\ recognizedRevenueUsd <= recognizedRevenueUsd'
    BY <2>1, SMT DEF CounterInv, CounterTypeOK
  <2>3. /\ maxObservedRevenue' \in Nat /\ lastSyncTimestamp' \in 0..day'
        /\ maxObservedRevenue <= maxObservedRevenue'
        /\ maxObservedRevenue' <= lastSyncTimestamp' * MaxIncreasePerDay
        /\ maxObservedRevenue' <= recognizedRevenueUsd'
    BY <2>1, <2>2, AdvancedPaces
  <2>4. RatchetIsPaced'
    BY <2>1, <2>3, StillEntitled DEF RatchetIsPaced, Entitled
  <2>5. CounterTypeOK'
    BY <1>2, <2>3 DEF CounterInv, CounterTypeOK, SyncObservedRevenue, counterVars, historyVars,
                                releaseVars
  <2>. QED  BY <1>1, <2>4, <2>5 DEF CounterInv
<1>3. CASE Activate(arm["lock"])
  <2>1. CounterTypeOK'
    BY <1>3 DEF CounterInv, CounterTypeOK, Activate, counterVars, historyVars, ratchetVars
  <2>2. RatchetIsPaced'
    BY <1>3 DEF CounterInv, RatchetIsPaced, Activate, counterVars, ratchetVars
  <2>. QED  BY <1>1, <2>1, <2>2 DEF CounterInv
<1>. QED  BY <1>2, <1>3

\* A release brings the beneficiary up to the entitlement, and no further.
LEMMA ReleasingPays ==
    ASSUME CounterInv, NEW b \in Beneficiaries, Release(b), UNCHANGED <<day, counterVars>>
    PROVE  /\ CounterInv'
           /\ Releasable(b) \in Nat
           /\ released' \in [Beneficiaries -> Nat]
           /\ released'[b] = released[b] + Releasable(b)
           /\ \A c \in Beneficiaries \ {b} : released'[c] = released[c]
<1>0. FeesCountedOnce' /\ Baseline' /\ Corrective'
  BY DEF CounterInv, FeesCountedOnce, Baseline, Corrective, Unsynced, counterVars, historyVars
<1>1. /\ Advanced /\ UNCHANGED <<recognizedRevenueUsd, day>>
      /\ maxObservedRevenue' = CappedObservedRevenue
  BY UpdateAdvances DEF Release, counterVars
<1>2. recognizedRevenueUsd' \in Nat /\ recognizedRevenueUsd <= recognizedRevenueUsd'
  BY <1>1, SMT DEF CounterInv, CounterTypeOK
<1>3. /\ maxObservedRevenue' \in Nat /\ lastSyncTimestamp' \in 0..day'
      /\ maxObservedRevenue <= maxObservedRevenue'
      /\ maxObservedRevenue' <= lastSyncTimestamp' * MaxIncreasePerDay
      /\ maxObservedRevenue' <= recognizedRevenueUsd'
  BY <1>1, <1>2, AdvancedPaces
<1>4. \A c \in Beneficiaries : released[c] <= Entitled(c, maxObservedRevenue')
  BY <1>3, StillEntitled
<1>5. /\ released \in [Beneficiaries -> Nat] /\ released[b] \in Nat
      /\ released' = [released EXCEPT ![b] = @ + Releasable(b)]
  BY DEF CounterInv, CounterTypeOK, Release
<1>. DEFINE e == Entitled(b, maxObservedRevenue')
<1>6. e \in Nat /\ released[b] <= e /\ Releasable(b) = e - released[b]
  BY <1>1, <1>3, <1>4, EntitledType DEF Releasable
<1>. HIDE DEF e
<1>7. Releasable(b) \in Nat /\ released[b] + Releasable(b) = e
  BY <1>5, <1>6, SMT
<1>8. /\ released' \in [Beneficiaries -> Nat] /\ released'[b] = e
      /\ \A c \in Beneficiaries \ {b} : released'[c] = released[c]
  BY <1>5, <1>6, <1>7
<1>9. ASSUME NEW c \in Beneficiaries PROVE released'[c] <= Entitled(c, maxObservedRevenue')
  <2>1. CASE c = b
    BY <1>6, <1>8, <2>1, SMT DEF e
  <2>2. CASE c # b
    BY <1>4, <1>8, <2>2
  <2>. QED  BY <2>1, <2>2
<1>10. RatchetIsPaced'
  BY <1>3, <1>9 DEF RatchetIsPaced, Entitled
<1>11. CounterTypeOK'
  BY <1>3, <1>8 DEF CounterInv, CounterTypeOK, Release, counterVars, historyVars
<1>. QED  BY <1>0, <1>7, <1>8, <1>10, <1>11 DEF CounterInv

\* Wind-down syncs once more and freezes what it finds.
LEMMA EndingCounts ==
    ASSUME CounterInv, TriggerWindDown \/ GovernanceTriggerWindDown
    PROVE  CounterInv'
<1>1. /\ ExecuteWindDown /\ UNCHANGED <<collected, feeCollector, attestations, historyVars>>
      /\ day' = day /\ UNCHANGED releaseVars /\ frozen' = TRUE /\ frozenAtWindDown' = TRUE
      /\ lastSyncTimestamp' = day
  BY DEF TriggerWindDown, GovernanceTriggerWindDown, ExecuteWindDown
<1>2. CounterMoves
  <2>1. CASE UNCHANGED <<recognizedRevenueUsd, lastSyncedCumulative>>
    <3>1. Baseline' /\ Corrective' /\ FeesCountedOnce'
      BY <1>1, <2>1 DEF CounterInv, FeesCountedOnce, Baseline, Corrective, Unsynced, historyVars
    <3>2. recognizedRevenueUsd <= recognizedRevenueUsd'
      BY <2>1, SMT DEF CounterInv, CounterTypeOK
    <3>. QED  BY <1>1, <2>1, <3>1, <3>2 DEF CounterMoves, CounterInv, CounterTypeOK, historyVars
  <2>2. CASE ~ UNCHANGED <<recognizedRevenueUsd, lastSyncedCumulative>>
    <3>1. Synced
      BY <2>2 DEF TriggerWindDown, GovernanceTriggerWindDown, SyncSucceeds, Synced
    <3>. QED  BY <3>1, SyncingCounts
  <2>. QED  BY <2>1, <2>2
<1>3. Advanced!1
  BY <1>1 DEF ExecuteWindDown, Ratcheted, Advanced
<1>4. /\ maxObservedRevenue' \in Nat /\ lastSyncTimestamp' \in 0..day'
      /\ maxObservedRevenue <= maxObservedRevenue'
      /\ maxObservedRevenue' <= lastSyncTimestamp' * MaxIncreasePerDay
      /\ maxObservedRevenue' <= recognizedRevenueUsd'
  BY <1>1, <1>2, <1>3, AdvancedPaces DEF CounterMoves
<1>5. RatchetIsPaced'
  BY <1>1, <1>4, StillEntitled DEF RatchetIsPaced, Entitled, releaseVars
<1>6. CounterTypeOK'
  BY <1>1, <1>2, <1>4 DEF CounterMoves, CounterInv, CounterTypeOK, releaseVars
<1>. QED  BY <1>2, <1>5, <1>6 DEF CounterInv, CounterMoves

\* Every step keeps the counter sound.
LEMMA CounterInductive ==
    ASSUME CounterInv, [EndNext]_endVars
    PROVE  CounterInv'
<1>1. CASE Credited /\ UNCHANGED <<day, ratchetVars, releaseVars>>
  <2>1. frozen' = frozen /\ frozen \in BOOLEAN
    BY <1>1 DEF Credited, CollectFees, SyncStablecoinRevenue, AddRevenue, ProposeAttestation,
                AttestRevenue, SetFeeCollector, CounterInv, CounterTypeOK
  <2>. QED  BY <1>1, <2>1, CreditedInductive
<1>2. CASE NextDay
  <2>1. /\ day' = day + 1 /\ UNCHANGED <<counterVars, ratchetVars, releaseVars>>
    BY <1>2 DEF NextDay
  <2>2. day' \in Nat /\ lastSyncTimestamp' \in 0..day'
    BY <2>1, SMT DEF CounterInv, CounterTypeOK, ratchetVars
  <2>3. CounterTypeOK'
    BY <2>1, <2>2 DEF CounterInv, CounterTypeOK, counterVars, historyVars, ratchetVars, releaseVars
  <2>4. RatchetIsPaced'
    BY <2>1 DEF CounterInv, RatchetIsPaced, counterVars, ratchetVars, releaseVars
  <2>5. Baseline' /\ Corrective' /\ FeesCountedOnce'
    BY <2>1 DEF CounterInv, FeesCountedOnce, Baseline, Corrective, Unsynced, counterVars, historyVars
  <2>. QED  BY <2>3, <2>4, <2>5 DEF CounterInv
<1>3. CASE UNCHANGED <<day, counterVars, ratchetVars, releaseVars>>
  <2>1. CounterTypeOK'
    BY <1>3 DEF CounterInv, CounterTypeOK, counterVars, historyVars, ratchetVars, releaseVars
  <2>2. RatchetIsPaced'
    BY <1>3 DEF CounterInv, RatchetIsPaced, counterVars, ratchetVars, releaseVars
  <2>3. Baseline' /\ Corrective' /\ FeesCountedOnce'
    BY <1>3 DEF CounterInv, FeesCountedOnce, Baseline, Corrective, Unsynced, counterVars, historyVars
  <2>. QED  BY <2>1, <2>2, <2>3 DEF CounterInv
<1>. QED
  BY <1>1, <1>2, <1>3, StepsOfRevenue, SyncingRatchet, ReleasingPays, EndingCounts

-----------------------------------------------------------------------------
(* The denominator of redemption *)

\* What circulates: with the holders, in the lock and not withheld, in the sale and owed.
Circulating(a, owed, locked) ==
    SumOver(a, Holders) + (a["lock"] - locked) + Lower(a["sale"], owed)

\* All ARM is with holders and the four contracts.
LEMMA SumOfAccounts ==
    ASSUME NEW a \in [Holders \cup Contracts -> Nat]
    PROVE  /\ SumOver(a, Holders) \in Nat
           /\ SumOver(a, Holders \cup Contracts)
                 = SumOver(a, Holders) + (a["treasury"] + a["lock"] + a["sale"]) + a["redemption"]
<1>. DEFINE T == Holders \cup Contracts
            R == ((Holders \cup {"treasury"}) \cup {"lock"}) \cup {"sale"}
<1>1. IsFiniteSet(Holders) /\ Holders \cap Contracts = {}
  BY EndAssumption
<1>2. Holders \in SUBSET T /\ R \in SUBSET T /\ T \in SUBSET T /\ a \in [T -> Nat]
  BY DEF Contracts
<1>3. /\ "treasury" \in T \ Holders /\ "lock" \in T \ Holders /\ "sale" \in T \ Holders
      /\ "redemption" \in T \ R /\ T = R \cup {"redemption"}
  BY <1>1 DEF Contracts
<1>4. IsFiniteSet((Holders \cup {"treasury"}) \cup {"lock"})
  <2>1. IsFiniteSet(Holders \cup {"treasury"})
    BY <1>1, FS_AddElement
  <2>. QED  BY <2>1, FS_AddElement
<1>5. IsFiniteSet(T)
  <2>1. IsFiniteSet(R)
    BY <1>4, FS_AddElement
  <2>. HIDE DEF R, T
  <2>2. IsFiniteSet(R \cup {"redemption"})
    BY <2>1, FS_AddElement
  <2>. QED  BY <1>3, <2>2
<1>. HIDE DEF T
<1>6. SumOver(a, R) = SumOver(a, Holders) + (a["treasury"] + a["lock"] + a["sale"])
  BY <1>1, <1>2, <1>3, SumWithThree
<1>. HIDE DEF R
<1>7. SumOver(a, R \cup {"redemption"}) = SumOver(a, R) + a["redemption"]
  BY <1>2, <1>3, <1>5, SumWith
<1>8. SumOver(a, Holders) \in Nat
  BY <1>1, <1>2, SumType
<1>. QED  BY <1>3, <1>6, <1>7, <1>8 DEF T

\* The denominator, taken apart.
Denominator ==
    /\ ArmStillOwed \in Nat /\ Locked \in 0..TotalAllocation /\ TotalAllocation \in Nat
    /\ SumOver(arm, Holders) \in Nat
    /\ CirculatingSupply = Circulating(arm, ArmStillOwed, Locked)

\* What buyers have not claimed is a number.
LEMMA OwedType ==
    ASSUME NEW c
    PROVE  SumOver(Bought, Holders \ c) \in Nat
<1>1. Bought \in [Holders -> Nat] /\ Holders \ c \in SUBSET Holders /\ IsFiniteSet(Holders \ c)
  BY EndAssumption, FS_Difference, FS_Subset
<1>. QED  BY <1>1, SumType

\* The part of the allocation that revenue unlocks is within the allocation.
LEMMA WithheldType ==
    ASSUME NEW r \in Nat
    PROVE  /\ TotalAllocation \in Nat
           /\ (TotalAllocation * UnlockBps(r)) \div FullBps \in 0..TotalAllocation
<1>. DEFINE none == [b \in Beneficiaries |-> 0]
<1>1. none \in [Beneficiaries -> Nat] /\ \A b \in Beneficiaries : none[b] = 0
  OBVIOUS
<1>. HIDE DEF none
<1>2. \A b \in Beneficiaries : none[b] <= Entitled(b, r)
  BY <1>1, EntitledType, SMT
<1>. QED  BY <1>1, <1>2, WithheldCovers

\* The denominator of redemption, part by part.
LEMMA DenominatorParts == EndTypeOK => Denominator
<1>. SUFFICES ASSUME EndTypeOK PROVE Denominator
  OBVIOUS
<1>1. arm \in [Holders \cup Contracts -> Nat] /\ maxObservedRevenue \in Nat
  BY DEF EndTypeOK, CounterTypeOK
<1>2. ArmStillOwed \in Nat
  BY OwedType, SMT DEF ArmStillOwed
<1>3. TotalAllocation \in Nat /\ Locked \in 0..TotalAllocation
  <2>. DEFINE q == (TotalAllocation * UnlockBps(maxObservedRevenue)) \div FullBps
  <2>1. TotalAllocation \in Nat /\ q \in 0..TotalAllocation
    BY <1>1, WithheldType
  <2>2. Locked = TotalAllocation - q
    BY DEF Locked
  <2>. HIDE DEF q
  <2>. QED  BY <2>1, <2>2, SMT
<1>4. /\ SumOver(arm, Holders) \in Nat
      /\ SumOver(arm, Holders \cup Contracts)
            = SumOver(arm, Holders) + (arm["treasury"] + arm["lock"] + arm["sale"])
                 + arm["redemption"]
  BY <1>1, SumOfAccounts
<1>5. /\ arm["treasury"] \in Nat /\ arm["lock"] \in Nat /\ arm["sale"] \in Nat
      /\ arm["redemption"] \in Nat
  BY <1>1 DEF Contracts
<1>. DEFINE t == arm["treasury"]
            l == arm["lock"]
            s == arm["sale"]
            r == arm["redemption"]
            h == SumOver(arm, Holders)
            all == SumOver(arm, Holders \cup Contracts)
            owed == ArmStillOwed
            k == Locked
<1>6. CirculatingSupply = all - t - r - k - Higher(s - owed, 0)
  BY DEF CirculatingSupply
<1>7. Circulating(arm, owed, k) = h + (l - k) + Lower(s, owed)
  BY DEF Circulating
<1>8. /\ {t, l, s, r, h, owed} \subseteq Nat /\ all = h + (t + l + s) + r
      /\ k \in Int
  BY <1>2, <1>3, <1>4, <1>5, SMT
<1>. HIDE DEF t, l, s, r, h, all, owed, k
<1>9. CirculatingSupply = Circulating(arm, owed, k)
  BY <1>6, <1>7, <1>8, SMT DEF Higher, Lower
<1>. QED  BY <1>2, <1>3, <1>4, <1>9 DEF Denominator, owed, k

LockCovers == arm["lock"] >= TotalAllocation - SumOver(released, Beneficiaries)

\* The lock holds what it withholds, so that the denominator covers all the holders have.
LEMMA DenominatorCovers ==
    ASSUME EndTypeOK, LockCovers, RatchetIsPaced
    PROVE  /\ CirculatingSupply \in Nat
           /\ HeldByHolders \in Nat /\ HeldByHolders <= CirculatingSupply
<1>. DEFINE q == (TotalAllocation * UnlockBps(maxObservedRevenue)) \div FullBps
            p == SumOver(released, Beneficiaries)
<1>1. Denominator /\ arm["lock"] \in Nat /\ arm["sale"] \in Nat
  BY DenominatorParts DEF EndTypeOK, Contracts
<1>2. TotalAllocation \in Nat /\ p \in Nat /\ q \in 0..TotalAllocation /\ p <= q
  BY WithheldCovers DEF EndTypeOK, CounterTypeOK, RatchetIsPaced
<1>3. Locked = TotalAllocation - q /\ arm["lock"] >= TotalAllocation - p
  BY DEF Locked, LockCovers
<1>. HIDE DEF p, q
<1>4. arm["lock"] - Locked \in Nat
  BY <1>1, <1>2, <1>3, SMT
<1>5. Lower(arm["sale"], ArmStillOwed) \in Nat
  BY <1>1, SMT DEF Lower, Denominator
<1>. QED  BY <1>1, <1>4, <1>5, SMT DEF Denominator, Circulating, HeldByHolders

-----------------------------------------------------------------------------
(* What a transfer of ARM changes *)

\* What a movement of n adds to the holders: what they receive less what they give.
Into(x, n) == IF x \in Holders THEN n ELSE 0

\* A transfer takes from one account what it gives to another.
LEMMA MoveEffect ==
    ASSUME arm \in [Holders \cup Contracts -> Nat], NEW n \in Nat,
           NEW from \in Holders \cup Contracts, NEW to \in Holders \cup Contracts,
           Move(from, to, n)
    PROVE  /\ arm' \in [Holders \cup Contracts -> Nat]
           /\ n <= arm[from] /\ from # to
           /\ arm'[from] = arm[from] - n /\ arm'[to] = arm[to] + n
           /\ \A x \in (Holders \cup Contracts) \ {from, to} : arm'[x] = arm[x]
           /\ HeldByHolders \in Nat /\ HeldByHolders' \in Nat
           /\ HeldByHolders' + Into(from, n) = HeldByHolders + Into(to, n)
<1>. DEFINE T == Holders \cup Contracts
            mid == [arm EXCEPT ![from] = @ - n]
<1>1. /\ arm[from] \in Nat /\ arm[to] \in Nat /\ n <= arm[from] /\ from # to
      /\ arm' = [arm EXCEPT ![from] = @ - n, ![to] = @ + n]
  BY DEF Move
<1>2. arm[from] - n \in Nat /\ arm[to] + n \in Nat
  BY <1>1, SMT
<1>3. /\ arm' \in [T -> Nat]
      /\ arm'[from] = arm[from] - n /\ arm'[to] = arm[to] + n
      /\ \A x \in T \ {from, to} : arm'[x] = arm[x]
  BY <1>1, <1>2
<1>4. /\ mid \in [T -> Nat] /\ mid[from] = arm[from] - n
      /\ \A x \in T \ {from} : mid[x] = arm[x]
  BY <1>2
<1>. HIDE DEF mid
<1>5. \A x \in T \ {to} : arm'[x] = mid[x]
  BY <1>1, <1>3, <1>4
<1>6. mid[to] = arm[to]
  BY <1>1, <1>4
<1>7. Holders \in SUBSET T /\ IsFiniteSet(Holders)
  BY EndAssumption
<1>. HIDE DEF T
<1>8. /\ SumOver(arm, Holders) \in Nat /\ SumOver(mid, Holders) \in Nat
      /\ SumOver(arm', Holders) \in Nat
  BY <1>3, <1>4, <1>7, SumType DEF T
<1>9. SumOver(mid, Holders) + Into(from, n) = SumOver(arm, Holders)
  <2>1. CASE from \in Holders
    <3>1. SumOver(mid, Holders) + arm[from] = SumOver(arm, Holders) + mid[from]
      BY <1>4, <1>7, <2>1, SumUpdate DEF T
    <3>. QED  BY <1>1, <1>4, <1>8, <2>1, <3>1, SMT DEF Into
  <2>2. CASE from \notin Holders
    <3>1. \A x \in Holders : mid[x] = arm[x]
      BY <1>4, <1>7, <2>2
    <3>2. SumOver(mid, Holders) = SumOver(arm, Holders)
      BY <3>1, SumCongruence
    <3>. QED  BY <1>8, <2>2, <3>2, SMT DEF Into
  <2>. QED  BY <2>1, <2>2
<1>10. SumOver(arm', Holders) = SumOver(mid, Holders) + Into(to, n)
  <2>1. CASE to \in Holders
    <3>1. SumOver(arm', Holders) + mid[to] = SumOver(mid, Holders) + arm'[to]
      BY <1>3, <1>4, <1>5, <1>7, <2>1, SumUpdate
    <3>. QED  BY <1>1, <1>3, <1>6, <1>8, <2>1, <3>1, SMT DEF Into
  <2>2. CASE to \notin Holders
    <3>1. \A x \in Holders : arm'[x] = mid[x]
      BY <1>5, <1>7, <2>2
    <3>2. SumOver(arm', Holders) = SumOver(mid, Holders)
      BY <3>1, SumCongruence
    <3>. QED  BY <1>8, <2>2, <3>2, SMT DEF Into
  <2>. QED  BY <2>1, <2>2
<1>11. Into(from, n) \in Nat /\ Into(to, n) \in Nat
  BY DEF Into
<1>12. SumOver(arm', Holders) + Into(from, n) = SumOver(arm, Holders) + Into(to, n)
  BY <1>8, <1>9, <1>10, <1>11, SMT
<1>. QED  BY <1>1, <1>3, <1>8, <1>12 DEF HeldByHolders, T

\* Who may pay ARM besides the lock.
Payers == Holders \cup {"treasury", "sale"}

\* The steps as the balances of ARM see them.
LEMMA StepsOfArm ==
    ASSUME EndTypeOK, [EndNext]_endVars
    PROVE  \/ arm' = arm /\ released' = released
           \/ \E b \in Beneficiaries : ReleaseArm(b)
           \/ /\ released' = released
              /\ \E from \in Payers, to \in Holders \cup Contracts, n \in Nat : Move(from, to, n)
<1>0. /\ ArmInputs \subseteq Nat /\ Bought \in [Holders -> Nat]
      /\ {"treasury", "sale", "redemption"} \subseteq Contracts
      /\ Holders \subseteq Payers /\ "treasury" \in Payers /\ "sale" \in Payers
  BY EndAssumption DEF Contracts, Payers
<1>1. CASE RevenueStep
  BY <1>1 DEF RevenueStep, Outside, releaseVars, SyncObservedRevenue, Activate
<1>2. CASE \E b \in Beneficiaries : ReleaseArm(b)
  BY <1>2
<1>3. CASE \E outcome \in {"Sold", "Refunded"} : FinalizeSale(outcome)
  BY <1>3 DEF FinalizeSale, releaseVars
<1>4. CASE \E h \in Holders : ClaimArm(h)
  <2>1. PICK h \in Holders : ClaimArm(h)
    BY <1>4
  <2>2. Move("sale", h, Bought[h]) /\ released' = released /\ Bought[h] \in Nat
    BY <1>0, <2>1 DEF ClaimArm, releaseVars
  <2>. QED  BY <1>0, <2>2
<1>5. CASE WithdrawUnallocatedArm
  <2>1. /\ Move("sale", "treasury", arm["sale"] - ArmStillOwed) /\ released' = released
        /\ arm["sale"] > ArmStillOwed
    BY <1>5 DEF WithdrawUnallocatedArm, releaseVars
  <2>2. arm["sale"] \in Nat /\ ArmStillOwed \in Nat
    BY <1>0, DenominatorParts DEF EndTypeOK, Denominator
  <2>3. arm["sale"] - ArmStillOwed \in Nat
    BY <2>1, <2>2, SMT
  <2>. QED  BY <1>0, <2>1, <2>3
<1>6. CASE EndGovernance
  <2>1. CASE GovernanceCredits
    BY <2>1 DEF GovernanceCredits, releaseVars
  <2>2. CASE \E t \in Thresholds \ {threshold} : SetRevenueThreshold(t)
    BY <2>2 DEF SetRevenueThreshold, releaseVars
  <2>3. CASE \E d \in Deadlines \ {deadline} : SetWindDownDeadline(d)
    BY <2>3 DEF SetWindDownDeadline, releaseVars
  <2>4. CASE SetTransferable
    BY <2>4 DEF SetTransferable, releaseVars
  <2>5. CASE \E h \in Holders, n \in ArmInputs : DistributeArm(h, n)
    <3>1. PICK h \in Holders, n \in ArmInputs : DistributeArm(h, n)
      BY <2>5
    <3>2. Move("treasury", h, n) /\ released' = released /\ n \in Nat
      BY <1>0, <3>1 DEF DistributeArm, releaseVars
    <3>. QED  BY <1>0, <3>2
  <2>6. CASE GovernanceTriggerWindDown
    BY <2>6 DEF GovernanceTriggerWindDown, ExecuteWindDown, releaseVars
  <2>. QED  BY <1>6, <2>1, <2>2, <2>3, <2>4, <2>5, <2>6 DEF EndGovernance
<1>7. CASE TriggerWindDown
  BY <1>7 DEF TriggerWindDown, ExecuteWindDown, releaseVars
<1>8. CASE \E a \in Assets : Sweep(a)
  BY <1>8 DEF Sweep, releaseVars
<1>9. CASE \E h \in Holders, n \in ArmInputs :
              \E tokens \in SUBSET (Assets \ {"eth"}) : Redeem(h, n, tokens)
  <2>1. PICK h \in Holders, n \in ArmInputs : Move(h, "redemption", n) /\ released' = released
    BY <1>9 DEF Redeem, releaseVars
  <2>. QED  BY <1>0, <2>1
<1>10. CASE \E h \in Holders, n \in ArmInputs :
              \E to \in Holders \cup Contracts : Send(h, to, n)
  <2>1. PICK h \in Holders, n \in ArmInputs, to \in Holders \cup Contracts :
           Move(h, to, n) /\ released' = released
    BY <1>10 DEF Send, releaseVars
  <2>. QED  BY <1>0, <2>1
<1>11. CASE NextDay
  BY <1>11 DEF NextDay, releaseVars, Outside
<1>12. CASE UNCHANGED endVars
  BY <1>12 DEF endVars, releaseVars
<1>. QED
  BY <1>1, <1>2, <1>3, <1>4, <1>5, <1>6, <1>7, <1>8, <1>9, <1>10, <1>11, <1>12, Zenon
  DEF EndNext

\* The accounts that pay, the lock not among them.
LEMMA PayersAre ==
    Payers \subseteq Holders \cup Contracts /\ "lock" \notin Payers
  BY EndAssumption DEF Payers, Contracts

\* No balance is overdrawn, and the lock keeps what it has not released.
LEMMA LockKeeps ==
    ASSUME EndTypeOK, CounterInv, LockCovers, [EndNext]_endVars
    PROVE  arm' \in [Holders \cup Contracts -> Nat] /\ LockCovers'
<1>0. /\ arm \in [Holders \cup Contracts -> Nat] /\ "lock" \in Contracts /\ arm["lock"] \in Nat
      /\ released \in [Beneficiaries -> Nat]
      /\ IsFiniteSet(Beneficiaries) /\ Beneficiaries \subseteq Holders
      /\ Holders \cap Contracts = {}
  BY LockAssumption, EndAssumption DEF EndTypeOK, CounterTypeOK, Contracts
<1>1. TotalAllocation \in Nat /\ SumOver(released, Beneficiaries) \in Nat
  <2>1. TotalAllocation \in Nat
    BY DenominatorParts DEF Denominator
  <2>2. SumOver(released, Beneficiaries) \in Nat
    BY <1>0, SumType
  <2>. QED  BY <2>1, <2>2
<1>2. arm["lock"] >= TotalAllocation - SumOver(released, Beneficiaries)
  BY DEF LockCovers
<1>3. CASE arm' = arm /\ released' = released
  BY <1>0, <1>2, <1>3 DEF LockCovers, TotalAllocation
<1>4. CASE /\ released' = released
           /\ \E from \in Payers, to \in Holders \cup Contracts, n \in Nat : Move(from, to, n)
  <2>1. PICK from \in Payers, to \in Holders \cup Contracts, n \in Nat : Move(from, to, n)
    BY <1>4
  <2>2. from \in Holders \cup Contracts /\ from # "lock"
    BY PayersAre
  <2>3. /\ arm' \in [Holders \cup Contracts -> Nat]
        /\ arm'[to] = arm[to] + n
        /\ \A x \in (Holders \cup Contracts) \ {from, to} : arm'[x] = arm[x]
    BY <1>0, <2>1, <2>2, MoveEffect
  <2>4. arm'["lock"] \in Nat /\ arm'["lock"] >= arm["lock"]
    <3>1. CASE to = "lock"
      BY <1>0, <2>3, <3>1, SMT
    <3>2. CASE to # "lock"
      BY <1>0, <2>2, <2>3, <3>2, SMT
    <3>. QED  BY <3>1, <3>2
  <2>5. arm'["lock"] >= TotalAllocation - SumOver(released, Beneficiaries)
    BY <1>0, <1>1, <1>2, <2>4, SMT
  <2>. QED  BY <1>4, <2>3, <2>5 DEF LockCovers, TotalAllocation
<1>5. CASE \E b \in Beneficiaries : ReleaseArm(b)
  <2>1. PICK b \in Beneficiaries : ReleaseArm(b)
    BY <1>5
  <2>2. Release(b) /\ Move("lock", b, Releasable(b)) /\ UNCHANGED <<day, counterVars>>
    BY <2>1 DEF ReleaseArm
  <2>. DEFINE n == Releasable(b)
  <2>3. /\ n \in Nat /\ released' \in [Beneficiaries -> Nat]
        /\ released'[b] = released[b] + n
        /\ \A c \in Beneficiaries \ {b} : released'[c] = released[c]
    BY <2>2, ReleasingPays
  <2>. HIDE DEF n
  <2>4. b \in Holders \cup Contracts /\ "lock" \in Holders \cup Contracts
    BY <1>0
  <2>5. /\ arm' \in [Holders \cup Contracts -> Nat] /\ n <= arm["lock"]
        /\ arm'["lock"] = arm["lock"] - n
    BY <1>0, <2>2, <2>3, <2>4, MoveEffect DEF n
  <2>6. SumOver(released', Beneficiaries) + released[b]
           = SumOver(released, Beneficiaries) + released'[b]
    BY <1>0, <2>3, SumUpdate
  <2>7. SumOver(released', Beneficiaries) \in Nat /\ released[b] \in Nat
    BY <1>0, <2>3, SumType
  <2>8. SumOver(released', Beneficiaries) = SumOver(released, Beneficiaries) + n
    BY <1>1, <2>3, <2>6, <2>7, SMT
  <2>9. arm'["lock"] >= TotalAllocation - SumOver(released', Beneficiaries)
    BY <1>0, <1>1, <1>2, <2>3, <2>5, <2>8, SMT
  <2>. QED  BY <2>5, <2>9 DEF LockCovers, TotalAllocation
<1>. QED  BY <1>3, <1>4, <1>5, StepsOfArm, Zenon

-----------------------------------------------------------------------------
(* Redemption *)

\* A share rounded down leaves those who stay no less for each of their units.
LEMMA ShareLeaves ==
    ASSUME NEW p \in Nat, NEW n \in Nat, NEW c \in Nat, c > 0, n <= c
    PROVE  /\ (p * n) \div c \in 0..p
           /\ p * (c - n) <= (p - (p * n) \div c) * c
<1>. DEFINE s == (p * n) \div c
<1>1. p * n \in Nat /\ p * c \in Nat /\ p * n <= p * c
  BY SMT
<1>2. c \in Nat \ {0}
  BY SMT
<1>3. s \in Nat /\ s * c <= p * n
  BY <1>1, <1>2, DivBounds
<1>4. (p * c) \div c = p
  BY <1>2, SMT
<1>5. s <= p
  BY <1>1, <1>2, <1>4, DivMonotone
<1>. HIDE DEF s
<1>6. s \in 0..p
  BY <1>3, <1>5, SMT
<1>7. p * (c - n) = p * c - p * n /\ (p - s) * c = p * c - s * c /\ s * c \in Nat
  BY <1>3, SMT
<1>8. p * (c - n) <= (p - s) * c
  BY <1>1, <1>3, <1>7, SMT
<1>. QED  BY <1>6, <1>8 DEF s

\* Wind-down has ended governance and frozen the counter and the ratchet.
Ended == triggered => windDownActive /\ frozen /\ frozenAtWindDown

EndInv == EndTypeOK /\ CounterInv /\ LockCovers /\ Ended

\* A holder holds no more than all holders do.
LEMMA HeldBy ==
    ASSUME EndTypeOK, NEW h \in Holders
    PROVE  arm[h] \in Nat /\ arm[h] <= HeldByHolders
<1>1. IsFiniteSet(Holders) /\ Holders \in SUBSET (Holders \cup Contracts)
  BY EndAssumption
<1>2. arm \in [Holders \cup Contracts -> Nat]
  BY DEF EndTypeOK
<1>3. SumOver(arm, Holders) = SumOver(arm, Holders \ {h}) + arm[h]
  BY <1>1, <1>2, SumWithout
<1>4. IsFiniteSet(Holders \ {h}) /\ Holders \ {h} \in SUBSET (Holders \cup Contracts)
  BY <1>1, FS_Subset
<1>5. SumOver(arm, Holders \ {h}) \in Nat
  BY <1>2, <1>4, SumType
<1>6. arm[h] \in Nat
  BY <1>2
<1>. QED  BY <1>3, <1>5, <1>6, SMT DEF HeldByHolders

\* A redemption pays out of the pool what rounds down to the redeemer's part.
LEMMA RedeemLeaves ==
    ASSUME EndInv, NEW h \in Holders, NEW n \in ArmInputs, NEW tokens, Redeem(h, n, tokens)
    PROVE  /\ pool' \in [Assets -> Nat] /\ n <= CirculatingSupply
           /\ \A a \in Assets : pool[a] * (CirculatingSupply - n) <= pool'[a] * CirculatingSupply
<1>. DEFINE c == CirculatingSupply
<1>1. c \in Nat /\ c > 0 /\ HeldByHolders \in Nat /\ HeldByHolders <= c
  BY DenominatorCovers DEF EndInv, CounterInv, Redeem
<1>2. n \in Nat /\ n <= arm[h]
  BY EndAssumption DEF Redeem, Move
<1>3. arm[h] \in Nat /\ arm[h] <= HeldByHolders
  BY HeldBy DEF EndInv
<1>4. n <= c
  BY <1>1, <1>2, <1>3, SMT
<1>5. /\ pool \in [Assets -> Nat]
      /\ pool' = [a \in Assets |->
                     IF a \in Paid(tokens) THEN pool[a] - Share(a, n) ELSE pool[a]]
  BY DEF EndInv, EndTypeOK, Redeem
<1>6. ASSUME NEW a \in Assets
      PROVE  pool'[a] \in Nat /\ pool[a] * (c - n) <= pool'[a] * c
  <2>1. pool[a] \in Nat
    BY <1>5
  <2>2. CASE a \in Paid(tokens)
    <3>1. pool'[a] = pool[a] - (pool[a] * n) \div c
      BY <1>5, <2>2 DEF Share
    <3>. HIDE DEF c
    <3>2. /\ (pool[a] * n) \div c \in 0..pool[a]
          /\ pool[a] * (c - n) <= (pool[a] - (pool[a] * n) \div c) * c
      BY <1>1, <1>2, <1>4, <2>1, ShareLeaves
    <3>3. pool[a] - (pool[a] * n) \div c \in Nat
      BY <2>1, <3>2, SMT
    <3>. QED  BY <3>1, <3>2, <3>3
  <2>3. CASE a \notin Paid(tokens)
    <3>1. pool'[a] = pool[a]
      BY <1>5, <2>3
    <3>. HIDE DEF c
    <3>2. pool[a] * (c - n) <= pool[a] * c
      BY <1>1, <1>2, <1>4, <2>1, SMT
    <3>. QED  BY <2>1, <3>1, <3>2
  <2>. QED  BY <2>2, <2>3
<1>7. pool' \in [Assets -> Nat]
  BY <1>5, <1>6
<1>. QED  BY <1>4, <1>6, <1>7

\* The invariant holds initially.
LEMMA EndInvInit ==
    ASSUME EndInit
    PROVE  EndInv
<1>1. CounterInv
  BY CounterInit
<1>2. Supply \in [Contracts \ {"redemption"} -> Nat] /\ Supply["lock"] >= TotalAllocation
  BY EndAssumption
<1>3. arm \in [Holders \cup Contracts -> Nat] /\ arm["lock"] = Supply["lock"]
  BY <1>2, EndAssumption DEF EndInit, Contracts
<1>4. EndTypeOK
  <2>1. treasuryHas \in [Assets -> Nat] /\ pool \in [Assets -> Nat]
    BY EndAssumption DEF EndInit
  <2>2. /\ {claimDeadline, threshold, deadline, triggerTime} \subseteq Nat
        /\ {transferable, triggered, windDownActive} \subseteq BOOLEAN
        /\ sale \in {"Active", "Sold", "Refunded"} /\ claimed \subseteq Holders
    <3>1. threshold \in Nat /\ deadline \in Nat
      BY EndAssumption DEF EndInit
    <3>. QED  BY <3>1, 0 \in Nat, Zenon DEF EndInit
  <2>. QED  BY <1>1, <1>3, <2>1, <2>2 DEF EndTypeOK, CounterInv
<1>5. LockCovers
  <2>1. \A b \in Beneficiaries : released[b] = 0
    BY DEF EndInit, RevenueInit
  <2>2. SumOver(released, Beneficiaries) = 0
    BY <2>1, SumOfZeros
  <2>3. TotalAllocation \in Nat /\ Supply["lock"] \in Nat
    BY <1>2, <1>4, DenominatorParts DEF Denominator, Contracts
  <2>. QED  BY <1>2, <1>3, <2>2, <2>3, SMT DEF LockCovers
<1>6. Ended
  BY DEF EndInit, Ended
<1>. QED  BY <1>1, <1>4, <1>5, <1>6 DEF EndInv

\* The types of what is neither revenue nor a balance of ARM.
Sides ==
    /\ sale \in {"Active", "Sold", "Refunded"} /\ claimed \subseteq Holders
    /\ {claimDeadline, threshold, deadline, triggerTime} \subseteq Nat
    /\ {transferable, triggered, windDownActive} \subseteq BOOLEAN
    /\ treasuryHas \in [Assets -> Nat] /\ pool \in [Assets -> Nat]

\* Every step keeps the types, the lock covered and the freeze in place.
LEMMA SidesInductive ==
    ASSUME EndInv, [EndNext]_endVars
    PROVE  Sides' /\ Ended'
<1>0. /\ Sides /\ Ended /\ day \in Nat
      /\ {ClaimPeriod, Proceeds} \subseteq Nat
      /\ Thresholds \subseteq Nat /\ Deadlines \subseteq Nat
  BY EndAssumption DEF EndInv, EndTypeOK, CounterTypeOK, Sides
<1>. USE DEF saleVars, triggerVars, assetVars
<1>1. CASE RevenueStep
  <2>1. UNCHANGED <<saleVars, triggerVars, assetVars, transferable, frozenAtWindDown, frozen>>
    BY <1>1 DEF RevenueStep, Outside, ratchetVars, counterVars, SyncObservedRevenue, Activate,
                CollectFees, SyncStablecoinRevenue
  <2>. QED  BY <1>0, <2>1 DEF Sides, Ended
<1>2. CASE \E b \in Beneficiaries : ReleaseArm(b)
  <2>1. UNCHANGED <<saleVars, triggerVars, assetVars, transferable, frozenAtWindDown, frozen>>
    BY <1>2 DEF ReleaseArm, Release, counterVars
  <2>. QED  BY <1>0, <2>1 DEF Sides, Ended
<1>3. ASSUME NEW outcome \in {"Sold", "Refunded"}, FinalizeSale(outcome)
      PROVE  Sides' /\ Ended'
  <2>1. /\ claimDeadline' \in Nat /\ sale' \in {"Active", "Sold", "Refunded"}
        /\ UNCHANGED <<claimed, triggerVars, pool, transferable, frozenAtWindDown, frozen>>
    BY <1>0, <1>3 DEF FinalizeSale, ratchetVars, counterVars
  <2>2. treasuryHas' \in [Assets -> Nat]
    <3>1. CASE treasuryHas' = treasuryHas
      BY <1>0, <3>1 DEF Sides
    <3>2. CASE treasuryHas' = [treasuryHas EXCEPT !["usdc"] = @ + Proceeds]
      <4>1. treasuryHas \in [Assets -> Nat] /\ Proceeds \in Nat
        BY <1>0 DEF Sides
      <4>2. ASSUME "usdc" \in Assets PROVE treasuryHas["usdc"] + Proceeds \in Nat
        <5>1. treasuryHas["usdc"] \in Nat
          BY <4>1, <4>2
        <5>. QED  BY <4>1, <5>1, SMT
      <4>. QED  BY <3>2, <4>1, <4>2
    <3>. QED  BY <1>3, <3>1, <3>2 DEF FinalizeSale
  <2>. QED  BY <1>0, <2>1, <2>2 DEF Sides, Ended
<1>4. ASSUME NEW h \in Holders, ClaimArm(h)
      PROVE  Sides' /\ Ended'
  <2>1. /\ claimed' \subseteq Holders
        /\ UNCHANGED <<sale, claimDeadline, triggerVars, assetVars, transferable,
                       frozenAtWindDown, frozen>>
    BY <1>0, <1>4 DEF ClaimArm, Sides, ratchetVars, counterVars
  <2>. QED  BY <1>0, <2>1 DEF Sides, Ended
<1>5. CASE WithdrawUnallocatedArm
  <2>1. UNCHANGED <<saleVars, triggerVars, assetVars, transferable, frozenAtWindDown, frozen>>
    BY <1>5 DEF WithdrawUnallocatedArm, ratchetVars, counterVars
  <2>. QED  BY <1>0, <2>1 DEF Sides, Ended
<1>6. CASE TriggerWindDown \/ GovernanceTriggerWindDown
  <2>1. /\ triggered' = TRUE /\ triggerTime' = day /\ frozen' = TRUE /\ frozenAtWindDown' = TRUE
        /\ transferable' = TRUE /\ windDownActive' = TRUE
        /\ UNCHANGED <<saleVars, threshold, deadline, assetVars>>
    BY <1>6 DEF TriggerWindDown, GovernanceTriggerWindDown, ExecuteWindDown
  <2>. QED  BY <1>0, <2>1 DEF Sides, Ended
<1>7. CASE EndGovernance
  <2>0. ~windDownActive /\ ~triggered
    BY <1>0, <1>7 DEF EndGovernance, Ended
  <2>1. CASE GovernanceCredits
    BY <1>0, <2>0, <2>1 DEF GovernanceCredits, Sides, Ended
  <2>2. ASSUME NEW t \in Thresholds \ {threshold}, SetRevenueThreshold(t)
        PROVE  Sides' /\ Ended'
    BY <1>0, <2>0, <2>2 DEF SetRevenueThreshold, Sides, Ended
  <2>3. ASSUME NEW d \in Deadlines \ {deadline}, SetWindDownDeadline(d)
        PROVE  Sides' /\ Ended'
    BY <1>0, <2>0, <2>3 DEF SetWindDownDeadline, Sides, Ended
  <2>4. CASE SetTransferable
    BY <1>0, <2>0, <2>4 DEF SetTransferable, Sides, Ended
  <2>5. ASSUME NEW h \in Holders, NEW n \in ArmInputs, DistributeArm(h, n)
        PROVE  Sides' /\ Ended'
    BY <1>0, <2>0, <2>5 DEF DistributeArm, Sides, Ended
  <2>. QED  BY <1>6, <1>7, <2>1, <2>2, <2>3, <2>4, <2>5 DEF EndGovernance
<1>8. ASSUME NEW a \in Assets, Sweep(a)
      PROVE  Sides' /\ Ended'
  <2>1. /\ pool[a] \in Nat /\ treasuryHas[a] \in Nat
        /\ pool \in [Assets -> Nat] /\ treasuryHas \in [Assets -> Nat]
    BY <1>0 DEF Sides
  <2>2. pool[a] + treasuryHas[a] \in Nat /\ 0 \in Nat
    BY <2>1, SMT
  <2>3. pool' \in [Assets -> Nat] /\ treasuryHas' \in [Assets -> Nat]
    BY <1>8, <2>1, <2>2 DEF Sweep
  <2>4. UNCHANGED <<saleVars, triggerVars, transferable, frozenAtWindDown, frozen>>
    BY <1>8 DEF Sweep, ratchetVars, counterVars
  <2>. QED  BY <1>0, <2>3, <2>4 DEF Sides, Ended
<1>9. ASSUME NEW h \in Holders, NEW n \in ArmInputs,
             NEW tokens \in SUBSET (Assets \ {"eth"}), Redeem(h, n, tokens)
      PROVE  Sides' /\ Ended'
  <2>1. pool' \in [Assets -> Nat]
    BY <1>9, RedeemLeaves
  <2>2. UNCHANGED <<saleVars, triggerVars, treasuryHas, transferable, frozenAtWindDown, frozen>>
    BY <1>9 DEF Redeem, ratchetVars, counterVars
  <2>. QED  BY <1>0, <2>1, <2>2 DEF Sides, Ended
<1>10. ASSUME NEW h \in Holders, NEW n \in ArmInputs, NEW to \in Holders \cup Contracts,
              Send(h, to, n)
       PROVE  Sides' /\ Ended'
  <2>1. UNCHANGED <<saleVars, triggerVars, assetVars, transferable, frozenAtWindDown, frozen>>
    BY <1>10 DEF Send, ratchetVars, counterVars
  <2>. QED  BY <1>0, <2>1 DEF Sides, Ended
<1>11. CASE NextDay
  <2>1. UNCHANGED <<saleVars, triggerVars, assetVars, transferable, frozenAtWindDown, frozen>>
    BY <1>11 DEF NextDay, Outside, ratchetVars, counterVars
  <2>. QED  BY <1>0, <2>1 DEF Sides, Ended
<1>12. CASE UNCHANGED endVars
  <2>1. UNCHANGED <<saleVars, triggerVars, assetVars, transferable, frozenAtWindDown, frozen>>
    BY <1>12 DEF endVars, ratchetVars, counterVars
  <2>. QED  BY <1>0, <2>1 DEF Sides, Ended
<1>. QED
  BY <1>1, <1>2, <1>3, <1>4, <1>5, <1>6, <1>7, <1>8, <1>9, <1>10, <1>11, <1>12, Zenon
  DEF EndNext

\* Every step keeps the invariant.
LEMMA EndInductive ==
    ASSUME EndInv, [EndNext]_endVars
    PROVE  EndInv'
<1>1. CounterInv'
  BY CounterInductive DEF EndInv
<1>2. arm' \in [Holders \cup Contracts -> Nat] /\ LockCovers'
  BY LockKeeps DEF EndInv
<1>3. Sides' /\ Ended'
  BY SidesInductive
<1>4. EndTypeOK'
  BY <1>1, <1>2, <1>3 DEF EndTypeOK, CounterInv, Sides
<1>. QED  BY <1>1, <1>2, <1>3, <1>4 DEF EndInv

\* It holds in every reachable state.
LEMMA EndInvariant == EndSpec => []EndInv
<1>1. EndInit => EndInv
  BY EndInvInit
<1>2. EndInv /\ [EndNext]_endVars => EndInv'
  BY EndInductive
<1>. QED  BY <1>1, <1>2, PTL DEF EndSpec

(***************************************************************************)
(* For every set of collectors, beneficiaries, milestones and accounts:    *)
(* no fee counts twice and none is dropped unless an attestation was       *)
(* overtaken, the ratchet is paced, the lock holds all it has              *)
(* not released and the denominator of redemption never underflows.        *)
(***************************************************************************)
THEOREM RevenueEarned == EndSpec => []RevenueIsEarned
<1>1. EndInv => RevenueIsEarned
  <2>. SUFFICES ASSUME EndInv PROVE RevenueIsEarned
    OBVIOUS
  <2>1. EndTypeOK /\ FeesCountedOnce /\ RatchetIsPaced /\ LockCovers
    BY DEF EndInv, CounterInv
  <2>2. CirculatingSupply >= 0
    BY <2>1, DenominatorCovers, SMT
  <2>. QED  BY <2>1, <2>2 DEF RevenueIsEarned, LockCovers
<1>. QED  BY <1>1, EndInvariant, PTL

-----------------------------------------------------------------------------
(* Redemption is fair *)

\* After wind-down what the revenue unlocks and what was recognised stay put.
LEMMA RevenueIsFixed ==
    ASSUME EndInv, triggered, [EndNext]_endVars
    PROVE  /\ recognizedRevenueUsd' = recognizedRevenueUsd
           /\ maxObservedRevenue' = maxObservedRevenue
           /\ Locked' = Locked
<1>1. frozen /\ frozenAtWindDown /\ windDownActive
  BY DEF EndInv, Ended
<1>2. recognizedRevenueUsd' = recognizedRevenueUsd /\ maxObservedRevenue' = maxObservedRevenue
  <2>1. CASE RevenueStep
    BY <1>1, <2>1 DEF RevenueStep, CollectFees, SyncStablecoinRevenue, SyncSucceeds,
                      SyncObservedRevenue, UpdateMaxObservedRevenue, CappedObservedRevenue,
                      Activate, ratchetVars, counterVars
  <2>2. CASE \E b \in Beneficiaries : ReleaseArm(b)
    BY <1>1, <2>2 DEF ReleaseArm, Release, UpdateMaxObservedRevenue, CappedObservedRevenue,
                      counterVars
  <2>3. CASE EndGovernance \/ TriggerWindDown
    BY <1>1, <2>3 DEF EndGovernance, TriggerWindDown
  <2>4. CASE UNCHANGED <<counterVars, ratchetVars>>
    BY <2>4 DEF counterVars, ratchetVars
  <2>5. ASSUME \/ \E outcome \in {"Sold", "Refunded"} : FinalizeSale(outcome)
               \/ \E h \in Holders : ClaimArm(h)
               \/ WithdrawUnallocatedArm
               \/ \E a \in Assets : Sweep(a)
               \/ \E h \in Holders, n \in ArmInputs :
                     \/ \E tokens \in SUBSET (Assets \ {"eth"}) : Redeem(h, n, tokens)
                     \/ \E to \in Holders \cup Contracts : Send(h, to, n)
               \/ NextDay
               \/ UNCHANGED endVars
        PROVE  UNCHANGED <<counterVars, ratchetVars>>
    BY <2>5 DEF FinalizeSale, ClaimArm, WithdrawUnallocatedArm, Sweep, Redeem, Send, NextDay,
                endVars
  <2>. QED  BY <2>1, <2>2, <2>3, <2>4, <2>5, Zenon DEF EndNext
<1>3. Locked' = Locked
  BY <1>2 DEF Locked, TotalAllocation
<1>. QED  BY <1>2, <1>3

\* The lower of two amounts, when one or both of them change.
LEMMA LowerFacts ==
    ASSUME NEW s \in Nat, NEW o \in Nat
    PROVE  /\ Lower(s, o) \in Nat
           /\ o < s => Lower(s, o) = o
           /\ \A n \in Nat : n <= s /\ n <= o => Lower(s - n, o - n) = Lower(s, o) - n
           /\ \A n \in Nat : /\ Lower(s, o) <= Lower(s + n, o)
                             /\ Lower(s + n, o) <= Lower(s, o) + n
           /\ Lower(s, 0) = 0 /\ 0 <= Lower(s, o)
  BY SMT DEF Lower

\* What a step leaves of the denominator, and of the pools behind it.
Fair ==
    /\ \A a \in Assets : pool[a] * CirculatingSupply' <= pool'[a] * CirculatingSupply
    /\ CirculatingSupply' # CirculatingSupply => HeldByHolders' < HeldByHolders \/ day' > day

SupplyIsNat == CirculatingSupply \in Nat

\* The denominator of redemption is a number.
LEMMA Covered == EndInv => SupplyIsNat
  BY DenominatorCovers DEF EndInv, CounterInv, SupplyIsNat

\* A step that takes nothing from the pools and does not raise the denominator is fair.
LEMMA FairIfLower ==
    ASSUME EndInv, EndInv', CirculatingSupply' <= CirculatingSupply,
           CirculatingSupply' # CirculatingSupply => HeldByHolders' < HeldByHolders \/ day' > day,
           \A a \in Assets : pool[a] <= pool'[a]
    PROVE  Fair
<1>1. CirculatingSupply \in Nat
  BY Covered DEF SupplyIsNat
<1>2. CirculatingSupply' \in Nat
  <2>1. SupplyIsNat'
    BY Covered, PTL
  <2>. QED  BY <2>1 DEF SupplyIsNat
<1>3. ASSUME NEW a \in Assets
      PROVE  pool[a] * CirculatingSupply' <= pool'[a] * CirculatingSupply
  <2>1. pool[a] \in Nat /\ pool'[a] \in Nat /\ pool[a] <= pool'[a]
    BY DEF EndInv, EndTypeOK
  <2>. DEFINE c == CirculatingSupply
              d == CirculatingSupply'
              p == pool[a]
              q == pool'[a]
  <2>2. c \in Nat /\ d \in Nat /\ d <= c /\ p \in Nat /\ q \in Nat /\ p <= q
    BY <1>1, <1>2, <2>1
  <2>. HIDE DEF c, d, p, q
  <2>3. p * d <= p * c /\ p * c <= q * c /\ {p * d, p * c, q * c} \subseteq Nat
    BY <2>2, SMT
  <2>4. p * d <= q * c
    BY <2>3, SMT
  <2>. QED  BY <2>4 DEF c, d, p, q
<1>. QED  BY <1>3 DEF Fair

\* Both denominators, taken apart.
Parts(s, s2) ==
    /\ s = HeldByHolders + (arm["lock"] - Locked) + Lower(arm["sale"], ArmStillOwed)
    /\ s2 = HeldByHolders' + (arm["lock"]' - Locked) + Lower(arm["sale"]', ArmStillOwed')
    /\ {s, s2, HeldByHolders, HeldByHolders', Locked, ArmStillOwed, ArmStillOwed'} \subseteq Nat
    /\ {arm["lock"], arm["lock"]', arm["sale"], arm["sale"]'} \subseteq Nat

\* With the lock as it was, the denominator follows its parts.
LEMMA PartsMove ==
    ASSUME EndInv, EndInv', Locked' = Locked
    PROVE  Parts(CirculatingSupply, CirculatingSupply')
<1>1. Denominator /\ SupplyIsNat
  BY DenominatorParts, Covered DEF EndInv
<1>2. (Denominator /\ SupplyIsNat)'
  <2>1. EndTypeOK'
    BY DEF EndInv
  <2>. QED  BY <2>1, DenominatorParts, Covered, PTL
<1>3. CirculatingSupply \in Nat /\ CirculatingSupply' \in Nat
  BY <1>1, <1>2 DEF SupplyIsNat
<1>4. {arm["lock"], arm["lock"]', arm["sale"], arm["sale"]'} \subseteq Nat
  BY DEF EndInv, EndTypeOK, Contracts
<1>5. /\ CirculatingSupply
            = HeldByHolders + (arm["lock"] - Locked) + Lower(arm["sale"], ArmStillOwed)
      /\ {HeldByHolders, ArmStillOwed} \subseteq Nat /\ Locked \in Nat
  BY <1>1, SMT DEF Denominator, Circulating, HeldByHolders
<1>6. /\ CirculatingSupply'
            = HeldByHolders' + (arm["lock"]' - Locked) + Lower(arm["sale"]', ArmStillOwed')
      /\ {HeldByHolders', ArmStillOwed'} \subseteq Nat
  BY <1>2, SMT DEF Denominator, Circulating, HeldByHolders
<1>. QED  BY <1>3, <1>4, <1>5, <1>6 DEF Parts

\* Nothing moves: neither does the denominator.
LEMMA SameSupply ==
    ASSUME EndInv, EndInv', Locked' = Locked, arm' = arm, ArmStillOwed' = ArmStillOwed,
           \A a \in Assets : pool[a] <= pool'[a]
    PROVE  Fair
<1>1. CirculatingSupply' = CirculatingSupply
  BY DEF CirculatingSupply
<1>2. CirculatingSupply \in Nat
  BY Covered DEF SupplyIsNat
<1>3. CirculatingSupply' <= CirculatingSupply
  BY <1>1, <1>2, SMT
<1>. QED  BY <1>1, <1>3, FairIfLower

\* Assets that nobody touched are no less than before.
LEMMA SamePools ==
    ASSUME EndInv, pool' = pool
    PROVE  \A a \in Assets : pool[a] <= pool'[a]
<1>. SUFFICES ASSUME NEW a \in Assets PROVE pool[a] <= pool'[a]
  OBVIOUS
<1>1. pool[a] \in Nat
  BY DEF EndInv, EndTypeOK
<1>. QED  BY <1>1, SMT

\* A claim takes as much from the sale as it takes from what the sale owes.
LEMMA ClaimIsFair ==
    ASSUME EndInv, EndInv', Locked' = Locked, NEW h \in Holders, ClaimArm(h)
    PROVE  Fair
<1>. DEFINE n == Bought[h]
<1>1. /\ Bought \in [Holders -> Nat] /\ n \in Nat /\ IsFiniteSet(Holders)
      /\ h \in Holders \cup Contracts /\ "sale" \in Holders \cup Contracts
      /\ "lock" \in Holders \cup Contracts /\ "lock" # "sale"
      /\ "lock" \notin Holders /\ "sale" \notin Holders
  BY EndAssumption DEF Contracts
<1>2. /\ sale = "Sold" /\ day <= claimDeadline /\ h \notin claimed /\ Move("sale", h, n)
      /\ claimed' = claimed \cup {h} /\ UNCHANGED <<day, sale, claimDeadline, pool>>
  BY DEF ClaimArm, assetVars
<1>3. ArmStillOwed = SumOver(Bought, Holders \ claimed)
  BY <1>2 DEF ArmStillOwed
<1>4. ArmStillOwed' = SumOver(Bought, (Holders \ claimed) \ {h})
  <2>1. Holders \ claimed' = (Holders \ claimed) \ {h}
    BY <1>2
  <2>. QED  BY <1>2, <2>1 DEF ArmStillOwed
<1>5. SumOver(Bought, Holders \ claimed) = SumOver(Bought, (Holders \ claimed) \ {h}) + n
  <2>1. IsFiniteSet(Holders \ claimed) /\ h \in Holders \ claimed
    BY <1>1, <1>2, FS_Subset
  <2>. QED  BY <1>1, <2>1, SumWithout
<1>. HIDE DEF n
<1>6. /\ n <= arm["sale"] /\ arm'["sale"] = arm["sale"] - n
      /\ arm'["lock"] = arm["lock"]
      /\ HeldByHolders' + Into("sale", n) = HeldByHolders + Into(h, n)
  BY <1>1, <1>2, MoveEffect DEF EndInv, EndTypeOK
<1>7. HeldByHolders' = HeldByHolders + n
  <2>1. Parts(CirculatingSupply, CirculatingSupply')
    BY PartsMove
  <2>2. Into("sale", n) = 0 /\ Into(h, n) = n
    BY <1>1 DEF Into
  <2>. QED  BY <1>1, <1>6, <2>1, <2>2, SMT DEF Parts
<1>8. Parts(CirculatingSupply, CirculatingSupply')
  BY PartsMove
<1>9. n <= ArmStillOwed /\ ArmStillOwed' = ArmStillOwed - n
  BY <1>1, <1>3, <1>4, <1>5, <1>8, SMT DEF Parts
<1>10. Lower(arm["sale"]', ArmStillOwed') = Lower(arm["sale"], ArmStillOwed) - n
  <2>1. arm["sale"] \in Nat /\ ArmStillOwed \in Nat
    BY <1>8 DEF Parts
  <2>2. Lower(arm["sale"] - n, ArmStillOwed - n) = Lower(arm["sale"], ArmStillOwed) - n
    BY <1>1, <1>6, <1>9, <2>1, LowerFacts
  <2>. QED  BY <1>6, <1>9, <2>2
<1>11. Lower(arm["sale"], ArmStillOwed) \in Nat
  BY <1>8, LowerFacts DEF Parts
<1>12. CirculatingSupply' = CirculatingSupply
  BY <1>1, <1>6, <1>7, <1>8, <1>10, <1>11, SMT DEF Parts
<1>13. CirculatingSupply' <= CirculatingSupply
  BY <1>8, <1>12, SMT DEF Parts
<1>. QED  BY <1>2, <1>12, <1>13, SamePools, FairIfLower

\* Sweeping what the sale did not sell leaves what it owes.
LEMMA WithdrawalIsFair ==
    ASSUME EndInv, EndInv', Locked' = Locked, WithdrawUnallocatedArm
    PROVE  Fair
<1>. DEFINE n == arm["sale"] - ArmStillOwed
<1>1. Parts(CirculatingSupply, CirculatingSupply')
  BY PartsMove
<1>2. /\ arm["sale"] > ArmStillOwed /\ Move("sale", "treasury", n) /\ pool' = pool
      /\ UNCHANGED <<day, saleVars>>
  BY DEF WithdrawUnallocatedArm, assetVars
<1>3. n \in Nat
  BY <1>1, <1>2, SMT DEF Parts
<1>4. ArmStillOwed' = ArmStillOwed
  BY <1>2 DEF ArmStillOwed, saleVars
<1>5. /\ {"sale", "treasury", "lock"} \subseteq Contracts /\ "lock" # "sale"
      /\ "lock" # "treasury" /\ "sale" \notin Holders /\ "treasury" \notin Holders
  BY EndAssumption DEF Contracts
<1>6. /\ arm'["sale"] = arm["sale"] - n /\ arm'["lock"] = arm["lock"]
      /\ HeldByHolders' + Into("sale", n) = HeldByHolders + Into("treasury", n)
  BY <1>2, <1>3, <1>5, MoveEffect DEF EndInv, EndTypeOK
<1>7. HeldByHolders' = HeldByHolders
  BY <1>1, <1>5, <1>6, SMT DEF Into, Parts
<1>8. arm["sale"]' = ArmStillOwed
  BY <1>1, <1>6, SMT DEF Parts
<1>9. Lower(arm["sale"]', ArmStillOwed') = Lower(arm["sale"], ArmStillOwed)
  BY <1>1, <1>2, <1>4, <1>8, SMT DEF Parts, Lower
<1>10. CirculatingSupply' = CirculatingSupply
  BY <1>1, <1>6, <1>7, <1>9 DEF Parts
<1>11. CirculatingSupply' <= CirculatingSupply
  BY <1>1, <1>10, SMT DEF Parts
<1>. QED  BY <1>2, <1>10, <1>11, SamePools, FairIfLower

\* A release moves ARM that circulates already.
LEMMA ReleaseIsFair ==
    ASSUME EndInv, EndInv', Locked' = Locked, NEW b \in Beneficiaries, ReleaseArm(b)
    PROVE  Fair
<1>. DEFINE n == Releasable(b)
<1>1. Parts(CirculatingSupply, CirculatingSupply')
  BY PartsMove
<1>2. /\ Release(b) /\ Move("lock", b, n) /\ UNCHANGED <<day, counterVars, saleVars, pool>>
  BY DEF ReleaseArm, assetVars
<1>3. n \in Nat
  BY <1>2, ReleasingPays DEF EndInv
<1>4. ArmStillOwed' = ArmStillOwed
  BY <1>2 DEF ArmStillOwed, saleVars
<1>5. /\ {"sale", "lock"} \subseteq Contracts /\ "lock" # "sale" /\ b \in Holders
      /\ "sale" \notin Holders /\ "lock" \notin Holders
  BY EndAssumption DEF Contracts
<1>. HIDE DEF n
<1>6. /\ n <= arm["lock"] /\ arm'["lock"] = arm["lock"] - n /\ arm'["sale"] = arm["sale"]
      /\ HeldByHolders' + Into("lock", n) = HeldByHolders + Into(b, n)
  BY <1>2, <1>3, <1>5, MoveEffect DEF EndInv, EndTypeOK
<1>7. HeldByHolders' = HeldByHolders + n
  BY <1>1, <1>3, <1>5, <1>6, SMT DEF Into, Parts
<1>8. Lower(arm["sale"]', ArmStillOwed') = Lower(arm["sale"], ArmStillOwed)
  BY <1>4, <1>6
<1>9. Lower(arm["sale"], ArmStillOwed) \in Nat
  BY <1>1, LowerFacts DEF Parts
<1>10. CirculatingSupply' = CirculatingSupply
  BY <1>1, <1>3, <1>6, <1>7, <1>8, <1>9, SMT DEF Parts
<1>11. CirculatingSupply' <= CirculatingSupply
  BY <1>1, <1>10, SMT DEF Parts
<1>. QED  BY <1>2, <1>10, <1>11, SamePools, FairIfLower

\* What a holder gives lowers what the holders have, unless it goes to another one; the
\* denominator falls by no more, and stays if the lock or a holder gets it.
LEMMA GivingEffect ==
    ASSUME EndInv, EndInv', Locked' = Locked, NEW h \in Holders, NEW n \in ArmInputs,
           NEW to \in Holders \cup Contracts, Move(h, to, n), UNCHANGED <<day, saleVars>>
    PROVE  /\ CirculatingSupply' <= CirculatingSupply
           /\ CirculatingSupply' # CirculatingSupply => HeldByHolders' < HeldByHolders
           /\ to = "redemption" => CirculatingSupply' = CirculatingSupply - n
<1>. DEFINE s == arm["sale"]
            o == ArmStillOwed
            l == Lower(s, o)
            l2 == Lower(arm'["sale"], o)
<1>1. Parts(CirculatingSupply, CirculatingSupply')
  BY PartsMove
<1>2. n \in Nat
  BY EndAssumption
<1>3. ArmStillOwed' = ArmStillOwed
  BY DEF ArmStillOwed, saleVars
<1>4. /\ Contracts = {"treasury", "lock", "sale", "redemption"}
      /\ "sale" \notin Holders /\ "lock" \notin Holders /\ h \in Holders \cup Contracts
      /\ h # "sale" /\ h # "lock" /\ "sale" # "lock"
      /\ "treasury" \notin Holders /\ "redemption" \notin Holders
      /\ "sale" \in Holders \cup Contracts /\ "lock" \in Holders \cup Contracts
  BY EndAssumption DEF Contracts
<1>5. /\ arm'[to] = arm[to] + n /\ n <= arm[h]
      /\ \A x \in (Holders \cup Contracts) \ {h, to} : arm'[x] = arm[x]
      /\ HeldByHolders' + Into(h, n) = HeldByHolders + Into(to, n)
  BY <1>2, <1>4, MoveEffect DEF EndInv, EndTypeOK
<1>6. Into(h, n) = n
  BY DEF Into
<1>7. /\ to # "sale" => arm'["sale"] = arm["sale"]
      /\ to # "lock" => arm'["lock"] = arm["lock"]
  BY <1>4, <1>5
<1>8. s \in Nat /\ o \in Nat /\ l \in Nat
  BY <1>1, LowerFacts DEF Parts
<1>9. CASE to \in Holders
  <2>1. Into(to, n) = n /\ to # "sale" /\ to # "lock" /\ to # "redemption"
    BY <1>4, <1>9 DEF Into
  <2>2. HeldByHolders' = HeldByHolders
    BY <1>1, <1>2, <1>5, <1>6, <2>1, SMT DEF Parts
  <2>3. CirculatingSupply' = CirculatingSupply
    BY <1>1, <1>3, <1>7, <2>1, <2>2 DEF Parts
  <2>. QED  BY <1>1, <2>1, <2>3, SMT DEF Parts
<1>10. CASE to = "lock"
  <2>1. Into(to, n) = 0 /\ to # "sale" /\ to # "redemption" /\ arm'["lock"] = arm["lock"] + n
    BY <1>4, <1>5, <1>10 DEF Into
  <2>2. HeldByHolders' + n = HeldByHolders
    BY <1>1, <1>2, <1>5, <1>6, <2>1, SMT DEF Parts
  <2>3. Lower(arm["sale"]', ArmStillOwed') = l
    BY <1>3, <1>7, <2>1
  <2>. HIDE DEF l
  <2>4. CirculatingSupply' = CirculatingSupply
    BY <1>1, <1>2, <1>8, <2>1, <2>2, <2>3, SMT DEF Parts, l
  <2>. QED  BY <1>1, <2>1, <2>4, SMT DEF Parts
<1>11. CASE to = "sale"
  <2>1. /\ Into(to, n) = 0 /\ to # "lock" /\ to # "redemption" /\ arm'["sale"] = s + n
        /\ arm'["lock"] = arm["lock"]
    BY <1>4, <1>5, <1>7, <1>11 DEF Into
  <2>2. HeldByHolders' + n = HeldByHolders
    BY <1>1, <1>2, <1>5, <1>6, <2>1, SMT DEF Parts
  <2>3. l <= l2 /\ l2 <= l + n /\ l2 \in Nat
    <3>1. s + n \in Nat
      BY <1>2, <1>8, SMT
    <3>2. l2 = Lower(s + n, o)
      BY <2>1
    <3>. HIDE DEF l2, s, o
    <3>3. Lower(s, o) <= Lower(s + n, o) /\ Lower(s + n, o) <= Lower(s, o) + n
      BY <1>2, <1>8, LowerFacts
    <3>4. Lower(s + n, o) \in Nat
      BY <1>8, <3>1, LowerFacts
    <3>. QED  BY <3>2, <3>3, <3>4
  <2>4. Lower(arm["sale"]', ArmStillOwed') = l2
    BY <1>3
  <2>. HIDE DEF l, l2
  <2>5. /\ CirculatingSupply' <= CirculatingSupply
        /\ CirculatingSupply' # CirculatingSupply => HeldByHolders' < HeldByHolders
    BY <1>1, <1>2, <1>8, <2>1, <2>2, <2>3, <2>4, SMT DEF Parts, l
  <2>. QED  BY <2>1, <2>5
<1>12. CASE to \in {"treasury", "redemption"}
  <2>1. Into(to, n) = 0 /\ to # "sale" /\ to # "lock"
    BY <1>4, <1>12 DEF Into
  <2>2. HeldByHolders' + n = HeldByHolders
    BY <1>1, <1>2, <1>5, <1>6, <2>1, SMT DEF Parts
  <2>3. Lower(arm["sale"]', ArmStillOwed') = l /\ arm'["lock"] = arm["lock"]
    BY <1>3, <1>7, <2>1
  <2>. HIDE DEF l
  <2>4. CirculatingSupply' = CirculatingSupply - n
    BY <1>1, <1>2, <1>8, <2>2, <2>3, SMT DEF Parts, l
  <2>. QED  BY <1>1, <1>2, <2>2, <2>4, SMT DEF Parts
<1>. QED  BY <1>4, <1>9, <1>10, <1>11, <1>12

\* A redeemer leaves the others no less for each of their units.
LEMMA RedemptionLeavesFair ==
    ASSUME EndInv, EndInv', Locked' = Locked, NEW h \in Holders, NEW n \in ArmInputs,
           NEW tokens, Redeem(h, n, tokens)
    PROVE  Fair
<1>1. /\ Move(h, "redemption", n) /\ UNCHANGED <<day, saleVars>>
      /\ "redemption" \in Holders \cup Contracts
  BY DEF Redeem, Contracts
<1>2. /\ CirculatingSupply' # CirculatingSupply => HeldByHolders' < HeldByHolders
      /\ CirculatingSupply' = CirculatingSupply - n
  BY <1>1, GivingEffect
<1>3. \A a \in Assets : pool[a] * (CirculatingSupply - n) <= pool'[a] * CirculatingSupply
  BY RedeemLeaves
<1>. QED  BY <1>2, <1>3 DEF Fair

\* No step after wind-down lowers what an ARM is worth.
LEMMA StepsAreFair ==
    ASSUME EndInv, EndInv', triggered, sale' = sale, [EndNext]_endVars
    PROVE  Fair
<1>1. Locked' = Locked
  BY RevenueIsFixed
<1>. USE DEF saleVars, assetVars
<1>2. ASSUME UNCHANGED <<arm, day, saleVars, pool>> PROVE Fair
  <2>1. ArmStillOwed' = ArmStillOwed
    BY <1>2 DEF ArmStillOwed
  <2>. QED  BY <1>1, <1>2, <2>1, SameSupply, SamePools
<1>3. CASE RevenueStep
  BY <1>2, <1>3 DEF RevenueStep, Outside
<1>4. CASE \E b \in Beneficiaries : ReleaseArm(b)
  BY <1>1, <1>4, ReleaseIsFair
<1>5. ASSUME \E outcome \in {"Sold", "Refunded"} : FinalizeSale(outcome) PROVE FALSE
  BY <1>5 DEF FinalizeSale
<1>6. CASE \E h \in Holders : ClaimArm(h)
  BY <1>1, <1>6, ClaimIsFair
<1>7. CASE WithdrawUnallocatedArm
  BY <1>1, <1>7, WithdrawalIsFair
<1>8. ASSUME EndGovernance \/ TriggerWindDown PROVE FALSE
  BY <1>8 DEF EndGovernance, TriggerWindDown, EndInv, Ended
<1>9. ASSUME NEW a \in Assets, Sweep(a) PROVE Fair
  <2>1. UNCHANGED <<arm, day, saleVars>>
    BY <1>9 DEF Sweep
  <2>2. ArmStillOwed' = ArmStillOwed
    BY <2>1 DEF ArmStillOwed
  <2>3. ASSUME NEW x \in Assets PROVE pool[x] <= pool'[x]
    <3>1. pool \in [Assets -> Nat] /\ pool[x] \in Nat /\ treasuryHas[a] \in Nat
      BY DEF EndInv, EndTypeOK
    <3>2. pool'[x] = pool[x] \/ pool'[x] = pool[x] + treasuryHas[a]
      BY <1>9, <3>1 DEF Sweep
    <3>. QED  BY <3>1, <3>2, SMT
  <2>. QED  BY <1>1, <2>1, <2>2, <2>3, SameSupply
<1>10. CASE \E h \in Holders, n \in ArmInputs :
               \E tokens \in SUBSET (Assets \ {"eth"}) : Redeem(h, n, tokens)
  BY <1>1, <1>10, RedemptionLeavesFair
<1>11. ASSUME NEW h \in Holders, NEW n \in ArmInputs, NEW to \in Holders \cup Contracts,
              Send(h, to, n)
       PROVE  Fair
  <2>1. Move(h, to, n) /\ UNCHANGED <<day, saleVars>> /\ pool' = pool
    BY <1>11 DEF Send
  <2>2. /\ CirculatingSupply' <= CirculatingSupply
        /\ CirculatingSupply' # CirculatingSupply => HeldByHolders' < HeldByHolders
    BY <1>1, <2>1, GivingEffect
  <2>. QED  BY <2>1, <2>2, SamePools, FairIfLower
<1>12. CASE NextDay
  <2>1. UNCHANGED <<arm, saleVars, pool>> /\ day' = day + 1
    BY <1>12 DEF NextDay, Outside
  <2>2. Parts(CirculatingSupply, CirculatingSupply')
    BY <1>1, PartsMove
  <2>3. day \in Nat /\ claimDeadline \in Nat
    BY DEF EndInv, EndTypeOK, CounterTypeOK
  <2>4. ArmStillOwed' = ArmStillOwed \/ ArmStillOwed' = 0
    BY <2>1, <2>3 DEF ArmStillOwed
  <2>5. Lower(arm["sale"]', ArmStillOwed') <= Lower(arm["sale"], ArmStillOwed)
    BY <2>1, <2>2, <2>4, SMT DEF Parts, Lower
  <2>6. /\ Lower(arm["sale"]', ArmStillOwed') \in Nat /\ Lower(arm["sale"], ArmStillOwed) \in Nat
    BY <2>2, SMT DEF Parts, Lower
  <2>7. HeldByHolders' = HeldByHolders
    BY <2>1 DEF HeldByHolders
  <2>8. CirculatingSupply' <= CirculatingSupply
    BY <2>1, <2>2, <2>5, <2>6, <2>7, SMT DEF Parts
  <2>9. day' > day
    BY <2>1, <2>3, SMT
  <2>. QED  BY <2>1, <2>8, <2>9, SamePools, FairIfLower
<1>13. CASE UNCHANGED endVars
  BY <1>2, <1>13 DEF endVars
<1>. QED
  BY <1>3, <1>4, <1>5, <1>6, <1>7, <1>8, <1>9, <1>10, <1>11, <1>12, <1>13, Zenon
  DEF EndNext

(***************************************************************************)
(* For every set of accounts, assets and amounts: once the sale is decided *)
(* no step after wind-down lowers what an ARM is worth, the denominator    *)
(* moves only when holders give ARM up or claims expire, and the revenue   *)
(* behind it stays fixed.                                                  *)
(***************************************************************************)
THEOREM RedeemersAreEqual == EndSpec => RedemptionIsFair
<1>. DEFINE A == triggered /\ sale' = sale =>
                    /\ Fair
                    /\ recognizedRevenueUsd' = recognizedRevenueUsd
                    /\ maxObservedRevenue' = maxObservedRevenue
<1>1. EndInv /\ EndInv' /\ [EndNext]_endVars => A
  BY StepsAreFair, RevenueIsFixed
<1>2. A => [triggered /\ sale' = sale =>
              /\ \A a \in Assets : pool[a] * CirculatingSupply' <= pool'[a] * CirculatingSupply
              /\ CirculatingSupply' # CirculatingSupply
                    => HeldByHolders' < HeldByHolders \/ day' > day
              /\ recognizedRevenueUsd' = recognizedRevenueUsd
              /\ maxObservedRevenue' = maxObservedRevenue]_endVars
  BY DEF Fair
<1>. HIDE DEF A
<1>. QED  BY <1>1, <1>2, EndInvariant, PTL DEF EndSpec, RedemptionIsFair

=============================================================================
