--------------------------- MODULE CrowdfundProofs ---------------------------
(***************************************************************************)
(* Theorems about Crowdfund for every set of accounts, every cap, budget   *)
(* and sale size that satisfy its assumptions, about the waterfall under   *)
(* growing demand (SaleDemand) for every pair of sale sizes, and, in the   *)
(* last part, about the service that indexes the sale (Indexer) for every  *)
(* set of logged blocks, confirmation depth, range size and number of      *)
(* faults, commands and kills.                                             *)
(***************************************************************************)
EXTENDS Crowdfund, SaleDemand, Indexer, NaturalSumLemmas, SequenceTheorems

-----------------------------------------------------------------------------
(* The waterfall *)

(***************************************************************************)
(* The parts of a sale that do not depend on demand are naturals: none of  *)
(* the subtractions that form them underflows, for any sale size.          *)
(***************************************************************************)
LEMMA CeilingFacts ==
    ASSUME NEW sale \in Nat
    PROVE  /\ Hop2Floor(sale) \in Nat
           /\ Available(sale) \in Nat
           /\ RawCeiling0(sale) \in Nat
           /\ RawCeiling1(sale) \in Nat
           /\ RawCeiling0(sale) <= Available(sale)
           /\ Available(sale) + Hop2Floor(sale) = sale
  BY SMT DEF Hop2Floor, Available, RawCeiling0, RawCeiling1, BasePool, Bps,
             HOP2_BASE_FLOOR_BPS, HOP2_EXTRA_FLOOR_BPS, HOP0_CEILING_BPS, HOP1_CEILING_BPS

(***************************************************************************)
(* A larger sale has no smaller part, once it is larger by more than the   *)
(* rounding.                                                               *)
(***************************************************************************)
LEMMA CeilingsGrow ==
    ASSUME NEW sale \in Nat, NEW larger \in Nat, sale + 10 <= larger
    PROVE  /\ Hop2Floor(sale) <= Hop2Floor(larger)
           /\ RawCeiling0(sale) <= RawCeiling0(larger)
           /\ Available(sale) - RawCeiling0(sale) <= Available(larger) - RawCeiling0(larger)
           /\ RawCeiling1(sale) <= RawCeiling1(larger)
  BY SMT DEF Hop2Floor, Available, RawCeiling0, RawCeiling1, BasePool, Bps,
             HOP2_BASE_FLOOR_BPS, HOP2_EXTRA_FLOOR_BPS, HOP0_CEILING_BPS, HOP1_CEILING_BPS

(***************************************************************************)
(* The ceilings for a demand: naturals, hop 0's and hop 1's together with  *)
(* hop 0's grant within what is available, hop 2's at least its floor.     *)
(***************************************************************************)
LEMMA HopCeilingFacts ==
    ASSUME NEW sale \in Nat, NEW d \in [Hops -> Nat]
    PROVE  /\ HopCeilings(sale, d) \in [Hops -> Nat]
           /\ {HopCeilings(sale, d)[0], HopCeilings(sale, d)[1], HopCeilings(sale, d)[2]} \subseteq Nat
           /\ {d[0], d[1], d[2]} \subseteq Nat
           /\ HopCeilings(sale, d)[0] = RawCeiling0(sale)
           /\ HopCeilings(sale, d)[1] =
                Ceiling1(sale, Granted(d[0], HopCeilings(sale, d)[0]))
           /\ HopCeilings(sale, d)[2] =
                Hop2Floor(sale) + (HopCeilings(sale, d)[1] - Granted(d[1], HopCeilings(sale, d)[1]))
           /\ Granted(d[0], HopCeilings(sale, d)[0]) + HopCeilings(sale, d)[1] <= Available(sale)
  BY CeilingFacts, SMT DEF HopCeilings, Ceiling1, Ceiling2, Granted, Smaller, Hops

(***************************************************************************)
(* The hops together get at most the sale, and at most what they demand.   *)
(***************************************************************************)
LEMMA TotalWithinSale ==
    ASSUME NEW sale \in Nat, NEW d \in [Hops -> Nat]
    PROVE  /\ TotalAllocation(sale, d) \in Nat
           /\ TotalAllocation(sale, d) <= sale
           /\ TotalAllocation(sale, d) <= d[0] + d[1] + d[2]
<1>. DEFINE c == HopCeilings(sale, d)
<1>1. {c[0], c[1], c[2], d[0], d[1], d[2]} \subseteq Nat
  BY HopCeilingFacts
<1>2. /\ c[2] = Hop2Floor(sale) + (c[1] - Granted(d[1], c[1]))
      /\ Granted(d[0], c[0]) + c[1] <= Available(sale)
      /\ Hop2Floor(sale) \in Nat
      /\ Available(sale) + Hop2Floor(sale) = sale
      /\ Available(sale) \in Nat
  BY HopCeilingFacts, CeilingFacts
<1>3. TotalAllocation(sale, d) = Granted(d[0], c[0]) + Granted(d[1], c[1]) + Granted(d[2], c[2])
  BY DEF TotalAllocation
<1>. HIDE DEF c
<1>. QED  BY <1>1, <1>2, <1>3, SMT DEF Granted, Smaller

(***************************************************************************)
(* One more unit of demand at one hop, at the same or at an expanded size. *)
(***************************************************************************)
LEMMA MoreIsNotLess ==
    ASSUME NEW sale \in Nat, NEW larger \in Nat, larger = sale \/ sale + 10 <= larger,
           NEW d \in [Hops -> Nat], NEW e \in [Hops -> Nat], NEW g \in Hops,
           \A h \in Hops : e[h] = IF h = g THEN d[h] + 1 ELSE d[h]
    PROVE  /\ TotalAllocation(larger, e) >= TotalAllocation(sale, d)
           /\ Granted(e[g], HopCeilings(larger, e)[g]) >= Granted(d[g], HopCeilings(sale, d)[g])
<1>. DEFINE c == HopCeilings(sale, d)
            k == HopCeilings(larger, e)
<1>1. /\ Hop2Floor(sale) <= Hop2Floor(larger)
      /\ RawCeiling0(sale) <= RawCeiling0(larger)
      /\ Available(sale) - RawCeiling0(sale) <= Available(larger) - RawCeiling0(larger)
      /\ RawCeiling1(sale) <= RawCeiling1(larger)
  <2>1. CASE larger = sale
    <3>1. /\ Hop2Floor(sale) \in Nat /\ RawCeiling0(sale) \in Nat
          /\ RawCeiling1(sale) \in Nat /\ Available(sale) \in Nat
      BY CeilingFacts
    <3>. QED  BY <2>1, <3>1
  <2>2. CASE sale + 10 <= larger
    BY <2>2, CeilingsGrow
  <2>. QED  BY <2>1, <2>2
<1>2. /\ {Hop2Floor(sale), RawCeiling0(sale), RawCeiling1(sale), Available(sale)} \subseteq Nat
      /\ {Hop2Floor(larger), RawCeiling0(larger), RawCeiling1(larger), Available(larger)} \subseteq Nat
      /\ RawCeiling0(sale) <= Available(sale)
      /\ RawCeiling0(larger) <= Available(larger)
  BY CeilingFacts
<1>3. /\ {c[0], c[1], c[2], k[0], k[1], k[2]} \subseteq Nat
      /\ {d[0], d[1], d[2], e[0], e[1], e[2]} \subseteq Nat
  BY HopCeilingFacts
<1>4. /\ c[0] = RawCeiling0(sale) /\ c[1] = Ceiling1(sale, Granted(d[0], c[0]))
      /\ c[2] = Hop2Floor(sale) + (c[1] - Granted(d[1], c[1]))
  BY HopCeilingFacts
<1>5. /\ k[0] = RawCeiling0(larger) /\ k[1] = Ceiling1(larger, Granted(e[0], k[0]))
      /\ k[2] = Hop2Floor(larger) + (k[1] - Granted(e[1], k[1]))
  BY HopCeilingFacts
<1>6. /\ TotalAllocation(sale, d) = Granted(d[0], c[0]) + Granted(d[1], c[1]) + Granted(d[2], c[2])
      /\ TotalAllocation(larger, e) = Granted(e[0], k[0]) + Granted(e[1], k[1]) + Granted(e[2], k[2])
  BY DEF TotalAllocation
<1>7. \/ g = 0 /\ e[0] = d[0] + 1 /\ e[1] = d[1] /\ e[2] = d[2]
      \/ g = 1 /\ e[0] = d[0] /\ e[1] = d[1] + 1 /\ e[2] = d[2]
      \/ g = 2 /\ e[0] = d[0] /\ e[1] = d[1] /\ e[2] = d[2] + 1
  BY SMT DEF Hops
<1>. HIDE DEF c, k
<1>8. /\ Granted(e[0], k[0]) >= Granted(d[0], c[0])
      /\ Granted(e[0], k[0]) + k[1] >= Granted(d[0], c[0]) + c[1]
      /\ e[0] = d[0] => k[1] >= c[1]
  BY <1>1, <1>2, <1>3, <1>4, <1>5, <1>7, SMTT(60) DEF Ceiling1, Granted, Smaller
<1>9. /\ g = 1 => Granted(e[1], k[1]) >= Granted(d[1], c[1])
      /\ g # 0 => k[2] >= c[2] \/ g = 1
      /\ g = 2 => Granted(e[2], k[2]) >= Granted(d[2], c[2])
  BY <1>1, <1>2, <1>3, <1>4, <1>5, <1>7, <1>8, SMTT(60) DEF Granted, Smaller
<1>10. {Granted(d[0], c[0]), Granted(e[0], k[0])} \subseteq Nat
  BY <1>3, SMT DEF Granted, Smaller
<1>11. \* What the first two hops leave unused, hop 2 may use.
       TotalAllocation(larger, e) >= TotalAllocation(sale, d)
  <2>. DEFINE a == Granted(d[0], c[0])
              b == Granted(e[0], k[0])
  <2>1. /\ {a, b} \subseteq Nat /\ b >= a /\ b + k[1] >= a + c[1]
        /\ Hop2Floor(sale) <= Hop2Floor(larger)
        /\ TotalAllocation(sale, d) = a + Granted(d[1], c[1]) + Granted(d[2], c[2])
        /\ TotalAllocation(larger, e) = b + Granted(e[1], k[1]) + Granted(e[2], k[2])
        /\ d[1] <= e[1] /\ d[2] <= e[2]
    BY <1>1, <1>3, <1>6, <1>7, <1>8, <1>10, SMT
  <2>. HIDE DEF a, b
  <2>. QED
    BY <2>1, <1>2, <1>3, <1>4, <1>5, SMTT(60) DEF Granted, Smaller
<1>. QED  BY <1>7, <1>8, <1>9, <1>11 DEF c, k

(***************************************************************************)
(* Scaling an amount down by a ratio below one never enlarges it.          *)
(***************************************************************************)
LEMMA ScaleDown ==
    ASSUME NEW c \in Nat, NEW ceiling \in Nat, NEW demand \in Nat, ceiling < demand
    PROVE  (c * ceiling) \div demand <= c
<1>. DEFINE q == (c * ceiling) \div demand
<1>1. c * ceiling <= c * demand
  BY SMT
<1>2. q \in Nat /\ q * demand <= c * ceiling
  BY SMT
<1>3. ASSUME c < q PROVE FALSE
  <2>. HIDE DEF q
  <2>1. q >= c + 1
    BY <1>2, <1>3, SMT
  <2>2. q * demand >= (c + 1) * demand
    BY <1>2, <2>1, SMT
  <2>3. (c + 1) * demand = c * demand + demand
    BY SMT
  <2>. QED  BY <1>1, <1>2, <2>2, <2>3, SMT
<1>. HIDE DEF q
<1>4. q <= c
  BY <1>2, <1>3, SMT
<1>. QED  BY <1>4 DEF q

-----------------------------------------------------------------------------
(* Shares inside a hop *)

\* What each deposit counts for, and what it is allocated, inside one hop.
AcceptedOf(T, deposit, cap) == [x \in T |-> Accepted(deposit[x], cap[x])]
SharesOf(T, deposit, cap, ceiling, demand) ==
    [x \in T |-> AllocatedUsdc(deposit[x], cap[x], ceiling, demand)]

\* One participant's share is at most what was accepted of the deposit.
LEMMA ShareFacts ==
    ASSUME NEW deposit \in Nat, NEW cap \in Nat, NEW ceiling \in Nat, NEW demand \in Nat
    PROVE  /\ AllocatedUsdc(deposit, cap, ceiling, demand) \in Nat
           /\ AllocatedUsdc(deposit, cap, ceiling, demand) <= Accepted(deposit, cap)
           /\ Accepted(deposit, cap) \in Nat
           /\ Accepted(deposit, cap) <= deposit /\ Accepted(deposit, cap) <= cap
<1>. DEFINE a == Accepted(deposit, cap)
<1>1. a \in Nat /\ a <= deposit /\ a <= cap
  BY SMT DEF Accepted, Smaller
<1>2. AllocatedUsdc(deposit, cap, ceiling, demand) =
        IF demand <= ceiling THEN a ELSE (a * ceiling) \div demand
  BY DEF AllocatedUsdc
<1>. HIDE DEF a
<1>3. CASE demand <= ceiling
  BY <1>1, <1>2, <1>3, SMT DEF a
<1>4. CASE ~(demand <= ceiling)
  <2>. DEFINE p == a * ceiling
              q == p \div demand
  <2>1. p \in Nat /\ demand > 0 /\ ceiling < demand
    BY <1>1, <1>4, SMT
  <2>2. q <= a
    BY <1>1, <2>1, ScaleDown
  <2>. HIDE DEF p
  <2>3. q \in Nat
    BY <2>1, SMT
  <2>4. AllocatedUsdc(deposit, cap, ceiling, demand) = q
    BY <1>2, <1>4 DEF p
  <2>. HIDE DEF q
  <2>. QED BY <1>1, <2>2, <2>3, <2>4 DEF a
<1>. QED BY <1>3, <1>4

\* What a hop hands out for its demand: at most its grant, and less than it by
\* at most one unit per participant (finalize()'s rounding buffer).
LEMMA HopShares ==
    ASSUME NEW T, NEW deposit \in [T -> Nat], NEW cap \in [T -> Nat],
           NEW S \in SUBSET T, IsFiniteSet(S), NEW ceiling \in Nat, NEW demand \in Nat,
           demand = SumOver(AcceptedOf(T, deposit, cap), S)
    PROVE  /\ SharesOf(T, deposit, cap, ceiling, demand) \in [T -> Nat]
           /\ SumOver(SharesOf(T, deposit, cap, ceiling, demand), S) \in Nat
           /\ SumOver(SharesOf(T, deposit, cap, ceiling, demand), S) <= Granted(demand, ceiling)
           /\ Granted(demand, ceiling) <=
                SumOver(SharesOf(T, deposit, cap, ceiling, demand), S) + Cardinality(S)
<1>. DEFINE acc == AcceptedOf(T, deposit, cap)
            share == SharesOf(T, deposit, cap, ceiling, demand)
<1>1. /\ acc \in [T -> Nat] /\ share \in [T -> Nat]
      /\ \A x \in T : acc[x] = Accepted(deposit[x], cap[x])
  BY ShareFacts DEF AcceptedOf, SharesOf
<1>2. SumOver(share, S) \in Nat /\ Cardinality(S) \in Nat
  BY <1>1, SumType, FS_CardinalityType
<1>3. CASE demand <= ceiling
  <2>1. \A x \in S : share[x] = acc[x]
    BY <1>3 DEF SharesOf, AcceptedOf, AllocatedUsdc
  <2>2. SumOver(share, S) = demand
    BY <2>1, SumCongruence
  <2>3. Granted(demand, ceiling) = demand
    BY <1>3 DEF Granted, Smaller
  <2>. HIDE DEF share, acc
  <2>. QED BY <1>1, <1>2, <2>2, <2>3, SMT DEF share
<1>4. CASE ~(demand <= ceiling)
  <2>1. demand \in Nat \ {0} /\ Granted(demand, ceiling) = ceiling
    BY <1>4, SMT DEF Granted, Smaller
  <2>. DEFINE part == PartsOf(T, acc, ceiling, demand)
  <2>2. \A x \in S : share[x] = part[x]
    BY <1>4 DEF SharesOf, AcceptedOf, AllocatedUsdc, PartsOf
  <2>3. SumOver(acc, S) = demand
    OBVIOUS
  <2>. HIDE DEF share, acc
  <2>4. SumOver(part, S) <= ceiling /\ ceiling <= SumOver(part, S) + Cardinality(S)
    BY <1>1, <2>1, <2>3, SumOfShares
  <2>. HIDE DEF part
  <2>5. SumOver(share, S) = SumOver(part, S)
    BY <2>2, SumCongruence
  <2>. QED BY <1>1, <1>2, <2>1, <2>4, <2>5 DEF share
<1>. QED BY <1>3, <1>4

-----------------------------------------------------------------------------
(* The waterfall under growing demand *)

\* The size of the sale is a number.
LEMMA SizeIsNat ==
    ASSUME NEW d \in [Hops -> Nat]
    PROVE  Size(d) \in Nat
  BY SaleSizeAssumption DEF Size

(***************************************************************************)
(* The demand of each hop stays a natural number.                          *)
(***************************************************************************)
THEOREM DemandTypeCorrect == DemandSpec => []DemandTypeOK
<1>1. NoDemand => DemandTypeOK
  BY DEF NoDemand, DemandTypeOK
<1>2. DemandTypeOK /\ [DemandGrows]_wanted => DemandTypeOK'
  BY SMT DEF DemandTypeOK, DemandGrows, Deposit, Hops
<1>. QED  BY <1>1, <1>2, PTL DEF DemandSpec

(***************************************************************************)
(* The checked subtractions of finalize() never underflow and the sale is  *)
(* never oversold.                                                         *)
(***************************************************************************)
THEOREM NeverOversold == DemandSpec => []WaterfallWithinSale
<1>1. DemandTypeOK => WaterfallWithinSale
  <2>. SUFFICES ASSUME DemandTypeOK PROVE WaterfallWithinSale
    OBVIOUS
  <2>. DEFINE sale == Size(wanted)
              c == HopCeilings(sale, wanted)
  <2>1. sale \in Nat /\ wanted \in [Hops -> Nat]
    BY SizeIsNat DEF DemandTypeOK
  <2>2. \A h \in Hops : c[h] >= 0
    BY <2>1, HopCeilingFacts, SMT
  <2>3. Granted(wanted[0], c[0]) <= Available(sale)
    BY <2>1, HopCeilingFacts, CeilingFacts, SMT DEF Granted, Smaller, Hops
  <2>4. TotalAllocation(sale, wanted) <= sale
    BY <2>1, TotalWithinSale
  <2>. QED  BY <2>2, <2>3, <2>4 DEF WaterfallWithinSale
<1>. QED  BY <1>1, DemandTypeCorrect, PTL

(***************************************************************************)
(* Hop 2 is granted its demand up to its floor.                            *)
(***************************************************************************)
THEOREM FloorIsGuaranteed == DemandSpec => []HopTwoKeepsItsFloor
<1>1. DemandTypeOK => HopTwoKeepsItsFloor
  <2>. SUFFICES ASSUME DemandTypeOK PROVE HopTwoKeepsItsFloor
    OBVIOUS
  <2>. DEFINE sale == Size(wanted)
              c == HopCeilings(sale, wanted)
  <2>1. sale \in Nat /\ wanted \in [Hops -> Nat]
    BY SizeIsNat DEF DemandTypeOK
  <2>. HIDE DEF sale
  <2>2. /\ c[2] = Hop2Floor(sale) + (c[1] - Granted(wanted[1], c[1]))
        /\ {c[1], c[2], wanted[1], wanted[2], Hop2Floor(sale)} \subseteq Nat
    <3>1. Hop2Floor(sale) \in Nat
      BY <2>1, CeilingFacts
    <3>2. /\ c[2] = Hop2Floor(sale) + (c[1] - Granted(wanted[1], c[1]))
          /\ {c[0], c[1], c[2]} \subseteq Nat /\ {wanted[0], wanted[1], wanted[2]} \subseteq Nat
      BY <2>1, HopCeilingFacts
    <3>. QED  BY <3>1, <3>2
  <2>3. Grant(wanted, 2) = Granted(wanted[2], c[2])
    BY DEF Grant, sale
  <2>. HIDE DEF c
  <2>4. Grant(wanted, 2) >= Smaller(wanted[2], Hop2Floor(sale))
    BY <2>2, <2>3, SMT DEF Granted, Smaller
  <2>. QED  BY <2>4 DEF HopTwoKeepsItsFloor, sale
<1>. QED  BY <1>1, DemandTypeCorrect, PTL

(***************************************************************************)
(* A deposit lowers neither the total nor its own hop's grant.             *)
(***************************************************************************)
THEOREM DemandIsMonotone == DemandSpec => DemandNeverShrinksTheSale
<1>1. DemandTypeOK /\ [DemandGrows]_wanted => [NothingShrinks]_wanted
  <2>. SUFFICES ASSUME DemandTypeOK, NEW g \in Hops, Deposit(g)
                PROVE  NothingShrinks
    BY DEF DemandGrows
  <2>1. /\ wanted' \in [Hops -> Nat]
        /\ \A h \in Hops : wanted'[h] = IF h = g THEN wanted[h] + 1 ELSE wanted[h]
    BY SMT DEF DemandTypeOK, Deposit
  <2>2. Size(wanted') = Size(wanted) \/ Size(wanted) + 10 <= Size(wanted')
    BY <2>1, SaleSizeAssumption, SMT DEF DemandTypeOK, Size, Hops
  <2>3. /\ TotalAllocation(Size(wanted'), wanted') >= TotalAllocation(Size(wanted), wanted)
        /\ Grant(wanted', g) >= Grant(wanted, g)
    BY <2>1, <2>2, SizeIsNat, MoreIsNotLess DEF DemandTypeOK, Grant
  <2>4. \A h \in Hops : wanted'[h] > wanted[h] => h = g
    BY <2>1, SMT DEF DemandTypeOK
  <2>. QED
    BY <2>3, <2>4 DEF NothingShrinks
<1>. QED  BY <1>1, DemandTypeCorrect, PTL DEF DemandSpec, DemandNeverShrinksTheSale

-----------------------------------------------------------------------------
(* The sale *)

\* There are finitely many accounts and nodes.
LEMMA NodesFinite == IsFiniteSet(Addresses) /\ IsFiniteSet(Nodes)
<1>1. IsFiniteSet(Addresses)
  BY RolesAssumption, FS_AddElement DEF Addresses
<1>2. IsFiniteSet(Hops)
  BY FS_Interval, 0 \in Int, 2 \in Int, Zenon DEF Hops
<1>. QED  BY <1>1, <1>2, FS_Product DEF Nodes

\* A hop's whitelisted nodes are a finite set.
LEMMA NodesAtFinite ==
    ASSUME TypeOK, NEW h \in Hops
    PROVE  NodesAt(h) \in SUBSET Nodes /\ IsFiniteSet(NodesAt(h))
<1>1. NodesAt(h) \in SUBSET Nodes
  BY DEF TypeOK, NodesAt
<1>. QED  BY <1>1, NodesFinite, FS_Subset

\* The rounding buffer is a natural.
LEMMA BufferType ==
    ASSUME TypeOK
    PROVE  IsFiniteSet(participantNodes) /\ RoundingBuffer \in Nat
  BY NodesFinite, FS_Subset, FS_CardinalityType DEF TypeOK, RoundingBuffer

\* A node's cap, and what it accepts of a deposit, are naturals.
LEMMA CapType ==
    ASSUME TypeOK, NEW n \in Nodes
    PROVE  /\ n[2] \in Hops
           /\ EffectiveCap(n) \in Nat
           /\ Accepted(committed[n], EffectiveCap(n)) \in Nat
           /\ Accepted(committed[n], EffectiveCap(n)) <= committed[n]
<1>1. n[2] \in Hops
  BY DEF Nodes
<1>2. invitesReceived[n] \in Nat /\ Cap[n[2]] \in Nat /\ committed[n] \in Nat
  BY <1>1, HopAssumption DEF TypeOK
<1>3. EffectiveCap(n) \in Nat
  BY <1>2, SMT DEF EffectiveCap
<1>. QED  BY <1>1, <1>2, <1>3, SMT DEF Accepted, Smaller

(***************************************************************************)
(* The capped demand that finalize() computes at each hop is a natural.    *)
(***************************************************************************)
LEMMA DemandType ==
    ASSUME TypeOK
    PROVE  [h \in Hops |-> CappedCommitted(h)] \in [Hops -> Nat]
<1>. SUFFICES ASSUME NEW h \in Hops PROVE CappedCommitted(h) \in Nat
  OBVIOUS
<1>. DEFINE f == [n \in Nodes |-> Accepted(committed[n], EffectiveCap(n))]
<1>1. f \in [Nodes -> Nat]
  BY CapType
<1>2. SumOver(f, NodesAt(h)) \in Nat
  BY <1>1, NodesAtFinite, SumType
<1>. QED  BY <1>2 DEF CappedCommitted

\* An allocation is a natural.
LEMMA AllocationType ==
    ASSUME TypeOK, NEW n \in Nodes
    PROVE  Allocation(n) \in Nat
<1>. DEFINE c == Accepted(committed[n], EffectiveCap(n))
            ceiling == finalCeilings[n[2]]
            demand  == finalDemands[n[2]]
<1>1. c \in Nat /\ ceiling \in Nat /\ demand \in Nat
  BY CapType DEF TypeOK
<1>2. c * ceiling \in Nat
  BY <1>1, SMT
<1>3. Allocation(n) = IF demand <= ceiling THEN c ELSE (c * ceiling) \div demand
  BY DEF Allocation, AllocatedUsdc
<1>4. ASSUME ~(demand <= ceiling)
      PROVE  (c * ceiling) \div demand \in Nat
  BY <1>1, <1>2, <1>4, SMT
<1>. QED  BY <1>1, <1>3, <1>4

\* So are what an account deposited and what it is allocated.
LEMMA UserSums ==
    ASSUME TypeOK, NEW u \in Addresses
    PROVE  CommittedBy(u) \in Nat /\ AllocatedTo(u) \in Nat
<1>1. \A h \in Hops : <<u, h>> \in Nodes
  BY DEF Nodes
<1>2. \A h \in Hops : committed[<<u, h>>] \in Nat /\ Allocation(<<u, h>>) \in Nat
  BY <1>1, AllocationType DEF TypeOK
<1>3. 0 \in Hops /\ 1 \in Hops /\ 2 \in Hops
  BY SMT DEF Hops
<1>. QED  BY <1>2, <1>3, SMT DEF CommittedBy, AllocatedTo

(***************************************************************************)
(* A refund is what is left of a deposit after its allocation.             *)
(***************************************************************************)
LEMMA AllocationBounded ==
    ASSUME TypeOK, NEW n \in Nodes
    PROVE  Allocation(n) <= committed[n]
<1>. DEFINE c == Accepted(committed[n], EffectiveCap(n))
            ceiling == finalCeilings[n[2]]
            demand  == finalDemands[n[2]]
<1>1. c \in Nat /\ ceiling \in Nat /\ demand \in Nat /\ committed[n] \in Nat /\ c <= committed[n]
  BY CapType DEF TypeOK
<1>2. Allocation(n) = IF demand <= ceiling THEN c ELSE (c * ceiling) \div demand
  BY DEF Allocation, AllocatedUsdc
<1>. HIDE DEF c, ceiling, demand
<1>3. CASE demand <= ceiling
  BY <1>1, <1>2, <1>3
<1>4. CASE ~(demand <= ceiling)
  <2>1. ceiling < demand
    BY <1>1, <1>4, SMT
  <2>2. (c * ceiling) \div demand <= c
    BY <1>1, <2>1, ScaleDown
  <2>3. Allocation(n) \in Nat
    BY AllocationType
  <2>4. Allocation(n) <= c
    BY <1>2, <1>4, <2>2, Zenon
  <2>. QED  BY <1>1, <2>3, <2>4, SMT
<1>. QED  BY <1>3, <1>4

\* No refund is negative.
LEMMA RefundNatural ==
    ASSUME TypeOK, NEW u \in Addresses
    PROVE  RefundTo(u) \in Nat
<1>1. 0 \in Hops /\ 1 \in Hops /\ 2 \in Hops
  BY SMT DEF Hops
<1>2. \A h \in Hops : <<u, h>> \in Nodes
  BY DEF Nodes
<1>3. \A h \in Hops : /\ Allocation(<<u, h>>) \in Nat /\ committed[<<u, h>>] \in Nat
                      /\ Allocation(<<u, h>>) <= committed[<<u, h>>]
  BY <1>2, AllocationType, AllocationBounded DEF TypeOK
<1>. QED  BY <1>1, <1>3, SMT DEF RefundTo, CommittedBy, AllocatedTo

-----------------------------------------------------------------------------
(***************************************************************************)
(* Each operation keeps the types.                                         *)
(***************************************************************************)
LEMMA InitTyped == Init => TypeOK
<1>. SUFFICES ASSUME Init PROVE TypeOK
  OBVIOUS
<1>1. 0 \in Nat /\ InitialWallet \in Nat /\ Zeros \in [Hops -> Nat]
  BY InputAssumption DEF Zeros
<1>2. /\ invitesReceived \in [Nodes -> Nat] /\ invitesSent \in [Nodes -> Nat]
      /\ invitedBy \in [Nodes -> Addresses \cup {NoOne}]
      /\ launchTeamUsed \in [1..2 -> Nat] /\ committed \in [Nodes -> Nat]
      /\ usedNonces \in [Addresses -> SUBSET Nonces]
      /\ claimed \in [Addresses -> BOOLEAN]
      /\ wallet \in [Addresses -> Nat] /\ armHeld \in [Addresses -> Nat]
  BY <1>1 DEF Init
<1>. QED  BY <1>1, <1>2 DEF Init, TypeOK

\* An invite, whether it creates a node or stacks.
LEMMA RegisterTyped ==
    ASSUME TypeOK, NEW node \in Nodes, NEW inviter \in Addresses,
           RegisterOrStackInvite(node, inviter)
    PROVE  /\ participantNodes' \subseteq Nodes
           /\ invitesReceived' \in [Nodes -> Nat]
           /\ invitedBy' \in [Nodes -> Addresses \cup {NoOne}]
  BY DEF TypeOK, RegisterOrStackInvite, InitParticipants

\* A deposit.
LEMMA EscrowTyped ==
    ASSUME TypeOK, NEW user \in Addresses, NEW hop \in Hops, NEW amount \in Nat,
           EscrowCommit(user, hop, amount)
    PROVE  /\ committed' \in [Nodes -> Nat]
           /\ hopCommitted' \in [Hops -> Nat]
           /\ uniqueCommitters' \in [Hops -> Nat]
           /\ totalCommitted' \in Nat
           /\ wallet' \in [Addresses -> Nat]
           /\ escrow' \in Nat /\ treasuryUsdc' \in Nat
<1>1. <<user, hop>> \in Nodes
  BY DEF Nodes
<1>2. committed' \in [Nodes -> Nat] /\ hopCommitted' \in [Hops -> Nat]
  BY <1>1, SMT DEF TypeOK, EscrowCommit
<1>3. uniqueCommitters' \in [Hops -> Nat]
  BY <1>1, SMT DEF TypeOK, EscrowCommit
<1>4. wallet' \in [Addresses -> Nat]
  BY SMT DEF TypeOK, EscrowCommit
<1>. QED  BY <1>2, <1>3, <1>4, SMT DEF TypeOK, EscrowCommit

\* Seeds, invites and revocations.
LEMMA WhitelistingTyped == TypeOK /\ Whitelisting => TypeOK'
<1>. SUFFICES ASSUME TypeOK, Whitelisting PROVE TypeOK'
  OBVIOUS
<1>. USE DEF inviteVars, commitVars, resultVars, settleVars, usdcVars, armVars
<1>1. ASSUME NEW seeds \in SUBSET Addresses, AddSeeds(seeds) PROVE TypeOK'
  <2>1. seeds \X {0} \subseteq Nodes
    BY SMT DEF Nodes, Hops
  <2>. QED  BY <1>1, <2>1 DEF TypeOK, AddSeeds, InitParticipants
<1>2. ASSUME NEW s \in Addresses, NEW i \in Addresses, NEW h \in Hops, Invite(s, i, h)
      PROVE  TypeOK'
  <2>1. <<s, h>> \in Nodes /\ <<i, h + 1>> \in Nodes
    BY <1>2, SMT DEF Invite, MayInvite, Nodes, Hops
  <2>2. invitesSent' \in [Nodes -> Nat]
    BY <1>2, <2>1, SMT DEF Invite, TypeOK
  <2>. QED  BY <1>2, <2>1, <2>2, RegisterTyped DEF TypeOK, Invite
<1>3. ASSUME NEW i \in Addresses, NEW h \in Hops, LaunchTeamInvite(i, h)
      PROVE  TypeOK'
  <2>1. h + 1 \in 1..2 /\ <<i, h + 1>> \in Nodes
    BY <1>3, SMT DEF LaunchTeamInvite, Nodes, Hops
  <2>2. launchTeamUsed' \in [1..2 -> Nat]
    BY <1>3, <2>1, SMT DEF LaunchTeamInvite, TypeOK
  <2>3. LaunchTeam \in Addresses
    BY DEF Addresses
  <2>. QED  BY <1>3, <2>1, <2>2, <2>3, RegisterTyped DEF TypeOK, LaunchTeamInvite
<1>4. ASSUME NEW s \in Addresses, NEW n \in Nonces, RevokeInviteNonce(s, n)
      PROVE  TypeOK'
  BY <1>4 DEF TypeOK, RevokeInviteNonce, UseNonce
<1>. QED  BY <1>1, <1>2, <1>3, <1>4 DEF Whitelisting

\* Deposits, with and without a signed invite.
LEMMA CommittingTyped == TypeOK /\ Committing => TypeOK'
<1>. SUFFICES ASSUME TypeOK, Committing PROVE TypeOK'
  OBVIOUS
<1>. USE DEF inviteVars, resultVars, settleVars, armVars
<1>1. ASSUME NEW s \in Addresses, NEW h \in Hops, NEW amount \in Amounts, Commit(s, h, amount)
      PROVE  TypeOK'
  <2>1. amount \in Nat
    BY InputAssumption
  <2>. QED  BY <1>1, <2>1, EscrowTyped DEF TypeOK, Commit
<1>2. ASSUME NEW s \in Addresses, NEW t \in Tickets, NEW amount \in Amounts,
             CommitWithInvite(s, t, amount)
      PROVE  TypeOK'
  <2>1. amount \in Nat /\ t.inviter \in Addresses /\ t.fromHop \in Hops /\ t.nonce \in Nonces
    BY InputAssumption
  <2>2. t.fromHop + 1 \in Hops
    BY <1>2, <2>1, SMT DEF CommitWithInvite, MayInvite, Hops
  <2>3. <<t.inviter, t.fromHop>> \in Nodes /\ <<s, t.fromHop + 1>> \in Nodes
    BY <2>1, <2>2 DEF Nodes
  <2>4. /\ EscrowCommit(s, t.fromHop + 1, amount)
        /\ RegisterOrStackInvite(<<s, t.fromHop + 1>>, t.inviter)
    BY <1>2 DEF CommitWithInvite
  <2>5. invitesSent' \in [Nodes -> Nat]
    BY <1>2, <2>3, SMT DEF CommitWithInvite, TypeOK
  <2>6. usedNonces' \in [Addresses -> SUBSET Nonces]
    BY <1>2, <2>1 DEF CommitWithInvite, UseNonce, TypeOK
  <2>7. /\ participantNodes' \subseteq Nodes
        /\ invitesReceived' \in [Nodes -> Nat]
        /\ invitedBy' \in [Nodes -> Addresses \cup {NoOne}]
    BY <2>1, <2>3, <2>4, RegisterTyped
  <2>8. /\ committed' \in [Nodes -> Nat]
        /\ hopCommitted' \in [Hops -> Nat]
        /\ uniqueCommitters' \in [Hops -> Nat]
        /\ totalCommitted' \in Nat
        /\ wallet' \in [Addresses -> Nat]
        /\ escrow' \in Nat /\ treasuryUsdc' \in Nat
    BY <2>1, <2>2, <2>4, EscrowTyped
  <2>. QED  BY <1>2, <2>5, <2>6, <2>7, <2>8 DEF TypeOK, CommitWithInvite
<1>. QED  BY <1>1, <1>2 DEF Committing

\* Payments of USDC and ARM.
LEMMA PaymentTyped ==
    ASSUME TypeOK, NEW u \in Addresses, NEW amount \in Nat
    PROVE  /\ PayUsdc(u, amount) => /\ wallet' \in [Addresses -> Nat]
                                    /\ escrow' \in Nat /\ treasuryUsdc' \in Nat
           /\ PayArm(u, amount)  => /\ totalArmTransferred' \in Nat
                                    /\ armHeld' \in [Addresses -> Nat]
                                    /\ armBalance' \in Nat
  BY SMT DEF TypeOK, PayUsdc, PayArm

\* finalize().
LEMMA FinalizeTyped == TypeOK /\ Finalize => TypeOK'
<1>. SUFFICES ASSUME TypeOK, Finalize PROVE TypeOK'
  OBVIOUS
<1>. DEFINE demand     == [h \in Hops |-> CappedCommitted(h)]
            capped     == demand[0] + demand[1] + demand[2]
            size       == SizeFor(capped)
            allocation == TotalAllocation(size, demand)
<1>1. demand \in [Hops -> Nat] /\ capped \in Nat
  <2>1. demand \in [Hops -> Nat]
    BY DemandType
  <2>. HIDE DEF demand
  <2>. QED  BY <2>1, SMT DEF Hops
<1>2. size \in {BaseSale, MaxSale} /\ size \in Nat
  BY SaleAssumption DEF SizeFor
<1>3. HopCeilings(size, demand) \in [Hops -> Nat] /\ allocation \in Nat
  BY <1>1, <1>2, HopCeilingFacts, TotalWithinSale
<1>4. /\ phase' = "Finalized" /\ finalizedAt' = now /\ cappedDemand' = capped
      /\ saleSize' \in {saleSize, size}
      /\ finalCeilings' \in {finalCeilings, HopCeilings(size, demand)}
      /\ finalDemands' \in {finalDemands, demand}
      /\ EnterRefundMode \/ RecordSale(allocation)
      /\ UNCHANGED <<now, armLoaded, inviteVars, commitVars, settleVars, armVars>>
  BY DEF Finalize
<1>. HIDE DEF demand, capped, size, allocation
<1>5. /\ saleSize' \in {0, BaseSale, MaxSale}
      /\ finalCeilings' \in [Hops -> Nat] /\ finalDemands' \in [Hops -> Nat]
      /\ cappedDemand' \in Nat /\ finalizedAt' \in Nat
  BY <1>1, <1>2, <1>3, <1>4 DEF TypeOK
<1>6. /\ refundMode' \in BOOLEAN
      /\ {totalAllocatedUsdc', totalAllocatedArm', claimDeadline'} \subseteq Nat
      /\ {escrow', treasuryUsdc'} \subseteq Nat /\ wallet' \in [Addresses -> Nat]
  <2>1. CASE EnterRefundMode
    BY <2>1 DEF EnterRefundMode, TypeOK, usdcVars
  <2>2. CASE RecordSale(allocation)
    <3>1. ProceedsPush(allocation) \in Nat
      BY <1>3, BufferType, SMT DEF ProceedsPush
    <3>2. /\ totalAllocatedArm' = allocation * ArmPerUsdc /\ ArmPerUsdc \in Nat
          /\ claimDeadline' = now + ClaimDeadlineDuration /\ ClaimDeadlineDuration \in Nat
      BY <2>2, SaleAssumption, TimeAssumption DEF RecordSale
    <3>. QED  BY <1>3, <2>2, <3>1, <3>2, SMT DEF RecordSale, TypeOK
  <2>. QED  BY <1>4, <2>1, <2>2
<1>. QED
  BY <1>4, <1>5, <1>6 DEF TypeOK, inviteVars, commitVars, settleVars, armVars

\* claim(), claimRefund() and the sweep of unallocated ARM.
LEMMA SettlingTyped == TypeOK /\ Settling => TypeOK'
<1>. SUFFICES ASSUME TypeOK, Settling PROVE TypeOK'
  OBVIOUS
<1>. USE DEF inviteVars, commitVars, resultVars, settleVars, usdcVars, armVars
<1>1. ASSUME NEW u \in Addresses, NEW d \in BOOLEAN, Claim(u, d) PROVE TypeOK'
  <2>1. ArmDue(u) \in Nat
    <3>1. AllocatedTo(u) \in Nat /\ ArmPerUsdc \in Nat
      BY UserSums, SaleAssumption
    <3>. QED  BY <3>1, SMT DEF ArmDue
  <2>2. /\ totalArmTransferred' \in Nat
        /\ armHeld' \in [Addresses -> Nat] /\ armBalance' \in Nat
    BY <1>1, <2>1, PaymentTyped DEF Claim
  <2>3. /\ wallet' \in [Addresses -> Nat]
        /\ escrow' \in Nat /\ treasuryUsdc' \in Nat
    \* A refund is the deposit less the allocation; were it negative, the transfer would revert.
    <3>1. RefundTo(u) \in Nat
      BY <1>1, UserSums, RefundNatural
    <3>. QED  BY <1>1, <3>1, PaymentTyped DEF Claim
  <2>. QED  BY <1>1, <2>2, <2>3 DEF TypeOK, Claim
<1>2. ASSUME NEW u \in Addresses, ClaimRefund(u) PROVE TypeOK'
  <2>1. /\ wallet' \in [Addresses -> Nat]
        /\ escrow' \in Nat /\ treasuryUsdc' \in Nat
    BY <1>2, UserSums, PaymentTyped DEF ClaimRefund
  <2>. QED  BY <1>2, <2>1 DEF TypeOK, ClaimRefund
<1>3. ASSUME WithdrawUnallocatedArm PROVE TypeOK'
  <2>1. armBalance' \in Nat
    BY <1>3, SMT DEF TypeOK, WithdrawUnallocatedArm, ArmStillOwed
  <2>. QED  BY <1>3, <2>1 DEF TypeOK, WithdrawUnallocatedArm
<1>. QED  BY <1>1, <1>2, <1>3 DEF Settling

\* ARM that arrives, its loading, cancellation and time.
LEMMA SupplyTyped ==
    ASSUME TypeOK, \/ \E amount \in ArmGrants : ReceiveArm(amount)
                   \/ LoadArm \/ Cancel \/ Tick
    PROVE  TypeOK'
<1>. USE DEF inviteVars, commitVars, resultVars, settleVars, usdcVars, armVars
<1>1. ASSUME NEW amount \in ArmGrants, ReceiveArm(amount) PROVE TypeOK'
  <2>1. armBalance' \in Nat
    BY <1>1, InputAssumption, SMT DEF TypeOK, ReceiveArm
  <2>. QED  BY <1>1, <2>1 DEF TypeOK, ReceiveArm
<1>2. CASE LoadArm
  BY <1>2 DEF TypeOK, LoadArm
<1>3. CASE Cancel
  BY <1>3 DEF TypeOK, Cancel
<1>4. CASE Tick
  <2>1. now' \in Nat
    BY <1>4, SMT DEF TypeOK, Tick
  <2>. QED  BY <1>4, <2>1 DEF TypeOK, Tick
<1>. QED  BY <1>1, <1>2, <1>3, <1>4

\* Every step.
LEMMA NextTyped == TypeOK /\ [Next]_vars => TypeOK'
<1>. SUFFICES ASSUME TypeOK, [Next]_vars PROVE TypeOK'
  OBVIOUS
<1>1. CASE Next
  BY <1>1, WhitelistingTyped, CommittingTyped, SupplyTyped, FinalizeTyped, SettlingTyped
  DEF Next
<1>2. CASE UNCHANGED vars
  BY <1>2 DEF TypeOK, vars, inviteVars, commitVars, resultVars, settleVars, usdcVars, armVars
<1>. QED  BY <1>1, <1>2

(***************************************************************************)
(* The state keeps its types: in particular no checked subtraction of      *)
(* claim(), claimRefund() or finalize() takes a balance below zero, and a  *)
(* refund is never negative.                                               *)
(***************************************************************************)
THEOREM TypeCorrect == Spec => []TypeOK
  BY InitTyped, NextTyped, PTL DEF Spec

-----------------------------------------------------------------------------
(***************************************************************************)
(* Only settlement and commitments move money, and only invites change the *)
(* structure: what each group of operations leaves alone.                  *)
(***************************************************************************)
LEMMA SettlingFrame ==
    ASSUME Settling
    PROVE  UNCHANGED <<now, phase, armLoaded, refundMode, inviteVars, commitVars, resultVars>>
  BY DEF Settling, Claim, ClaimRefund, WithdrawUnallocatedArm

\* The supply of ARM, cancellation and finalization leave invitations and deposits alone.
LEMMA SupplyFrame ==
    ASSUME \/ \E amount \in ArmGrants : ReceiveArm(amount)
           \/ LoadArm \/ Cancel \/ Finalize \/ Tick
    PROVE  UNCHANGED <<inviteVars, commitVars, settleVars, armHeld>>
  BY DEF ReceiveArm, LoadArm, Cancel, Finalize, Tick, armVars, settleVars

(***************************************************************************)
(* Once the sale is finalized or cancelled nothing that settlement reads   *)
(* changes any more: every other operation requires the active phase.      *)
(***************************************************************************)
THEOREM OutcomeNeverChanges == Spec => OutcomeIsFinal
<1>1. ASSUME TypeOK, [Next]_vars, phase # "Active"
      PROVE  UNCHANGED <<phase, refundMode, participantNodes, invitesReceived,
                         invitesSent, commitVars, resultVars>>
  <2>. USE DEF inviteVars, commitVars, resultVars
  <2>1. CASE Whitelisting
    <3>1. UNCHANGED <<phase, refundMode, commitVars, resultVars, participantNodes,
                      invitesReceived, invitesSent>>
      BY <1>1, <2>1 DEF Whitelisting, AddSeeds, Invite, LaunchTeamInvite,
                        RevokeInviteNonce, InLaunchTeamWindow
    <3>. QED  BY <3>1
  <2>2. CASE Committing
    BY <1>1, <2>2 DEF Committing, Commit, CommitWithInvite, InCommitWindow
  <2>3. CASE \/ \E amount \in ArmGrants : ReceiveArm(amount)
             \/ LoadArm \/ Tick
    BY <2>3 DEF ReceiveArm, LoadArm, Tick
  <2>4. CASE Cancel
    BY <1>1, <2>4 DEF Cancel, TypeOK
  <2>5. CASE Finalize
    BY <1>1, <2>5 DEF Finalize
  <2>6. CASE Settling
    BY <2>6, SettlingFrame
  <2>7. CASE UNCHANGED vars
    BY <2>7 DEF vars
  <2>. QED  BY <1>1, <2>1, <2>2, <2>3, <2>4, <2>5, <2>6, <2>7 DEF Next
<1>2. TypeOK /\ [Next]_vars =>
        [phase # "Active" =>
          UNCHANGED <<phase, refundMode, participantNodes, invitesReceived,
                      invitesSent, commitVars, resultVars>>]_vars
  BY <1>1
<1>. QED  BY <1>2, TypeCorrect, PTL DEF Spec, OutcomeIsFinal

-----------------------------------------------------------------------------
(***************************************************************************)
(* The launch team hands out invites and never takes part.                 *)
(***************************************************************************)
LEMMA StaysOutPreserved ==
    ASSUME TypeOK, LaunchTeamStaysOut, [Next]_vars
    PROVE  LaunchTeamStaysOut'
<1>. USE DEF inviteVars, commitVars, settleVars, armVars
<1>1. ASSUME UNCHANGED <<participantNodes, committed, armHeld>>
      PROVE  LaunchTeamStaysOut'
  BY <1>1 DEF LaunchTeamStaysOut, CommittedBy
\* A new node belongs to somebody else, and no deposit and no ARM changed.
<1>2. ASSUME NEW nodes \in SUBSET Nodes, \A n \in nodes : n[1] # LaunchTeam,
             participantNodes' = participantNodes \cup nodes,
             UNCHANGED <<committed, armHeld>>
      PROVE  LaunchTeamStaysOut'
  BY <1>2 DEF LaunchTeamStaysOut, CommittedBy
<1>3. ASSUME NEW node \in Nodes, NEW inviter, node[1] # LaunchTeam,
             RegisterOrStackInvite(node, inviter)
      PROVE  \E nodes \in SUBSET Nodes :
                /\ \A n \in nodes : n[1] # LaunchTeam
                /\ participantNodes' = participantNodes \cup nodes
  <2>1. participantNodes' = participantNodes \cup {node} \/ participantNodes' = participantNodes \cup {}
    BY <1>3 DEF RegisterOrStackInvite, InitParticipants
  <2>2. {node} \in SUBSET Nodes /\ {} \in SUBSET Nodes /\ \A n \in {node} : n[1] # LaunchTeam
    BY <1>3
  <2>. QED  BY <2>1, <2>2
<1>4. CASE Whitelisting
  <2>0. UNCHANGED <<committed, armHeld>>
    BY <1>4 DEF Whitelisting, AddSeeds, Invite, LaunchTeamInvite, RevokeInviteNonce
  <2>1. ASSUME NEW seeds \in SUBSET Addresses, AddSeeds(seeds) PROVE LaunchTeamStaysOut'
    <3>1. seeds \X {0} \in SUBSET Nodes /\ \A n \in seeds \X {0} : n[1] # LaunchTeam
      BY <2>1, SMT DEF Nodes, Hops, AddSeeds
    <3>2. participantNodes' = participantNodes \cup (seeds \X {0})
      BY <2>1 DEF AddSeeds, InitParticipants
    <3>. QED  BY <1>2, <2>0, <3>1, <3>2
  <2>2. ASSUME NEW s \in Addresses, NEW i \in Addresses, NEW h \in Hops, Invite(s, i, h)
        PROVE  LaunchTeamStaysOut'
    <3>1. <<i, h + 1>> \in Nodes /\ i # LaunchTeam
      BY <2>2, SMT DEF Invite, MayInvite, Nodes, Hops
    <3>2. RegisterOrStackInvite(<<i, h + 1>>, s)
      BY <2>2 DEF Invite
    <3>. QED  BY <1>2, <1>3, <2>0, <3>1, <3>2
  <2>3. ASSUME NEW i \in Addresses, NEW h \in Hops, LaunchTeamInvite(i, h)
        PROVE  LaunchTeamStaysOut'
    <3>1. <<i, h + 1>> \in Nodes /\ i # LaunchTeam
      BY <2>3, SMT DEF LaunchTeamInvite, Nodes, Hops
    <3>2. RegisterOrStackInvite(<<i, h + 1>>, LaunchTeam)
      BY <2>3 DEF LaunchTeamInvite
    <3>. QED  BY <1>2, <1>3, <2>0, <3>1, <3>2
  <2>4. ASSUME NEW s \in Addresses, NEW n \in Nonces, RevokeInviteNonce(s, n)
        PROVE  LaunchTeamStaysOut'
    BY <1>1, <2>4 DEF RevokeInviteNonce
  <2>. QED  BY <1>4, <2>1, <2>2, <2>3, <2>4 DEF Whitelisting
<1>5. CASE Committing
  <2>1. ASSUME NEW u \in Addresses, NEW hop \in Hops, NEW amount,
               u # LaunchTeam, EscrowCommit(u, hop, amount)
        PROVE  CommittedBy(LaunchTeam)' = CommittedBy(LaunchTeam)
    <3>1. \A h \in Hops : /\ <<LaunchTeam, h>> \in Nodes
                          /\ <<LaunchTeam, h>> # <<u, hop>>
      BY <2>1 DEF Nodes, Addresses
    <3>2. \A h \in Hops : committed'[<<LaunchTeam, h>>] = committed[<<LaunchTeam, h>>]
      BY <2>1, <3>1 DEF EscrowCommit, TypeOK
    <3>. QED  BY <3>2, SMT DEF CommittedBy, Hops
  <2>2. ASSUME NEW s \in Addresses, NEW h \in Hops, NEW amount \in Amounts, Commit(s, h, amount)
        PROVE  LaunchTeamStaysOut'
    BY <2>1, <2>2 DEF Commit, LaunchTeamStaysOut
  <2>3. ASSUME NEW s \in Addresses, NEW t \in Tickets, NEW amount \in Amounts,
               CommitWithInvite(s, t, amount)
        PROVE  LaunchTeamStaysOut'
    <3>1. t.fromHop + 1 \in Hops /\ <<s, t.fromHop + 1>> \in Nodes
      BY <2>3, InputAssumption, SMT DEF CommitWithInvite, MayInvite, Hops, Nodes
    <3>2. /\ s # LaunchTeam /\ armHeld' = armHeld
          /\ EscrowCommit(s, t.fromHop + 1, amount)
          /\ RegisterOrStackInvite(<<s, t.fromHop + 1>>, t.inviter)
      BY <2>3 DEF CommitWithInvite
    <3>3. CommittedBy(LaunchTeam)' = CommittedBy(LaunchTeam)
      BY <2>1, <3>1, <3>2
    <3>4. \A h \in Hops : <<LaunchTeam, h>> \notin participantNodes'
      BY <1>3, <3>1, <3>2 DEF LaunchTeamStaysOut
    <3>. QED  BY <3>2, <3>3, <3>4 DEF LaunchTeamStaysOut
  <2>. QED  BY <1>5, <2>2, <2>3 DEF Committing
<1>6. CASE Settling
  <2>1. UNCHANGED <<participantNodes, committed>>
    BY <1>6, SettlingFrame
  <2>2. armHeld'[LaunchTeam] = armHeld[LaunchTeam]
    <3>1. ASSUME NEW u \in Addresses, NEW d \in BOOLEAN, Claim(u, d)
          PROVE  armHeld'[LaunchTeam] = armHeld[LaunchTeam]
      <4>1. u # LaunchTeam
        BY <3>1, SMT DEF Claim, HasUnsettledCommitment, LaunchTeamStaysOut
      <4>. QED  BY <3>1, <4>1 DEF Claim, PayArm, TypeOK, Addresses
    <3>. QED  BY <1>6, <3>1 DEF Settling, ClaimRefund, WithdrawUnallocatedArm
  <2>. QED  BY <2>1, <2>2 DEF LaunchTeamStaysOut, CommittedBy
<1>7. CASE \/ \E amount \in ArmGrants : ReceiveArm(amount)
           \/ LoadArm \/ Cancel \/ Finalize \/ Tick
  BY <1>1, <1>7, SupplyFrame
<1>8. CASE UNCHANGED vars
  BY <1>1, <1>8 DEF vars
<1>. QED  BY <1>4, <1>5, <1>6, <1>7, <1>8 DEF Next

\* LaunchTeamStaysOut: no path that creates nodes whitelists the launch team,
\* and it neither deposits nor receives ARM.
THEOREM LaunchTeamNeverTakesPart == Spec => []LaunchTeamStaysOut
<1>1. Init => LaunchTeamStaysOut
  <2>. SUFFICES ASSUME Init PROVE LaunchTeamStaysOut
    OBVIOUS
  <2>1. LaunchTeam \in Addresses /\ \A h \in Hops : <<LaunchTeam, h>> \in Nodes
    BY DEF Nodes, Addresses
  <2>2. \A h \in Hops : committed[<<LaunchTeam, h>>] = 0
    BY <2>1 DEF Init
  <2>3. CommittedBy(LaunchTeam) = 0
    BY <2>2, SMT DEF CommittedBy, Hops
  <2>. QED  BY <2>1, <2>3 DEF Init, LaunchTeamStaysOut
<1>2. TypeOK /\ LaunchTeamStaysOut /\ [Next]_vars => LaunchTeamStaysOut'
  BY StaysOutPreserved
<1>. QED  BY <1>1, <1>2, TypeCorrect, PTL DEF Spec

-----------------------------------------------------------------------------
(***************************************************************************)
(* What an invite does to the graph: it adds at most the invited node, and *)
(* records the inviter there and nowhere else.                             *)
(***************************************************************************)
LEMMA RegisterFacts ==
    ASSUME TypeOK, NEW node \in Nodes, NEW inviter, RegisterOrStackInvite(node, inviter)
    PROVE  /\ participantNodes \subseteq participantNodes'
           /\ \A n \in participantNodes' :
                 \/ n \in participantNodes /\ invitedBy'[n] = invitedBy[n]
                 \/ n = node /\ invitedBy'[n] = inviter
<1>1. CASE node \notin participantNodes
  BY <1>1 DEF TypeOK, RegisterOrStackInvite, InitParticipants
<1>2. CASE node \in participantNodes
  BY <1>2 DEF TypeOK, RegisterOrStackInvite
<1>. QED  BY <1>1, <1>2

\* A forest stays one when nodes are added below nodes that sent an invite.
LEMMA ForestGrows ==
    ASSUME TypeOK, InviteForest,
           participantNodes \subseteq participantNodes',
           \A n \in Nodes : invitesSent'[n] \in Nat /\ invitesSent'[n] >= invitesSent[n],
           \A n \in participantNodes' :
              \/ n \in participantNodes /\ invitedBy'[n] = invitedBy[n]
              \/ n[2] = 0 /\ invitedBy'[n] = NoOne
              \/ n[2] # 0 /\ invitedBy'[n] = LaunchTeam
              \/ /\ n[2] # 0
                 /\ <<invitedBy'[n], n[2] - 1>> \in participantNodes'
                 /\ invitesSent'[<<invitedBy'[n], n[2] - 1>>] > 0
    PROVE  InviteForest'
<1>. SUFFICES ASSUME NEW n \in participantNodes'
              PROVE  IF n[2] = 0 THEN invitedBy'[n] = NoOne
                     ELSE \/ invitedBy'[n] = LaunchTeam
                          \/ /\ <<invitedBy'[n], n[2] - 1>> \in participantNodes'
                             /\ invitesSent'[<<invitedBy'[n], n[2] - 1>>] > 0
  BY DEF InviteForest
<1>1. CASE n \in participantNodes /\ invitedBy'[n] = invitedBy[n]
  <2>. DEFINE parent == <<invitedBy[n], n[2] - 1>>
  <2>1. IF n[2] = 0 THEN invitedBy[n] = NoOne
        ELSE invitedBy[n] = LaunchTeam \/ (parent \in participantNodes /\ invitesSent[parent] > 0)
    BY <1>1 DEF InviteForest
  <2>2. parent \in participantNodes /\ invitesSent[parent] > 0
        => parent \in participantNodes' /\ invitesSent'[parent] > 0
    <3>. HIDE DEF parent
    <3>. QED  BY SMT DEF TypeOK
  <2>. QED  BY <1>1, <2>1, <2>2
<1>. QED  BY <1>1

\* Every step keeps the forest.
LEMMA ForestPreserved ==
    ASSUME TypeOK, InviteForest, [Next]_vars
    PROVE  InviteForest'
<1>. USE DEF inviteVars, commitVars, settleVars, armVars
<1>1. ASSUME UNCHANGED <<participantNodes, invitesSent, invitedBy>>
      PROVE  InviteForest'
  BY <1>1 DEF InviteForest
\* Invites by a participant, direct or signed.
<1>2. ASSUME NEW s \in Addresses, NEW i \in Addresses, NEW h \in Hops, NEW k \in Hops,
             k = h + 1, <<s, h>> \in participantNodes,
             RegisterOrStackInvite(<<i, k>>, s),
             invitesSent' = [invitesSent EXCEPT ![<<s, h>>] = @ + 1]
      PROVE  InviteForest'
  <2>1. <<s, h>> \in Nodes /\ <<i, k>> \in Nodes
    BY DEF Nodes
  <2>2. /\ \A n \in Nodes : invitesSent'[n] \in Nat /\ invitesSent'[n] >= invitesSent[n]
        /\ invitesSent'[<<s, h>>] > 0
    BY <1>2, <2>1, SMT DEF TypeOK
  <2>3. /\ participantNodes \subseteq participantNodes'
        /\ \A n \in participantNodes' :
              \/ n \in participantNodes /\ invitedBy'[n] = invitedBy[n]
              \/ n = <<i, k>> /\ invitedBy'[n] = s
    BY <1>2, <2>1, RegisterFacts
  <2>4. k # 0 /\ k - 1 = h
    BY <1>2, SMT DEF Hops
  <2>5. \A n \in participantNodes' :
              \/ n \in participantNodes /\ invitedBy'[n] = invitedBy[n]
              \/ /\ n[2] # 0
                 /\ <<invitedBy'[n], n[2] - 1>> \in participantNodes'
                 /\ invitesSent'[<<invitedBy'[n], n[2] - 1>>] > 0
    BY <1>2, <2>2, <2>3, <2>4
  <2>. QED  BY <2>2, <2>3, <2>5, ForestGrows
<1>3. CASE Whitelisting
  <2>1. ASSUME NEW seeds \in SUBSET Addresses, AddSeeds(seeds) PROVE InviteForest'
    <3>1. /\ participantNodes' = participantNodes \cup (seeds \X {0})
          /\ participantNodes \cap (seeds \X {0}) = {}
          /\ invitedBy' = [n \in Nodes |-> IF n \in seeds \X {0} THEN NoOne ELSE invitedBy[n]]
          /\ invitesSent' = invitesSent
      BY <2>1 DEF AddSeeds, InitParticipants
    <3>2. seeds \X {0} \subseteq Nodes
      BY SMT DEF Nodes, Hops
    <3>3. \A n \in participantNodes' :
             \/ n \in participantNodes /\ invitedBy'[n] = invitedBy[n]
             \/ n[2] = 0 /\ invitedBy'[n] = NoOne
      BY <3>1, <3>2 DEF TypeOK
    <3>4. \A n \in Nodes : invitesSent'[n] \in Nat /\ invitesSent'[n] >= invitesSent[n]
      BY <3>1, SMT DEF TypeOK
    <3>. QED  BY <3>1, <3>3, <3>4, ForestGrows
  <2>2. ASSUME NEW s \in Addresses, NEW i \in Addresses, NEW h \in Hops, Invite(s, i, h)
        PROVE  InviteForest'
    <3>1. h + 1 \in Hops
      BY <2>2, SMT DEF Invite, MayInvite, Hops
    <3>. QED  BY <1>2, <2>2, <3>1 DEF Invite, MayInvite
  <2>3. ASSUME NEW i \in Addresses, NEW h \in Hops, LaunchTeamInvite(i, h)
        PROVE  InviteForest'
    <3>1. h + 1 \in Hops /\ <<i, h + 1>> \in Nodes /\ h + 1 # 0
      BY <2>3, SMT DEF LaunchTeamInvite, Hops, Nodes
    <3>2. /\ participantNodes \subseteq participantNodes'
          /\ \A n \in participantNodes' :
                \/ n \in participantNodes /\ invitedBy'[n] = invitedBy[n]
                \/ n[2] # 0 /\ invitedBy'[n] = LaunchTeam
      BY <2>3, <3>1, RegisterFacts DEF LaunchTeamInvite
    <3>3. \A n \in Nodes : invitesSent'[n] \in Nat /\ invitesSent'[n] >= invitesSent[n]
      BY <2>3, SMT DEF TypeOK, LaunchTeamInvite
    <3>. QED  BY <3>2, <3>3, ForestGrows
  <2>4. ASSUME NEW s \in Addresses, NEW n \in Nonces, RevokeInviteNonce(s, n)
        PROVE  InviteForest'
    BY <1>1, <2>4 DEF RevokeInviteNonce
  <2>. QED  BY <1>3, <2>1, <2>2, <2>3, <2>4 DEF Whitelisting
<1>4. CASE Committing
  <2>1. ASSUME NEW s \in Addresses, NEW h \in Hops, NEW amount \in Amounts, Commit(s, h, amount)
        PROVE  InviteForest'
    BY <1>1, <2>1 DEF Commit
  <2>2. ASSUME NEW s \in Addresses, NEW t \in Tickets, NEW amount \in Amounts,
               CommitWithInvite(s, t, amount)
        PROVE  InviteForest'
    <3>1. t.inviter \in Addresses /\ t.fromHop \in Hops
      BY InputAssumption
    <3>2. t.fromHop + 1 \in Hops
      BY <2>2, <3>1, SMT DEF CommitWithInvite, MayInvite, Hops
    <3>3. /\ <<t.inviter, t.fromHop>> \in participantNodes
          /\ RegisterOrStackInvite(<<s, t.fromHop + 1>>, t.inviter)
          /\ invitesSent' = [invitesSent EXCEPT ![<<t.inviter, t.fromHop>>] = @ + 1]
      BY <2>2 DEF CommitWithInvite, MayInvite
    <3>. QED  BY <1>2, <3>1, <3>2, <3>3
  <2>. QED  BY <1>4, <2>1, <2>2 DEF Committing
<1>5. CASE Settling
  BY <1>1, <1>5, SettlingFrame
<1>6. CASE \/ \E amount \in ArmGrants : ReceiveArm(amount)
           \/ LoadArm \/ Cancel \/ Finalize \/ Tick
  BY <1>1, <1>6, SupplyFrame
<1>7. CASE UNCHANGED vars
  BY <1>1, <1>7 DEF vars
<1>. QED  BY <1>3, <1>4, <1>5, <1>6, <1>7 DEF Next

(***************************************************************************)
(* The invite graph is a forest: every node beyond the seeds was invited   *)
(* by the launch team or by a participant one hop up that spent an invite. *)
(***************************************************************************)
THEOREM InvitesFormAForest == Spec => []InviteForest
<1>1. Init => InviteForest
  BY DEF Init, InviteForest
<1>2. TypeOK /\ InviteForest /\ [Next]_vars => InviteForest'
  BY ForestPreserved
<1>. QED  BY <1>1, <1>2, TypeCorrect, PTL DEF Spec

-----------------------------------------------------------------------------
(* Sums over the nodes of a hop *)

HopNodes(h) == {n \in Nodes : n[2] = h}

\* Who is not whitelisted was never invited, never invited and holds no deposit.
Outsiders ==
    \A n \in Nodes :
        IF n \in participantNodes THEN invitesReceived[n] >= 1
        ELSE invitesReceived[n] = 0 /\ invitesSent[n] = 0 /\ committed[n] = 0

\* A hop has finitely many nodes.
LEMMA HopNodesFinite ==
    ASSUME NEW h
    PROVE  HopNodes(h) \in SUBSET Nodes /\ IsFiniteSet(HopNodes(h))
  BY NodesFinite, FS_Subset DEF HopNodes

\* A function that is zero outside a set of nodes has the same sum over the
\* set's nodes of a hop as over all of them.
LEMMA SumAtHop ==
    ASSUME NEW f \in [Nodes -> Nat], NEW P \in SUBSET Nodes, NEW h,
           \A n \in Nodes \ P : f[n] = 0
    PROVE  SumOver(f, {n \in P : n[2] = h}) = SumOver(f, HopNodes(h))
<1>. DEFINE A == {n \in P : n[2] = h}
            B == HopNodes(h) \ A
<1>1. HopNodes(h) = A \cup B /\ A \cap B = {} /\ A \in SUBSET Nodes /\ B \in SUBSET Nodes
  BY DEF HopNodes
<1>2. IsFiniteSet(A) /\ IsFiniteSet(B)
  BY <1>1, HopNodesFinite, FS_Subset
<1>3. SumOver(f, B) = 0
  <2>1. \A n \in B : f[n] = 0
    BY DEF HopNodes
  <2>. QED BY <2>1, SumOfZeros
<1>. HIDE DEF A, B
<1>4. SumOver(f, A \cup B) = SumOver(f, A) + SumOver(f, B) /\ SumOver(f, A) \in Nat
  BY <1>1, <1>2, SumOfDisjoint, SumType
<1>5. SumOver(f, HopNodes(h)) = SumOver(f, A)
  BY <1>1, <1>3, <1>4, SMT
<1>. QED BY <1>5 DEF A

\* The sum over all nodes is that of the three hops.
LEMMA SumOverHops ==
    ASSUME NEW f \in [Nodes -> Nat]
    PROVE  SumOver(f, Nodes) =
             SumOver(f, HopNodes(0)) + SumOver(f, HopNodes(1)) + SumOver(f, HopNodes(2))
<1>. DEFINE A == HopNodes(0)
            B == HopNodes(1)
            C == HopNodes(2)
<1>1. /\ Nodes = (A \cup B) \cup C /\ A \cap B = {} /\ (A \cup B) \cap C = {}
      /\ A \cup B \in SUBSET Nodes
  BY SMT DEF HopNodes, Nodes, Hops
<1>2. /\ IsFiniteSet(A) /\ IsFiniteSet(B) /\ IsFiniteSet(C) /\ IsFiniteSet(A \cup B)
      /\ A \in SUBSET Nodes /\ B \in SUBSET Nodes /\ C \in SUBSET Nodes
  BY HopNodesFinite, FS_Union
<1>. HIDE DEF A, B, C
<1>3. SumOver(f, A \cup B) = SumOver(f, A) + SumOver(f, B)
  BY <1>1, <1>2, SumOfDisjoint
<1>4. SumOver(f, (A \cup B) \cup C) = SumOver(f, A \cup B) + SumOver(f, C)
  BY <1>1, <1>2, SumOfDisjoint
<1>5. SumOver(f, Nodes) = SumOver(f, A) + SumOver(f, B) + SumOver(f, C)
  BY <1>1, <1>3, <1>4, Zenon
<1>. QED BY <1>5 DEF A, B, C

\* The sum over all nodes, grouped by account.
LEMMA SumByAccount ==
    ASSUME NEW f \in [Nodes -> Nat], NEW g \in [Addresses -> Nat],
           \A a \in Addresses : g[a] = f[<<a, 0>>] + f[<<a, 1>>] + f[<<a, 2>>]
    PROVE  SumOver(f, Nodes) = SumOver(g, Addresses)
<1>1. Nodes = Addresses \X (0..2) /\ IsFiniteSet(Addresses)
  BY NodesFinite DEF Nodes, Hops
<1>. QED BY <1>1, SumByFirst

\* The value of one node changes: so does its hop's sum, and no other.
LEMMA SumOneNode ==
    ASSUME NEW f \in [Nodes -> Nat], NEW g \in [Nodes -> Nat], NEW n \in Nodes,
           \A m \in Nodes \ {n} : g[m] = f[m], NEW h
    PROVE  /\ n[2] = h => SumOver(g, HopNodes(h)) + f[n] = SumOver(f, HopNodes(h)) + g[n]
           /\ n[2] # h => SumOver(g, HopNodes(h)) = SumOver(f, HopNodes(h))
           /\ SumOver(f, HopNodes(h)) \in Nat /\ SumOver(g, HopNodes(h)) \in Nat
<1>1. HopNodes(h) \in SUBSET Nodes /\ IsFiniteSet(HopNodes(h))
  BY HopNodesFinite
<1>2. SumOver(f, HopNodes(h)) \in Nat /\ SumOver(g, HopNodes(h)) \in Nat
  BY <1>1, SumType
<1>3. CASE n[2] = h
  <2>1. n \in HopNodes(h) /\ \A m \in HopNodes(h) \ {n} : g[m] = f[m]
    BY <1>3 DEF HopNodes
  <2>2. SumOver(g, HopNodes(h)) + f[n] = SumOver(f, HopNodes(h)) + g[n]
    BY <1>1, <2>1, SumUpdate
  <2>. QED BY <1>2, <1>3, <2>2
<1>4. CASE n[2] # h
  <2>1. \A m \in HopNodes(h) : g[m] = f[m]
    BY <1>4 DEF HopNodes
  <2>. QED BY <1>2, <1>4, <2>1, SumCongruence
<1>. QED BY <1>3, <1>4

-----------------------------------------------------------------------------
(* What a step does to the structure of invitations *)

\* The four kinds of change, with their guards.
NoInvite == UNCHANGED <<participantNodes, invitesReceived, invitesSent, launchTeamUsed>>

SeedsAdded ==
    \E nodes \in SUBSET HopNodes(0) :
       /\ nodes \cap participantNodes = {}
       /\ Cardinality(NodesAt(0)) + Cardinality(nodes) <= MaxSeeds
       /\ participantNodes' = participantNodes \cup nodes
       /\ invitesReceived' = [n \in Nodes |-> IF n \in nodes THEN 1 ELSE invitesReceived[n]]
       /\ UNCHANGED <<invitesSent, launchTeamUsed>>

InviteTaken(node) ==
    /\ participantNodes' = participantNodes \cup {node}
    /\ invitesReceived' = [invitesReceived EXCEPT ![node] = @ + 1]

PaidByNode(node, inviter) ==
    /\ inviter[2] + 1 = node[2]
    /\ invitesSent[inviter] < InviteBudget(inviter)
    /\ invitesSent' = [invitesSent EXCEPT ![inviter] = @ + 1]
    /\ UNCHANGED launchTeamUsed

PaidByTeam(node) ==
    /\ node[2] \in 1..2
    /\ launchTeamUsed[node[2]] < LaunchTeamBudget[node[2]]
    /\ launchTeamUsed' = [launchTeamUsed EXCEPT ![node[2]] = @ + 1]
    /\ UNCHANGED invitesSent

Structural ==
    /\ \/ NoInvite
       \/ SeedsAdded
       \/ \E node \in Nodes :
             /\ InviteTaken(node)
             /\ \/ PaidByTeam(node)
                \/ \E inviter \in participantNodes : PaidByNode(node, inviter)
    /\ UNCHANGED participantNodes \/ Cardinality(participantNodes') <= MaxFinalizeNodes

\* An invite that creates its node and one that stacks on it count alike.
LEMMA RegisterCounts ==
    ASSUME TypeOK, Outsiders, NEW node \in Nodes, NEW inviter,
           RegisterOrStackInvite(node, inviter)
    PROVE  /\ InviteTaken(node)
           /\ UNCHANGED participantNodes \/ Cardinality(participantNodes') <= MaxFinalizeNodes
<1>1. CASE node \notin participantNodes
  <2>1. /\ participantNodes' = participantNodes \cup {node}
        /\ invitesReceived' = [n \in Nodes |-> IF n \in {node} THEN 1 ELSE invitesReceived[n]]
        /\ Cardinality(participantNodes) + Cardinality({node}) <= MaxFinalizeNodes
    BY <1>1 DEF RegisterOrStackInvite, InitParticipants
  <2>2. invitesReceived[node] = 0 /\ invitesReceived \in [Nodes -> Nat]
    BY <1>1 DEF Outsiders, TypeOK
  <2>3. invitesReceived' = [invitesReceived EXCEPT ![node] = @ + 1]
    <3>1. invitesReceived[node] + 1 = 1
      BY <2>2, SMT
    <3>. QED BY <2>1, <2>2, <3>1, Zenon
  <2>4. /\ Cardinality({node}) = 1
        /\ Cardinality(participantNodes') = Cardinality(participantNodes) + 1
    BY <1>1, <2>1, BufferType, FS_Singleton, FS_AddElement
  <2>. QED BY <2>1, <2>3, <2>4 DEF InviteTaken
<1>2. CASE node \in participantNodes
  BY <1>2 DEF RegisterOrStackInvite, InviteTaken
<1>. QED BY <1>1, <1>2

\* Every step is one of those kinds.
LEMMA StepIsStructural ==
    ASSUME TypeOK, Outsiders, [Next]_vars
    PROVE  Structural
<1>. USE DEF inviteVars, commitVars, settleVars, armVars
<1>1. ASSUME UNCHANGED <<participantNodes, invitesReceived, invitesSent, launchTeamUsed>>
      PROVE  Structural
  BY <1>1 DEF Structural, NoInvite
\* Invites by a participant, direct or signed.
<1>2. ASSUME NEW s \in Addresses, NEW i \in Addresses, NEW h \in Hops, NEW k \in Hops,
             k = h + 1, MayInvite(<<s, h>>),
             RegisterOrStackInvite(<<i, k>>, s),
             invitesSent' = [invitesSent EXCEPT ![<<s, h>>] = @ + 1],
             UNCHANGED launchTeamUsed
      PROVE  Structural
  <2>1. <<i, k>> \in Nodes /\ <<s, h>> \in participantNodes
    BY <1>2 DEF Nodes, MayInvite
  <2>2. PaidByNode(<<i, k>>, <<s, h>>)
    BY <1>2 DEF PaidByNode, MayInvite
  <2>. QED BY <1>2, <2>1, <2>2, RegisterCounts DEF Structural
<1>3. CASE Whitelisting
  <2>1. ASSUME NEW seeds \in SUBSET Addresses, AddSeeds(seeds) PROVE Structural
    <3>. DEFINE nodes == seeds \X {0}
    <3>1. nodes \in SUBSET HopNodes(0) /\ nodes \cap participantNodes = {}
      BY <2>1, SMT DEF HopNodes, Nodes, Hops, AddSeeds
    <3>2. IsFiniteSet(seeds) /\ IsFiniteSet({0}) /\ Cardinality({0}) = 1
      BY NodesFinite, FS_Subset, FS_Singleton
    <3>3. Cardinality(seeds) \in Nat /\ Cardinality(nodes) = Cardinality(seeds) * Cardinality({0})
          /\ IsFiniteSet(nodes)
      BY <3>2, FS_Product, FS_CardinalityType
    <3>4. Cardinality(nodes) = Cardinality(seeds)
      BY <3>2, <3>3, SMT
    <3>5. /\ Cardinality(NodesAt(0)) + Cardinality(nodes) <= MaxSeeds
          /\ participantNodes' = participantNodes \cup nodes
          /\ invitesReceived' = [n \in Nodes |-> IF n \in nodes THEN 1 ELSE invitesReceived[n]]
          /\ UNCHANGED <<invitesSent, launchTeamUsed>>
          /\ Cardinality(participantNodes) + Cardinality(nodes) <= MaxFinalizeNodes
      BY <2>1, <3>4 DEF AddSeeds, InitParticipants
    <3>6. Cardinality(participantNodes') <= MaxFinalizeNodes
      <4>. HIDE DEF nodes
      <4>1. Cardinality(participantNodes \cup nodes) =
               Cardinality(participantNodes) + Cardinality(nodes) - Cardinality(participantNodes \cap nodes)
        BY <3>3, BufferType, FS_Union
      <4>2. Cardinality(participantNodes \cap nodes) = 0
        BY <3>1, FS_EmptySet
      <4>3. Cardinality(participantNodes) \in Nat /\ Cardinality(nodes) \in Nat
        BY <3>3, BufferType, FS_CardinalityType
      <4>. QED BY <3>5, <4>1, <4>2, <4>3, SMT
    <3>. HIDE DEF nodes
    <3>7. SeedsAdded
      BY <3>1, <3>5 DEF SeedsAdded
    <3>. QED BY <3>6, <3>7 DEF Structural
  <2>2. ASSUME NEW s \in Addresses, NEW i \in Addresses, NEW h \in Hops, Invite(s, i, h)
        PROVE  Structural
    <3>1. h + 1 \in Hops
      BY <2>2, SMT DEF Invite, MayInvite, Hops
    <3>. QED BY <1>2, <2>2, <3>1 DEF Invite
  <2>3. ASSUME NEW i \in Addresses, NEW h \in Hops, LaunchTeamInvite(i, h)
        PROVE  Structural
    <3>1. <<i, h + 1>> \in Nodes /\ h + 1 \in 1..2
      BY <2>3, SMT DEF LaunchTeamInvite, Hops, Nodes
    <3>2. PaidByTeam(<<i, h + 1>>)
      BY <2>3, <3>1 DEF PaidByTeam, LaunchTeamInvite
    <3>3. RegisterOrStackInvite(<<i, h + 1>>, LaunchTeam)
      BY <2>3 DEF LaunchTeamInvite
    <3>. QED BY <3>1, <3>2, <3>3, RegisterCounts DEF Structural
  <2>4. ASSUME NEW s \in Addresses, NEW n \in Nonces, RevokeInviteNonce(s, n)
        PROVE  Structural
    BY <1>1, <2>4 DEF RevokeInviteNonce
  <2>. QED BY <1>3, <2>1, <2>2, <2>3, <2>4 DEF Whitelisting
<1>4. CASE Committing
  <2>1. ASSUME NEW s \in Addresses, NEW h \in Hops, NEW amount \in Amounts, Commit(s, h, amount)
        PROVE  Structural
    BY <1>1, <2>1 DEF Commit
  <2>2. ASSUME NEW s \in Addresses, NEW t \in Tickets, NEW amount \in Amounts,
               CommitWithInvite(s, t, amount)
        PROVE  Structural
    <3>1. t.inviter \in Addresses /\ t.fromHop \in Hops
      BY InputAssumption
    <3>2. t.fromHop + 1 \in Hops
      BY <2>2, <3>1, SMT DEF CommitWithInvite, MayInvite, Hops
    <3>3. /\ MayInvite(<<t.inviter, t.fromHop>>)
          /\ RegisterOrStackInvite(<<s, t.fromHop + 1>>, t.inviter)
          /\ invitesSent' = [invitesSent EXCEPT ![<<t.inviter, t.fromHop>>] = @ + 1]
          /\ UNCHANGED launchTeamUsed
      BY <2>2 DEF CommitWithInvite
    <3>. QED BY <1>2, <3>1, <3>2, <3>3
  <2>. QED BY <1>4, <2>1, <2>2 DEF Committing
<1>5. CASE Settling
  BY <1>1, <1>5, SettlingFrame
<1>6. CASE \/ \E amount \in ArmGrants : ReceiveArm(amount)
           \/ LoadArm \/ Cancel \/ Finalize \/ Tick
  BY <1>1, <1>6, SupplyFrame
<1>7. CASE UNCHANGED vars
  BY <1>1, <1>7 DEF vars
<1>. QED BY <1>3, <1>4, <1>5, <1>6, <1>7 DEF Next

-----------------------------------------------------------------------------
(* Every invite is paid for, within budgets *)

\* No node and not the launch team sends more invites than its budget, a seed
\* is invited once, and the caps on seeds and nodes hold.
WithinBudgets ==
    /\ \A n \in Nodes : invitesSent[n] <= InviteBudget(n)
    /\ \A n \in HopNodes(0) : invitesReceived[n] <= 1
    /\ \A h \in 1..2 : launchTeamUsed[h] <= LaunchTeamBudget[h]
    /\ Cardinality(NodesAt(0)) <= MaxSeeds
    /\ Cardinality(participantNodes) <= MaxFinalizeNodes

StructureInv == Outsiders /\ InvitesConserved /\ WithinBudgets

\* Only a node of the next state has a deposit that changed.
LEMMA DepositsOnNodes ==
    ASSUME TypeOK, [Next]_vars
    PROVE  \A n \in Nodes \ participantNodes' : committed'[n] = committed[n]
<1>. USE DEF inviteVars, commitVars, settleVars, armVars
<1>1. ASSUME UNCHANGED committed
      PROVE  \A n \in Nodes \ participantNodes' : committed'[n] = committed[n]
  BY <1>1
<1>2. ASSUME NEW u \in Addresses, NEW h \in Hops, NEW amount, EscrowCommit(u, h, amount),
             <<u, h>> \in participantNodes'
      PROVE  \A n \in Nodes \ participantNodes' : committed'[n] = committed[n]
  BY <1>2 DEF EscrowCommit, TypeOK
<1>3. CASE Whitelisting
  BY <1>1, <1>3 DEF Whitelisting, AddSeeds, Invite, LaunchTeamInvite, RevokeInviteNonce
<1>4. CASE Committing
  <2>1. ASSUME NEW s \in Addresses, NEW h \in Hops, NEW amount \in Amounts, Commit(s, h, amount)
        PROVE  \A n \in Nodes \ participantNodes' : committed'[n] = committed[n]
    BY <1>2, <2>1 DEF Commit
  <2>2. ASSUME NEW s \in Addresses, NEW t \in Tickets, NEW amount \in Amounts,
               CommitWithInvite(s, t, amount)
        PROVE  \A n \in Nodes \ participantNodes' : committed'[n] = committed[n]
    <3>1. t.fromHop + 1 \in Hops
      BY <2>2, InputAssumption, SMT DEF CommitWithInvite, MayInvite, Hops
    <3>2. EscrowCommit(s, t.fromHop + 1, amount) /\ <<s, t.fromHop + 1>> \in participantNodes'
      BY <2>2 DEF CommitWithInvite, RegisterOrStackInvite, InitParticipants
    <3>. QED BY <1>2, <3>1, <3>2
  <2>. QED BY <1>4, <2>1, <2>2 DEF Committing
<1>5. CASE Settling
  BY <1>1, <1>5, SettlingFrame
<1>6. CASE \/ \E amount \in ArmGrants : ReceiveArm(amount)
           \/ LoadArm \/ Cancel \/ Finalize \/ Tick
  BY <1>1, <1>6, SupplyFrame
<1>7. CASE UNCHANGED vars
  BY <1>1, <1>7 DEF vars
<1>. QED BY <1>3, <1>4, <1>5, <1>6, <1>7 DEF Next

\* Whoever is not whitelisted stays without invites and deposits.
LEMMA OutsidersStep ==
    ASSUME TypeOK, Outsiders, Structural,
           \A n \in Nodes \ participantNodes' : committed'[n] = committed[n]
    PROVE  Outsiders'
<1>1. CASE NoInvite
  BY <1>1 DEF Outsiders, NoInvite
<1>2. CASE SeedsAdded
  <2>1. PICK nodes \in SUBSET HopNodes(0) :
          /\ participantNodes' = participantNodes \cup nodes
          /\ invitesReceived' = [n \in Nodes |-> IF n \in nodes THEN 1 ELSE invitesReceived[n]]
          /\ UNCHANGED <<invitesSent, launchTeamUsed>>
    BY <1>2 DEF SeedsAdded
  <2>. QED BY <2>1, SMT DEF Outsiders, TypeOK
<1>3. ASSUME NEW node \in Nodes, InviteTaken(node), PaidByTeam(node)
      PROVE  Outsiders'
  BY <1>3, SMT DEF Outsiders, TypeOK, InviteTaken, PaidByTeam
<1>4. ASSUME NEW node \in Nodes, NEW inviter \in participantNodes,
             InviteTaken(node), PaidByNode(node, inviter)
      PROVE  Outsiders'
  BY <1>4, SMT DEF Outsiders, TypeOK, InviteTaken, PaidByNode
<1>. QED BY <1>1, <1>2, <1>3, <1>4 DEF Structural

\* Sums over a hop's nodes are sums over its whitelisted ones.
LEMMA InvitesConservedOverHops ==
    ASSUME TypeOK, Outsiders
    PROVE  /\ \A h \in Hops : SumOver(invitesReceived, NodesAt(h)) = SumOver(invitesReceived, HopNodes(h))
           /\ \A h \in Hops : SumOver(invitesSent, NodesAt(h)) = SumOver(invitesSent, HopNodes(h))
           /\ \A h \in Hops : SumOver(committed, NodesAt(h)) = SumOver(committed, HopNodes(h))
<1>1. participantNodes \in SUBSET Nodes
  BY DEF TypeOK
<1>2. /\ invitesReceived \in [Nodes -> Nat] /\ \A n \in Nodes \ participantNodes : invitesReceived[n] = 0
      /\ invitesSent \in [Nodes -> Nat] /\ \A n \in Nodes \ participantNodes : invitesSent[n] = 0
      /\ committed \in [Nodes -> Nat] /\ \A n \in Nodes \ participantNodes : committed[n] = 0
  BY DEF TypeOK, Outsiders
<1>3. \A h \in Hops : SumOver(invitesReceived, NodesAt(h)) = SumOver(invitesReceived, HopNodes(h))
  BY <1>1, <1>2, SumAtHop DEF NodesAt
<1>4. \A h \in Hops : SumOver(invitesSent, NodesAt(h)) = SumOver(invitesSent, HopNodes(h))
  BY <1>1, <1>2, SumAtHop DEF NodesAt
<1>5. \A h \in Hops : SumOver(committed, NodesAt(h)) = SumOver(committed, HopNodes(h))
  BY <1>1, <1>2, SumAtHop DEF NodesAt
<1>. QED BY <1>3, <1>4, <1>5

\* The conservation law over constant sets of nodes.
Conserved ==
    \A h \in 1..2 :
        SumOver(invitesReceived, HopNodes(h)) =
            SumOver(invitesSent, HopNodes(h - 1)) + launchTeamUsed[h]

\* Both forms of the law say the same.
LEMMA ConservedMeans ==
    ASSUME TypeOK, Outsiders
    PROVE  InvitesConserved <=> Conserved
<1>1. ASSUME NEW h \in 1..2
      PROVE  /\ SumOver(invitesReceived, NodesAt(h)) = SumOver(invitesReceived, HopNodes(h))
             /\ SumOver(invitesSent, NodesAt(h - 1)) = SumOver(invitesSent, HopNodes(h - 1))
  <2>1. h \in Hops /\ h - 1 \in Hops
    BY SMT DEF Hops
  <2>. QED BY <2>1, InvitesConservedOverHops
<1>. QED BY <1>1 DEF InvitesConserved, Conserved

\* A slot of a budget is spent for every invite received, and for nothing else.
LEMMA ConservedStep ==
    ASSUME TypeOK, TypeOK', Conserved, Structural
    PROVE  Conserved'
<1>. SUFFICES ASSUME NEW h \in 1..2
              PROVE  SumOver(invitesReceived', HopNodes(h)) =
                        SumOver(invitesSent', HopNodes(h - 1)) + launchTeamUsed'[h]
  BY DEF Conserved
<1>1. /\ invitesReceived \in [Nodes -> Nat] /\ invitesReceived' \in [Nodes -> Nat]
      /\ invitesSent \in [Nodes -> Nat] /\ invitesSent' \in [Nodes -> Nat]
      /\ launchTeamUsed \in [1..2 -> Nat]
  BY DEF TypeOK
<1>2. SumOver(invitesReceived, HopNodes(h)) = SumOver(invitesSent, HopNodes(h - 1)) + launchTeamUsed[h]
  BY DEF Conserved
<1>3. /\ SumOver(invitesReceived, HopNodes(h)) \in Nat
      /\ SumOver(invitesSent, HopNodes(h - 1)) \in Nat /\ launchTeamUsed[h] \in Nat
  BY <1>1, HopNodesFinite, SumType
<1>4. CASE NoInvite
  BY <1>2, <1>4 DEF NoInvite
<1>5. CASE SeedsAdded
  <2>1. PICK nodes \in SUBSET HopNodes(0) :
          /\ invitesReceived' = [n \in Nodes |-> IF n \in nodes THEN 1 ELSE invitesReceived[n]]
          /\ UNCHANGED <<invitesSent, launchTeamUsed>>
    BY <1>5 DEF SeedsAdded
  <2>2. \A n \in HopNodes(h) : invitesReceived'[n] = invitesReceived[n]
    BY <2>1, SMT DEF HopNodes
  <2>3. SumOver(invitesReceived', HopNodes(h)) = SumOver(invitesReceived, HopNodes(h))
    BY <2>2, SumCongruence
  <2>. QED BY <1>2, <2>1, <2>3
<1>6. ASSUME NEW node \in Nodes, InviteTaken(node)
      PROVE  SumOver(invitesReceived', HopNodes(h)) =
               SumOver(invitesReceived, HopNodes(h)) + (IF node[2] = h THEN 1 ELSE 0)
  <2>1. /\ invitesReceived'[node] = invitesReceived[node] + 1
        /\ \A m \in Nodes \ {node} : invitesReceived'[m] = invitesReceived[m]
    BY <1>1, <1>6 DEF InviteTaken
  <2>2. /\ node[2] = h => SumOver(invitesReceived', HopNodes(h)) =
                             SumOver(invitesReceived, HopNodes(h)) + 1
        /\ node[2] # h => SumOver(invitesReceived', HopNodes(h)) =
                             SumOver(invitesReceived, HopNodes(h))
    <3>1. /\ node[2] = h => SumOver(invitesReceived', HopNodes(h)) + invitesReceived[node] =
                              SumOver(invitesReceived, HopNodes(h)) + invitesReceived'[node]
          /\ node[2] # h => SumOver(invitesReceived', HopNodes(h)) =
                              SumOver(invitesReceived, HopNodes(h))
          /\ SumOver(invitesReceived', HopNodes(h)) \in Nat
      BY <1>1, <2>1, SumOneNode
    <3>2. invitesReceived[node] \in Nat
      BY <1>1
    <3>. QED BY <1>3, <2>1, <3>1, <3>2, SMT
  <2>. QED BY <1>3, <2>2, SMT
<1>7. ASSUME NEW node \in Nodes, InviteTaken(node), PaidByTeam(node)
      PROVE  SumOver(invitesReceived', HopNodes(h)) =
               SumOver(invitesSent', HopNodes(h - 1)) + launchTeamUsed'[h]
  <2>1. /\ invitesSent' = invitesSent
        /\ launchTeamUsed'[h] = launchTeamUsed[h] + (IF node[2] = h THEN 1 ELSE 0)
    BY <1>1, <1>7, SMT DEF PaidByTeam
  <2>. QED BY <1>2, <1>3, <1>6, <1>7, <2>1, SMT
<1>8. ASSUME NEW node \in Nodes, NEW inviter \in participantNodes,
             InviteTaken(node), PaidByNode(node, inviter)
      PROVE  SumOver(invitesReceived', HopNodes(h)) =
               SumOver(invitesSent', HopNodes(h - 1)) + launchTeamUsed'[h]
  <2>1. /\ inviter \in Nodes /\ launchTeamUsed' = launchTeamUsed
        /\ invitesSent'[inviter] = invitesSent[inviter] + 1
        /\ \A m \in Nodes \ {inviter} : invitesSent'[m] = invitesSent[m]
    BY <1>1, <1>8 DEF PaidByNode, TypeOK
  <2>2. /\ inviter[2] = h - 1 => SumOver(invitesSent', HopNodes(h - 1)) =
                                   SumOver(invitesSent, HopNodes(h - 1)) + 1
        /\ inviter[2] # h - 1 => SumOver(invitesSent', HopNodes(h - 1)) =
                                   SumOver(invitesSent, HopNodes(h - 1))
    <3>1. /\ inviter[2] = h - 1 => SumOver(invitesSent', HopNodes(h - 1)) + invitesSent[inviter] =
                                     SumOver(invitesSent, HopNodes(h - 1)) + invitesSent'[inviter]
          /\ inviter[2] # h - 1 => SumOver(invitesSent', HopNodes(h - 1)) =
                                     SumOver(invitesSent, HopNodes(h - 1))
          /\ SumOver(invitesSent', HopNodes(h - 1)) \in Nat
      BY <1>1, <2>1, SumOneNode
    <3>2. invitesSent[inviter] \in Nat
      BY <1>1, <2>1
    <3>. QED BY <1>3, <2>1, <3>1, <3>2, SMT
  <2>3. inviter[2] = h - 1 <=> node[2] = h
    <3>1. inviter[2] \in Hops /\ node[2] \in Hops /\ inviter[2] + 1 = node[2]
      BY <1>8, <2>1 DEF PaidByNode, Nodes
    <3>. QED BY <3>1, SMT DEF Hops
  <2>. QED BY <1>2, <1>3, <1>6, <1>8, <2>1, <2>2, <2>3, SMT
<1>. QED BY <1>4, <1>5, <1>7, <1>8 DEF Structural

\* Nobody exceeds a budget, since a budget is never taken back.
LEMMA BudgetsStep ==
    ASSUME TypeOK, TypeOK', WithinBudgets, Outsiders, Structural
    PROVE  WithinBudgets'
<1>0. /\ invitesReceived \in [Nodes -> Nat] /\ invitesReceived' \in [Nodes -> Nat]
      /\ invitesSent \in [Nodes -> Nat] /\ invitesSent' \in [Nodes -> Nat]
      /\ launchTeamUsed \in [1..2 -> Nat] /\ participantNodes \in SUBSET Nodes
      /\ participantNodes' \in SUBSET Nodes
  BY DEF TypeOK
<1>1. \A n \in Nodes : n[2] \in Hops /\ MaxInvites[n[2]] \in Nat
  BY HopAssumption DEF Nodes
\* A budget only grows, with every invite received.
<1>2. ASSUME NEW n \in Nodes, invitesReceived'[n] >= invitesReceived[n]
      PROVE  InviteBudget(n) <= InviteBudget(n)'
  <2>. DEFINE a == invitesReceived[n]
              b == invitesReceived'[n]
              k == MaxInvites[n[2]]
  <2>1. a \in Nat /\ b \in Nat /\ k \in Nat /\ a <= b
    BY <1>0, <1>1, <1>2
  <2>. HIDE DEF a, b, k
  <2>2. a * k <= b * k
    BY <2>1, SMT
  <2>. QED BY <2>2 DEF InviteBudget, a, b, k
<1>3. Cardinality(participantNodes') <= MaxFinalizeNodes
  BY DEF Structural, WithinBudgets
<1>4. CASE NoInvite
  BY <1>3, <1>4 DEF NoInvite, WithinBudgets, InviteBudget, NodesAt
<1>5. CASE SeedsAdded
  <2>1. PICK nodes \in SUBSET HopNodes(0) :
          /\ nodes \cap participantNodes = {}
          /\ Cardinality(NodesAt(0)) + Cardinality(nodes) <= MaxSeeds
          /\ participantNodes' = participantNodes \cup nodes
          /\ invitesReceived' = [n \in Nodes |-> IF n \in nodes THEN 1 ELSE invitesReceived[n]]
          /\ UNCHANGED <<invitesSent, launchTeamUsed>>
    BY <1>5 DEF SeedsAdded
  <2>2. \A n \in Nodes : invitesReceived'[n] >= invitesReceived[n]
    <3>1. \A n \in nodes : invitesReceived[n] = 0
      BY <2>1 DEF Outsiders, HopNodes
    <3>. QED BY <1>0, <2>1, <3>1, SMT
  <2>3. \A n \in Nodes : invitesSent'[n] <= InviteBudget(n)'
    <3>. SUFFICES ASSUME NEW n \in Nodes PROVE invitesSent'[n] <= InviteBudget(n)'
      OBVIOUS
    <3>1. InviteBudget(n) <= InviteBudget(n)' /\ invitesSent'[n] = invitesSent[n]
      BY <1>2, <2>1, <2>2
    <3>2. invitesSent[n] <= InviteBudget(n) /\ invitesSent[n] \in Nat
      BY <1>0 DEF WithinBudgets
    <3>3. InviteBudget(n) \in Int /\ InviteBudget(n)' \in Int
      BY <1>0, <1>1, SMT DEF InviteBudget
    <3>. QED BY <3>1, <3>2, <3>3, SMT
  <2>4. \A n \in HopNodes(0) : invitesReceived'[n] <= 1
    BY <1>0, <2>1, SMT DEF WithinBudgets, HopNodes
  <2>5. Cardinality(NodesAt(0)') <= MaxSeeds
    <3>1. NodesAt(0)' = NodesAt(0) \cup nodes /\ NodesAt(0) \cap nodes = {}
      BY <2>1 DEF NodesAt, HopNodes
    <3>2. IsFiniteSet(NodesAt(0)) /\ IsFiniteSet(nodes)
      BY <1>0, NodesFinite, HopNodesFinite, FS_Subset DEF NodesAt
    <3>3. Cardinality(NodesAt(0) \cup nodes) =
             Cardinality(NodesAt(0)) + Cardinality(nodes) - Cardinality(NodesAt(0) \cap nodes)
      BY <3>2, FS_Union
    <3>4. Cardinality(NodesAt(0) \cap nodes) = 0
      BY <3>1, FS_EmptySet
    <3>5. Cardinality(NodesAt(0)) \in Nat /\ Cardinality(nodes) \in Nat
      BY <3>2, FS_CardinalityType
    <3>6. Cardinality(NodesAt(0) \cup nodes) = Cardinality(NodesAt(0)) + Cardinality(nodes)
      BY <3>3, <3>4, <3>5, SMT
    <3>. QED BY <2>1, <3>1, <3>6
  <2>. QED BY <1>3, <2>1, <2>3, <2>4, <2>5 DEF WithinBudgets
\* An invite reaches hop 1 or hop 2: the seeds stay as they are.
<1>6. ASSUME NEW node \in Nodes, InviteTaken(node), node[2] # 0
      PROVE  /\ \A n \in Nodes : invitesReceived'[n] >= invitesReceived[n]
             /\ \A n \in HopNodes(0) : invitesReceived'[n] <= 1
             /\ NodesAt(0)' = NodesAt(0)
  <2>1. \A n \in Nodes : invitesReceived'[n] >= invitesReceived[n]
    BY <1>0, <1>6, SMT DEF InviteTaken
  <2>2. \A n \in HopNodes(0) : invitesReceived'[n] = invitesReceived[n]
    BY <1>0, <1>6 DEF InviteTaken, HopNodes
  <2>3. NodesAt(0)' = NodesAt(0)
    BY <1>6 DEF NodesAt, InviteTaken
  <2>. QED BY <2>1, <2>2, <2>3 DEF WithinBudgets
<1>7. ASSUME NEW node \in Nodes, InviteTaken(node), PaidByTeam(node)
      PROVE  WithinBudgets'
  <2>0. node[2] # 0 /\ invitesSent' = invitesSent
    BY <1>7, SMT DEF PaidByTeam
  <2>1. \A n \in Nodes : invitesSent'[n] <= InviteBudget(n)'
    <3>. SUFFICES ASSUME NEW n \in Nodes PROVE invitesSent'[n] <= InviteBudget(n)'
      OBVIOUS
    <3>1. InviteBudget(n) <= InviteBudget(n)'
      BY <1>2, <1>6, <1>7, <2>0
    <3>2. invitesSent[n] <= InviteBudget(n) /\ invitesSent[n] \in Nat
      BY <1>0 DEF WithinBudgets
    <3>3. InviteBudget(n) \in Int /\ InviteBudget(n)' \in Int
      BY <1>0, <1>1, SMT DEF InviteBudget
    <3>. QED BY <2>0, <3>1, <3>2, <3>3, SMT
  <2>2. \A h \in 1..2 : launchTeamUsed'[h] <= LaunchTeamBudget[h]
    BY <1>0, <1>7, HopAssumption, SMT DEF PaidByTeam, WithinBudgets
  <2>. QED BY <1>3, <1>6, <1>7, <2>0, <2>1, <2>2 DEF WithinBudgets
<1>8. ASSUME NEW node \in Nodes, NEW inviter \in participantNodes,
             InviteTaken(node), PaidByNode(node, inviter)
      PROVE  WithinBudgets'
  <2>0. node[2] # 0 /\ inviter \in Nodes /\ launchTeamUsed' = launchTeamUsed
    BY <1>0, <1>1, <1>8, SMT DEF PaidByNode, Hops
  <2>1. \A n \in Nodes : invitesSent'[n] <= InviteBudget(n)'
    <3>. SUFFICES ASSUME NEW n \in Nodes PROVE invitesSent'[n] <= InviteBudget(n)'
      OBVIOUS
    <3>1. InviteBudget(n) <= InviteBudget(n)'
      BY <1>2, <1>6, <1>8, <2>0
    <3>2. invitesSent[n] <= InviteBudget(n) /\ invitesSent[n] \in Nat
      BY <1>0 DEF WithinBudgets
    <3>3. InviteBudget(n) \in Int /\ InviteBudget(n)' \in Int
      BY <1>0, <1>1, SMT DEF InviteBudget
    <3>4. CASE n # inviter
      <4>1. invitesSent'[n] = invitesSent[n]
        BY <1>0, <1>8, <3>4 DEF PaidByNode
      <4>. QED BY <3>1, <3>2, <3>3, <4>1, SMT
    <3>5. CASE n = inviter
      <4>1. invitesSent'[n] = invitesSent[n] + 1 /\ invitesSent[n] < InviteBudget(n)
        BY <1>0, <1>8, <3>5 DEF PaidByNode
      <4>. QED BY <3>1, <3>2, <3>3, <4>1, SMT
    <3>. QED BY <3>4, <3>5
  <2>. QED BY <1>3, <1>6, <1>8, <2>0, <2>1 DEF WithinBudgets
<1>. QED BY <1>4, <1>5, <1>7, <1>8 DEF Structural

\* The structure of invitations is sound at the start and after every step.
LEMMA StructureInit == Init => StructureInv
<1>. SUFFICES ASSUME Init PROVE StructureInv
  OBVIOUS
<1>1. TypeOK
  BY InitTyped
<1>2. /\ \A n \in Nodes : invitesReceived[n] = 0 /\ invitesSent[n] = 0 /\ committed[n] = 0
      /\ \A h \in 1..2 : launchTeamUsed[h] = 0
      /\ participantNodes = {}
  BY DEF Init
<1>3. Outsiders
  BY <1>2 DEF Outsiders
<1>4. Conserved
  <2>. SUFFICES ASSUME NEW h \in 1..2
                PROVE  SumOver(invitesReceived, HopNodes(h)) =
                          SumOver(invitesSent, HopNodes(h - 1)) + launchTeamUsed[h]
    BY DEF Conserved
  <2>1. SumOver(invitesReceived, HopNodes(h)) = 0
    BY <1>2, SumOfZeros DEF HopNodes
  <2>2. SumOver(invitesSent, HopNodes(h - 1)) = 0
    BY <1>2, SumOfZeros DEF HopNodes
  <2>. QED BY <1>2, <2>1, <2>2, SMT
<1>5. WithinBudgets
  <2>1. \A n \in Nodes : invitesSent[n] <= InviteBudget(n)
    <3>1. \A n \in Nodes : MaxInvites[n[2]] \in Nat
      BY HopAssumption DEF Nodes
    <3>. QED BY <1>2, <3>1, SMT DEF InviteBudget
  <2>2. Cardinality(NodesAt(0)) = 0 /\ Cardinality(participantNodes) = 0
    BY <1>2, FS_EmptySet DEF NodesAt
  <2>3. \A n \in HopNodes(0) : invitesReceived[n] <= 1
    BY <1>2, SMT DEF HopNodes
  <2>4. \A h \in 1..2 : launchTeamUsed[h] <= LaunchTeamBudget[h]
    BY <1>2, HopAssumption, SMT
  <2>. QED BY <2>1, <2>2, <2>3, <2>4, HopAssumption, SaleAssumption, SMT DEF WithinBudgets
<1>. QED BY <1>1, <1>3, <1>4, <1>5, ConservedMeans DEF StructureInv

\* And every step keeps it so.
LEMMA StructureStep ==
    ASSUME TypeOK, TypeOK', StructureInv, [Next]_vars
    PROVE  StructureInv'
<1>1. Structural /\ Outsiders /\ Conserved /\ WithinBudgets
  BY StepIsStructural, ConservedMeans DEF StructureInv
<1>2. Outsiders'
  BY <1>1, DepositsOnNodes, OutsidersStep
<1>3. Conserved' /\ WithinBudgets'
  BY <1>1, ConservedStep, BudgetsStep
<1>4. TypeOK' /\ Outsiders' => (InvitesConserved' <=> Conserved')
  BY ConservedMeans, PTL
<1>. QED BY <1>2, <1>3, <1>4 DEF StructureInv

(***************************************************************************)
(* The budgets bound the nodes: an invited node received an invite, every  *)
(* invite received was sent, and nobody sends more than its budget.        *)
(***************************************************************************)
LEMMA BudgetsBoundNodes ==
    ASSUME TypeOK, StructureInv
    PROVE  StructuralMaximum
<1>. DEFINE edges1 == MaxSeeds * MaxInvites[0] + LaunchTeamBudget[1]
            edges2 == edges1 * MaxInvites[1] + LaunchTeamBudget[2]
            got(h)  == SumOver(invitesReceived, HopNodes(h))
            sent(h) == SumOver(invitesSent, HopNodes(h))
            budgets == [n \in Nodes |-> InviteBudget(n)]
<1>0. /\ invitesReceived \in [Nodes -> Nat] /\ invitesSent \in [Nodes -> Nat]
      /\ launchTeamUsed \in [1..2 -> Nat]
      /\ 0 \in Hops /\ 1 \in Hops /\ 2 \in Hops
      /\ {MaxInvites[0], MaxInvites[1], LaunchTeamBudget[1], LaunchTeamBudget[2], MaxSeeds} \subseteq Nat
  BY HopAssumption, SMT DEF TypeOK, Hops
<1>1. budgets \in [Nodes -> Nat] /\ \A n \in Nodes : budgets[n] = invitesReceived[n] * MaxInvites[n[2]]
  <2>. SUFFICES ASSUME NEW n \in Nodes PROVE InviteBudget(n) \in Nat
    BY DEF InviteBudget
  <2>1. invitesReceived[n] \in Nat /\ MaxInvites[n[2]] \in Nat
    BY <1>0, HopAssumption DEF Nodes
  <2>. QED BY <2>1, SMT DEF InviteBudget
<1>2. ASSUME NEW h \in Hops PROVE got(h) \in Nat /\ sent(h) \in Nat
  BY <1>0, HopNodesFinite, SumType
<1>3. ASSUME NEW h \in Hops PROVE Cardinality(NodesAt(h)) <= got(h)
  <2>1. \A n \in NodesAt(h) : invitesReceived[n] >= 1
    BY DEF StructureInv, Outsiders, NodesAt, TypeOK
  <2>2. Cardinality(NodesAt(h)) <= SumOver(invitesReceived, NodesAt(h))
    BY <1>0, <2>1, NodesAtFinite, SumCounts
  <2>3. SumOver(invitesReceived, NodesAt(h)) = got(h)
    BY InvitesConservedOverHops DEF StructureInv
  <2>. QED BY <2>2, <2>3
<1>4. ASSUME NEW h \in 0..1 PROVE sent(h) <= got(h) * MaxInvites[h]
  <2>1. h \in Hops /\ MaxInvites[h] \in Nat
    BY HopAssumption, SMT DEF Hops
  <2>2. \A n \in HopNodes(h) : budgets[n] = invitesReceived[n] * MaxInvites[h]
    BY <1>1 DEF HopNodes
  <2>3. \A n \in HopNodes(h) : invitesSent[n] <= budgets[n]
    BY DEF StructureInv, WithinBudgets, HopNodes
  <2>. HIDE DEF budgets
  <2>4. SumOver(budgets, HopNodes(h)) = got(h) * MaxInvites[h]
    BY <1>0, <1>1, <2>1, <2>2, HopNodesFinite, SumScaled
  <2>5. sent(h) <= SumOver(budgets, HopNodes(h))
    BY <1>0, <1>1, <2>3, HopNodesFinite, SumMonotone
  <2>. QED BY <2>4, <2>5
<1>5. got(0) <= MaxSeeds
  <2>1. SumOver(invitesReceived, NodesAt(0)) <= Cardinality(NodesAt(0))
    <3>1. \A n \in NodesAt(0) : invitesReceived[n] <= 1
      BY DEF StructureInv, WithinBudgets, NodesAt, HopNodes, TypeOK
    <3>. QED BY <1>0, <3>1, NodesAtFinite, SumOfFlags
  <2>2. SumOver(invitesReceived, NodesAt(0)) = got(0)
    BY <1>0, InvitesConservedOverHops DEF StructureInv
  <2>3. Cardinality(NodesAt(0)) \in Nat /\ Cardinality(NodesAt(0)) <= MaxSeeds
    BY <1>0, NodesAtFinite, FS_CardinalityType DEF StructureInv, WithinBudgets
  <2>. QED BY <1>0, <1>2, <2>1, <2>2, <2>3, SMT
<1>6. /\ got(1) = sent(0) + launchTeamUsed[1] /\ launchTeamUsed[1] <= LaunchTeamBudget[1]
      /\ got(2) = sent(1) + launchTeamUsed[2] /\ launchTeamUsed[2] <= LaunchTeamBudget[2]
      /\ launchTeamUsed[1] \in Nat /\ launchTeamUsed[2] \in Nat
  <2>1. Conserved
    BY ConservedMeans DEF StructureInv
  <2>2. 1 \in 1..2 /\ 2 \in 1..2 /\ 1 - 1 = 0 /\ 2 - 1 = 1
    BY SMT
  <2>3. got(1) = SumOver(invitesSent, HopNodes(1 - 1)) + launchTeamUsed[1]
    BY <2>1, <2>2 DEF Conserved
  <2>4. got(2) = SumOver(invitesSent, HopNodes(2 - 1)) + launchTeamUsed[2]
    BY <2>1, <2>2 DEF Conserved
  <2>. QED BY <1>0, <2>2, <2>3, <2>4 DEF StructureInv, WithinBudgets
<1>7. ASSUME NEW x \in Nat, NEW y \in Nat, NEW k \in Nat, x <= y PROVE x * k <= y * k
  BY <1>7, SMT
<1>. HIDE DEF got, sent, budgets
<1>8. got(1) <= edges1
  <2>1. sent(0) <= got(0) * MaxInvites[0]
    BY <1>4, SMT
  <2>2. got(0) * MaxInvites[0] <= MaxSeeds * MaxInvites[0]
    BY <1>0, <1>2, <1>5, <1>7
  <2>3. got(0) * MaxInvites[0] \in Nat /\ MaxSeeds * MaxInvites[0] \in Nat
    BY <1>0, <1>2, SMT
  <2>. QED BY <1>0, <1>2, <1>6, <2>1, <2>2, <2>3, SMT
<1>9. edges1 \in Nat
  BY <1>0, SMT
<1>. HIDE DEF edges1
<1>10. got(2) <= edges2
  <2>1. sent(1) <= got(1) * MaxInvites[1]
    BY <1>4, SMT
  <2>2. got(1) * MaxInvites[1] <= edges1 * MaxInvites[1]
    BY <1>0, <1>2, <1>7, <1>8, <1>9
  <2>3. got(1) * MaxInvites[1] \in Nat /\ edges1 * MaxInvites[1] \in Nat
    BY <1>0, <1>2, <1>9, SMT
  <2>. QED BY <1>0, <1>2, <1>6, <2>1, <2>2, <2>3, SMT
<1>11. edges2 \in Nat
  BY <1>0, <1>9, SMT
<1>. HIDE DEF edges2
<1>12. /\ Cardinality(NodesAt(1)) <= edges1 /\ Cardinality(NodesAt(2)) <= edges2
       /\ Cardinality(NodesAt(0)) <= MaxSeeds
       /\ Cardinality(participantNodes) <= MaxFinalizeNodes
  <2>1. \A h \in Hops : Cardinality(NodesAt(h)) \in Nat
    BY NodesAtFinite, FS_CardinalityType
  <2>2. Cardinality(NodesAt(1)) <= got(1) /\ Cardinality(NodesAt(2)) <= got(2)
    BY <1>0, <1>3
  <2>3. Cardinality(NodesAt(1)) <= edges1 /\ Cardinality(NodesAt(2)) <= edges2
    BY <1>0, <1>2, <1>8, <1>9, <1>10, <1>11, <2>1, <2>2, SMT
  <2>. QED BY <2>3 DEF StructureInv, WithinBudgets
<1>. QED BY <1>12 DEF StructuralMaximum, edges1, edges2

(***************************************************************************)
(* BudgetsAreKept, for every budget and cap and every series of direct,    *)
(* launch-team and signed invites: conserved from hop to hop, spent within *)
(* the budget of each node, and so within what _iterateCappedDemand's      *)
(* comment derives for the deployed constants; the launch team stays out.  *)
(***************************************************************************)
THEOREM BudgetsKept == Spec => []BudgetsAreKept
<1>1. TypeOK /\ StructureInv => InvitesConserved /\ SpendingWithinBudgets /\ StructuralMaximum
  BY BudgetsBoundNodes DEF StructureInv, WithinBudgets, SpendingWithinBudgets
<1>2. TypeOK /\ TypeOK' /\ StructureInv /\ [Next]_vars => StructureInv'
  BY StructureStep
<1>3. Spec => []StructureInv
  BY <1>2, StructureInit, TypeCorrect, PTL DEF Spec
<1>. QED BY <1>1, <1>3, TypeCorrect, LaunchTeamNeverTakesPart, PTL DEF BudgetsAreKept

NoncesFinite == \A a \in Addresses : IsFiniteSet(usedNonces[a])

\* Nonces are used one at a time.
LEMMA NoncesStayFinite ==
    ASSUME TypeOK, NoncesFinite, [Next]_vars
    PROVE  NoncesFinite'
<1>. USE DEF inviteVars, commitVars, settleVars, armVars
<1>1. ASSUME UNCHANGED usedNonces PROVE NoncesFinite'
  BY <1>1 DEF NoncesFinite
<1>2. ASSUME NEW a \in Addresses, NEW nonce, UseNonce(a, nonce) PROVE NoncesFinite'
  <2>. SUFFICES ASSUME NEW b \in Addresses PROVE IsFiniteSet(usedNonces'[b])
    BY DEF NoncesFinite
  <2>1. usedNonces'[b] = usedNonces[b] \/ usedNonces'[b] = usedNonces[b] \cup {nonce}
    BY <1>2 DEF UseNonce, TypeOK
  <2>. QED BY <2>1, FS_AddElement DEF NoncesFinite
<1>3. CASE Whitelisting
  BY <1>1, <1>2, <1>3 DEF Whitelisting, AddSeeds, Invite, LaunchTeamInvite, RevokeInviteNonce
<1>4. CASE Committing
  <2>1. ASSUME NEW s \in Addresses, NEW t \in Tickets, NEW amount \in Amounts,
               CommitWithInvite(s, t, amount)
        PROVE  NoncesFinite'
    <3>1. t.inviter \in Addresses /\ UseNonce(t.inviter, t.nonce)
      BY <2>1, InputAssumption DEF CommitWithInvite
    <3>. QED BY <1>2, <3>1
  <2>. QED BY <1>1, <1>4, <2>1 DEF Committing, Commit
<1>5. CASE Settling
  BY <1>1, <1>5, SettlingFrame
<1>6. CASE \/ \E amount \in ArmGrants : ReceiveArm(amount)
           \/ LoadArm \/ Cancel \/ Finalize \/ Tick
  BY <1>1, <1>6, SupplyFrame
<1>7. CASE UNCHANGED vars
  BY <1>1, <1>7 DEF vars
<1>. QED BY <1>3, <1>4, <1>5, <1>6, <1>7 DEF Next

\* One step of RedemptionBurnsNonce.
BurnsNonce ==
    \A n \in Nodes :
       invitesSent'[n] > invitesSent[n] /\ totalCommitted' > totalCommitted
       => /\ usedNonces[n[1]] \subseteq usedNonces'[n[1]]
          /\ Cardinality(usedNonces'[n[1]]) = Cardinality(usedNonces[n[1]]) + 1

\* Only commitWithInvite() moves both counters, and it uses the inviter's nonce.
LEMMA RedemptionStep ==
    ASSUME TypeOK, NoncesFinite, [Next]_vars
    PROVE  BurnsNonce
<1>. USE DEF inviteVars, commitVars, settleVars, armVars
<1>. SUFFICES ASSUME NEW n \in Nodes, invitesSent'[n] > invitesSent[n],
                     totalCommitted' > totalCommitted
              PROVE  /\ usedNonces[n[1]] \subseteq usedNonces'[n[1]]
                     /\ Cardinality(usedNonces'[n[1]]) = Cardinality(usedNonces[n[1]]) + 1
  BY DEF BurnsNonce
<1>1. totalCommitted' # totalCommitted /\ invitesSent' # invitesSent
  BY SMT DEF TypeOK
<1>2. ASSUME NEW s \in Addresses, NEW t \in Tickets, NEW amount \in Amounts,
             CommitWithInvite(s, t, amount)
      PROVE  /\ usedNonces[n[1]] \subseteq usedNonces'[n[1]]
             /\ Cardinality(usedNonces'[n[1]]) = Cardinality(usedNonces[n[1]]) + 1
  <2>1. /\ t.inviter \in Addresses /\ t.fromHop \in Hops
        /\ UseNonce(t.inviter, t.nonce)
        /\ invitesSent' = [invitesSent EXCEPT ![<<t.inviter, t.fromHop>>] = @ + 1]
    BY <1>2, InputAssumption DEF CommitWithInvite
  <2>2. n = <<t.inviter, t.fromHop>>
    <3>1. n # <<t.inviter, t.fromHop>> => invitesSent'[n] = invitesSent[n]
      BY <2>1 DEF TypeOK
    <3>. QED BY <3>1, SMT DEF TypeOK
  <2>3. /\ usedNonces'[t.inviter] = usedNonces[t.inviter] \cup {t.nonce}
        /\ t.nonce \notin usedNonces[t.inviter]
    BY <2>1 DEF UseNonce, TypeOK
  <2>4. IsFiniteSet(usedNonces[t.inviter])
    BY <2>1 DEF NoncesFinite
  <2>. QED BY <2>2, <2>3, <2>4, FS_AddElement
<1>3. \E s \in Addresses, t \in Tickets, amount \in Amounts : CommitWithInvite(s, t, amount)
  <2>1. CASE Whitelisting
    BY <1>1, <2>1 DEF Whitelisting, AddSeeds, Invite, LaunchTeamInvite, RevokeInviteNonce
  <2>2. CASE Committing
    BY <1>1, <2>2 DEF Committing, Commit
  <2>3. CASE Settling
    BY <1>1, <2>3, SettlingFrame
  <2>4. CASE \/ \E amount \in ArmGrants : ReceiveArm(amount)
             \/ LoadArm \/ Cancel \/ Finalize \/ Tick
    BY <1>1, <2>4, SupplyFrame
  <2>5. CASE UNCHANGED vars
    BY <1>1, <2>5 DEF vars
  <2>. QED BY <2>1, <2>2, <2>3, <2>4, <2>5 DEF Next
<1>. QED BY <1>2, <1>3

(***************************************************************************)
(* A signed invite is spent at most once: whoever charges an inviter and   *)
(* deposits in one transaction burns a nonce never redeemed nor revoked.   *)
(***************************************************************************)
THEOREM InvitesRedeemedOnce == Spec => RedemptionBurnsNonce
<1>1. Init => NoncesFinite
  BY FS_EmptySet DEF Init, NoncesFinite
<1>2. TypeOK /\ NoncesFinite /\ [Next]_vars => NoncesFinite'
  BY NoncesStayFinite
<1>3. TypeOK /\ NoncesFinite /\ [Next]_vars => [BurnsNonce]_vars
  BY RedemptionStep
<1>. QED BY <1>1, <1>2, <1>3, TypeCorrect, PTL DEF Spec, RedemptionBurnsNonce, BurnsNonce

-----------------------------------------------------------------------------
(* The books: what the contract owes, as functions of the account           *)

Owed    == [a \in Addresses |-> RefundOwed(a)]
ArmOwed == [a \in Addresses |-> IF claimed[a] THEN 0 ELSE AllocatedTo(a) * ArmPerUsdc]

Depositors(h) == {n \in HopNodes(h) : committed[n] > 0}

\* TotalsAgree over constant sets of nodes.
Totals ==
    /\ \A h \in Hops : /\ hopCommitted[h] = SumOver(committed, HopNodes(h))
                       /\ uniqueCommitters[h] = Cardinality(Depositors(h))
    /\ totalCommitted = SumOver(committed, Nodes)

\* Until the sale is over nobody is settled, nothing is deposited before the
\* ARM is loaded, and what was loaded is still there.
SaleOpen ==
    /\ phase = "Active" => ~refundMode /\ \A a \in Addresses : ~claimed[a]
    /\ ~armLoaded => totalCommitted = 0
    /\ phase = "Active" /\ armLoaded => armBalance >= RequiredArm

BooksInv == /\ SaleOpen /\ Totals /\ EscrowSolvent /\ ArmReserved
            /\ SettledBooks /\ ProceedsOnlyFromAFullSale

\* Sums over the whitelisted nodes of a hop are those over its nodes.
LEMMA TotalsMean ==
    ASSUME TypeOK, Outsiders
    PROVE  Totals <=> TotalsAgree
<1>1. \A h \in Hops : SumOver(committed, NodesAt(h)) = SumOver(committed, HopNodes(h))
  BY InvitesConservedOverHops
<1>2. \A h \in Hops : {n \in NodesAt(h) : committed[n] > 0} = Depositors(h)
  <2>. SUFFICES ASSUME NEW h \in Hops, NEW n \in Depositors(h) PROVE n \in NodesAt(h)
    BY DEF Depositors, NodesAt, HopNodes, TypeOK
  <2>1. n \in participantNodes
    BY SMT DEF Depositors, HopNodes, Outsiders
  <2>. QED BY <2>1 DEF NodesAt, Depositors, HopNodes
<1>. QED BY <1>1, <1>2 DEF Totals, TotalsAgree

OwedTyped ==
    /\ Owed \in [Addresses -> Nat] /\ ArmOwed \in [Addresses -> Nat]
    /\ SumOver(Owed, Addresses) \in Nat /\ SumOver(ArmOwed, Addresses) \in Nat
    /\ \A a \in Addresses : AllocatedTo(a) \in Nat /\ AllocatedTo(a) * ArmPerUsdc \in Nat

\* Nothing that is owed is negative.
LEMMA OwedType ==
    ASSUME TypeOK
    PROVE  OwedTyped
<1>1. \A a \in Addresses : RefundOwed(a) \in Nat
  BY UserSums, RefundNatural DEF RefundOwed
<1>2. \A a \in Addresses : AllocatedTo(a) \in Nat /\ AllocatedTo(a) * ArmPerUsdc \in Nat
  <2>. SUFFICES ASSUME NEW a \in Addresses
                PROVE  AllocatedTo(a) \in Nat /\ AllocatedTo(a) * ArmPerUsdc \in Nat
    OBVIOUS
  <2>1. AllocatedTo(a) \in Nat /\ ArmPerUsdc \in Nat
    BY UserSums, SaleAssumption
  <2>. QED BY <2>1, SMT
<1>3. Owed \in [Addresses -> Nat] /\ ArmOwed \in [Addresses -> Nat]
  BY <1>1, <1>2 DEF Owed, ArmOwed
<1>. QED BY <1>2, <1>3, SumType, NodesFinite DEF OwedTyped

\* What a settlement reads: as long as it stays, so do the allocations.
SettlementInputs == <<committed, invitesReceived, finalCeilings, finalDemands>>

\* Nothing else changes an allocation.
LEMMA AllocationsKept ==
    ASSUME UNCHANGED SettlementInputs
    PROVE  /\ \A n : EffectiveCap(n)' = EffectiveCap(n) /\ Allocation(n)' = Allocation(n)
           /\ \A u : /\ CommittedBy(u)' = CommittedBy(u) /\ AllocatedTo(u)' = AllocatedTo(u)
                     /\ RefundTo(u)' = RefundTo(u)
<1>1. \A n : EffectiveCap(n)' = EffectiveCap(n) /\ Allocation(n)' = Allocation(n)
  BY DEF SettlementInputs, EffectiveCap, Allocation
<1>. QED BY <1>1 DEF SettlementInputs, CommittedBy, AllocatedTo, RefundTo

\* Before a sale succeeds a settlement reads deposits only.
LEMMA DepositsKept ==
    ASSUME UNCHANGED committed
    PROVE  \A u : CommittedBy(u)' = CommittedBy(u)
  BY DEF CommittedBy

-----------------------------------------------------------------------------
(* Steps that move no USDC *)

\* Invitations, and steps that change nothing.
Quiet ==
    /\ UNCHANGED <<now, phase, armLoaded, refundMode, commitVars, resultVars,
                   settleVars, usdcVars, armVars>>
    /\ phase = "Active" \/ UNCHANGED <<participantNodes, invitesReceived>>

\* They leave the books as they are.
LEMMA QuietBooks ==
    ASSUME TypeOK, BooksInv, Quiet
    PROVE  BooksInv'
<1>. USE DEF commitVars, resultVars, settleVars, usdcVars, armVars
<1>1. CASE UNCHANGED <<participantNodes, invitesReceived>>
  <2>1. UNCHANGED SettlementInputs
    BY <1>1 DEF Quiet, SettlementInputs
  <2>2. Owed' = Owed /\ ArmOwed' = ArmOwed /\ SoldOut' = SoldOut
    BY <2>1, AllocationsKept DEF Owed, ArmOwed, RefundOwed, SoldOut, Quiet
  <2>3. Totals'
    BY DEF Totals, BooksInv, Quiet, Depositors
  <2>4. EscrowSolvent' /\ ArmReserved'
    BY <1>1, <2>2 DEF BooksInv, Quiet, EscrowSolvent, ArmReserved, ArmStillOwed, Owed, ArmOwed,
                      RoundingBuffer
  <2>5. SettledBooks'
    BY <2>1, <2>2, AllocationsKept DEF BooksInv, Quiet, SettledBooks
  <2>6. ProceedsOnlyFromAFullSale' /\ SaleOpen'
    BY <1>1, <2>2 DEF BooksInv, Quiet, ProceedsOnlyFromAFullSale, RoundingBuffer, SaleOpen
  <2>. QED BY <2>3, <2>4, <2>5, <2>6 DEF BooksInv
<1>2. CASE phase = "Active"
  <2>1. ~SoldOut /\ ~SoldOut' /\ \A a \in Addresses : ~claimed[a] /\ ~claimed'[a]
    BY <1>2 DEF SoldOut, Quiet, BooksInv, SaleOpen
  <2>2. Owed' = Owed
    <3>1. \A u : CommittedBy(u)' = CommittedBy(u)
      BY DepositsKept DEF Quiet
    <3>. QED BY <2>1, <3>1 DEF Owed, RefundOwed, Quiet
  <2>3. Totals'
    BY DEF Totals, BooksInv, Quiet, Depositors
  <2>4. EscrowSolvent' /\ ArmReserved'
    BY <2>1, <2>2 DEF BooksInv, Quiet, EscrowSolvent, ArmReserved, ArmStillOwed, Owed, SoldOut
  <2>5. SettledBooks'
    BY <2>1, DepositsKept DEF BooksInv, Quiet, SettledBooks
  <2>6. ProceedsOnlyFromAFullSale' /\ SaleOpen'
    BY <2>1 DEF BooksInv, Quiet, ProceedsOnlyFromAFullSale, SaleOpen
  <2>. QED BY <2>3, <2>4, <2>5, <2>6 DEF BooksInv
<1>. QED BY <1>1, <1>2 DEF Quiet

\* ARM arrives, ARM is recognised, the council cancels, a block is mined.
LEMMA SupplyBooks ==
    ASSUME TypeOK, BooksInv,
           \/ \E amount \in ArmGrants : ReceiveArm(amount)
           \/ LoadArm \/ Cancel \/ Tick
    PROVE  BooksInv'
<1>. USE DEF inviteVars, commitVars, resultVars, settleVars, usdcVars, armVars
<1>1. /\ UNCHANGED <<participantNodes, commitVars, resultVars, settleVars, usdcVars,
                     armHeld, refundMode>>
      /\ UNCHANGED SettlementInputs
  BY DEF ReceiveArm, LoadArm, Cancel, Tick, SettlementInputs
<1>2. SoldOut' = SoldOut
  BY <1>1 DEF ReceiveArm, LoadArm, Cancel, Tick, SoldOut, BooksInv, SaleOpen
<1>3. Owed' = Owed /\ ArmOwed' = ArmOwed
  BY <1>1, <1>2, AllocationsKept DEF Owed, ArmOwed, RefundOwed
<1>4. Totals'
  BY <1>1 DEF Totals, BooksInv, Depositors
<1>5. EscrowSolvent'
  BY <1>1, <1>2, <1>3 DEF BooksInv, EscrowSolvent, Owed, RoundingBuffer
<1>6. SettledBooks'
  BY <1>1, <1>2, AllocationsKept DEF BooksInv, SettledBooks
<1>7. ProceedsOnlyFromAFullSale'
  BY <1>1, <1>2 DEF BooksInv, ProceedsOnlyFromAFullSale, RoundingBuffer
<1>8. ArmReserved'
  <2>1. armBalance' >= armBalance
    BY InputAssumption, SMT DEF ReceiveArm, LoadArm, Cancel, Tick, TypeOK
  <2>2. /\ ArmStillOwed' = ArmStillOwed \/ ArmStillOwed' = 0
        /\ SoldOut' /\ now' <= claimDeadline' => SoldOut /\ now <= claimDeadline
                                                  /\ ArmStillOwed' = ArmStillOwed
    <3>1. now' = now \/ now' = now + 1
      BY DEF ReceiveArm, LoadArm, Cancel, Tick
    <3>2. ArmStillOwed' = IF SoldOut /\ now' <= claimDeadline
                          THEN totalAllocatedArm - totalArmTransferred ELSE 0
      BY <1>1, <1>2 DEF ArmStillOwed, SoldOut
    <3>3. ArmStillOwed = IF SoldOut /\ now <= claimDeadline
                         THEN totalAllocatedArm - totalArmTransferred ELSE 0
      BY DEF ArmStillOwed, SoldOut
    <3>4. now' <= claimDeadline => now <= claimDeadline
      BY <3>1, SMT DEF TypeOK
    <3>. QED BY <1>1, <1>2, <3>2, <3>3, <3>4
  <2>3. /\ armBalance >= ArmStillOwed
        /\ SoldOut /\ now <= claimDeadline => ArmStillOwed >= SumOver(ArmOwed, Addresses)
    BY DEF BooksInv, ArmReserved, ArmOwed
  <2>4. ArmStillOwed \in Int /\ armBalance \in Nat /\ armBalance' \in Int
    BY InputAssumption, SMT DEF TypeOK, ArmStillOwed, ReceiveArm, LoadArm, Cancel, Tick
  <2>5. armBalance' >= ArmStillOwed'
    BY <2>1, <2>2, <2>3, <2>4, SMT
  <2>6. SoldOut' /\ now' <= claimDeadline' => ArmStillOwed' >= SumOver(ArmOwed', Addresses)
    BY <1>3, <2>2, <2>3
  <2>. QED BY <2>5, <2>6 DEF ArmReserved, ArmOwed
<1>9. SaleOpen'
  <2>1. phase' = "Active" => phase = "Active"
    BY DEF ReceiveArm, LoadArm, Cancel, Tick
  <2>2. armLoaded => armLoaded'
    BY DEF ReceiveArm, LoadArm, Cancel, Tick
  <2>3. phase' = "Active" /\ armLoaded' => armBalance' >= RequiredArm
    <3>1. ASSUME NEW amount \in ArmGrants, ReceiveArm(amount), phase = "Active", armLoaded
          PROVE  armBalance' >= RequiredArm
      <4>1. RequiredArm \in Nat /\ amount \in Nat /\ armBalance' = armBalance + amount
            /\ armBalance \in Nat
        BY <3>1, SaleAssumption, InputAssumption, SMT DEF RequiredArm, ReceiveArm, TypeOK
      <4>2. armBalance >= RequiredArm
        BY <3>1 DEF BooksInv, SaleOpen
      <4>. QED BY <4>1, <4>2, SMT
    <3>2. LoadArm => armBalance' >= RequiredArm
      BY DEF LoadArm
    <3>3. Cancel => phase' # "Active"
      BY DEF Cancel
    <3>4. Tick /\ phase = "Active" /\ armLoaded => armBalance' >= RequiredArm
      BY DEF Tick, BooksInv, SaleOpen
    <3>5. (\E amount \in ArmGrants : ReceiveArm(amount)) \/ Tick => UNCHANGED armLoaded
      BY DEF ReceiveArm, Tick
    <3>. QED BY <2>1, <3>1, <3>2, <3>3, <3>4, <3>5
  <2>. QED BY <1>1, <2>1, <2>2, <2>3 DEF BooksInv, SaleOpen
<1>. QED BY <1>4, <1>5, <1>6, <1>7, <1>8, <1>9 DEF BooksInv

-----------------------------------------------------------------------------
(* Deposits *)

\* A deposit raises the totals of its node, its hop and the sale alike.
LEMMA DepositTotals ==
    ASSUME TypeOK, Totals, NEW u \in Addresses, NEW h \in Hops, NEW amount \in Nat \ {0},
           EscrowCommit(u, h, amount)
    PROVE  Totals'
<1>. DEFINE node == <<u, h>>
<1>0. /\ node \in Nodes /\ committed \in [Nodes -> Nat] /\ committed[node] \in Nat
      /\ hopCommitted \in [Hops -> Nat] /\ uniqueCommitters \in [Hops -> Nat]
  BY DEF Nodes, TypeOK
<1>1. /\ committed' \in [Nodes -> Nat]
      /\ committed'[node] = committed[node] + amount
      /\ \A m \in Nodes \ {node} : committed'[m] = committed[m]
  <2>1. committed' = [committed EXCEPT ![node] = committed[node] + amount]
    BY DEF EscrowCommit
  <2>2. committed[node] + amount \in Nat
    BY <1>0, SMT
  <2>. QED BY <1>0, <2>1, <2>2
<1>2. ASSUME NEW k \in Hops
      PROVE  hopCommitted'[k] = SumOver(committed', HopNodes(k))
  <2>1. hopCommitted'[k] = IF k = h THEN hopCommitted[k] + amount ELSE hopCommitted[k]
    BY <1>0 DEF EscrowCommit
  <2>2. hopCommitted[k] = SumOver(committed, HopNodes(k))
    BY DEF Totals
  <2>3. /\ h = k => SumOver(committed', HopNodes(k)) + committed[node] =
                       SumOver(committed, HopNodes(k)) + committed'[node]
        /\ h # k => SumOver(committed', HopNodes(k)) = SumOver(committed, HopNodes(k))
        /\ SumOver(committed, HopNodes(k)) \in Nat /\ SumOver(committed', HopNodes(k)) \in Nat
    <3>1. node[2] = h
      OBVIOUS
    <3>. HIDE DEF node
    <3>. QED BY <1>0, <1>1, <3>1, SumOneNode
  <2>. HIDE DEF node
  <2>. QED BY <1>0, <1>1, <2>1, <2>2, <2>3, SMT
<1>3. ASSUME NEW k \in Hops
      PROVE  uniqueCommitters'[k] = Cardinality(Depositors(k)')
  <2>1. uniqueCommitters'[k] = IF k = h /\ committed[node] = 0 THEN uniqueCommitters[k] + 1
                               ELSE uniqueCommitters[k]
    <3>1. uniqueCommitters' = [uniqueCommitters EXCEPT ![h] = uniqueCommitters[h] +
                                (IF committed[node] = 0 THEN 1 ELSE 0)]
      BY DEF EscrowCommit
    <3>. HIDE DEF node
    <3>2. uniqueCommitters[h] + 0 = uniqueCommitters[h]
      BY <1>0, SMT
    <3>. QED BY <1>0, <3>1, <3>2
  <2>2. uniqueCommitters[k] = Cardinality(Depositors(k)) /\ IsFiniteSet(Depositors(k))
    BY HopNodesFinite, FS_Subset DEF Totals, Depositors
  <2>3. \A m \in Nodes : m \in Depositors(k)' <=> m \in Depositors(k) \/ (k = h /\ m = node)
    <3>1. \A m \in Nodes : committed'[m] > 0 <=> committed[m] > 0 \/ m = node
      BY <1>0, <1>1, SMT
    <3>2. node \in HopNodes(k) <=> k = h
      BY <1>0 DEF HopNodes
    <3>. HIDE DEF node
    <3>. QED BY <1>0, <3>1, <3>2 DEF Depositors
  <2>4. Depositors(k) \in SUBSET Nodes /\ Depositors(k)' \in SUBSET Nodes
    BY DEF Depositors, HopNodes
  <2>5. node \in Depositors(k) <=> k = h /\ committed[node] # 0
    <3>1. committed[node] > 0 <=> committed[node] # 0
      BY <1>0, SMT
    <3>2. node \in HopNodes(k) <=> k = h
      BY <1>0 DEF HopNodes
    <3>. QED BY <3>1, <3>2 DEF Depositors
  <2>. HIDE DEF node
  <2>6. CASE k = h /\ committed[node] = 0
    <3>1. Depositors(k)' = Depositors(k) \cup {node} /\ node \notin Depositors(k)
      BY <1>0, <2>3, <2>4, <2>5, <2>6
    <3>2. Cardinality(Depositors(k) \cup {node}) = Cardinality(Depositors(k)) + 1
      BY <2>2, <3>1, FS_AddElement
    <3>. QED BY <2>1, <2>2, <2>6, <3>1, <3>2
  <2>7. CASE ~(k = h /\ committed[node] = 0)
    <3>1. Depositors(k)' = Depositors(k)
      BY <2>3, <2>4, <2>5, <2>7
    <3>. QED BY <2>1, <2>2, <2>7, <3>1
  <2>. QED BY <2>6, <2>7
<1>4. totalCommitted' = SumOver(committed', Nodes)
  <2>1. SumOver(committed', Nodes) + committed[node] = SumOver(committed, Nodes) + committed'[node]
    <3>1. Nodes \in SUBSET Nodes /\ IsFiniteSet(Nodes)
      BY NodesFinite
    <3>. HIDE DEF node
    <3>. QED BY <1>0, <1>1, <3>1, SumUpdate
  <2>2. SumOver(committed, Nodes) \in Nat /\ SumOver(committed', Nodes) \in Nat
    BY <1>0, <1>1, NodesFinite, SumType
  <2>3. totalCommitted' = totalCommitted + amount /\ totalCommitted = SumOver(committed, Nodes)
    BY DEF EscrowCommit, Totals
  <2>. HIDE DEF node
  <2>. QED BY <1>0, <1>1, <2>1, <2>2, <2>3, SMT
<1>. QED BY <1>2, <1>3, <1>4 DEF Totals

\* A deposit of one account leaves what the others deposited.
LEMMA DepositBy ==
    ASSUME TypeOK, NEW u \in Addresses, NEW h \in Hops, NEW amount \in Nat,
           EscrowCommit(u, h, amount)
    PROVE  /\ CommittedBy(u)' = CommittedBy(u) + amount
           /\ \A x \in Addresses \ {u} : CommittedBy(x)' = CommittedBy(x)
<1>1. <<u, h>> \in Nodes /\ 0 \in Hops /\ 1 \in Hops /\ 2 \in Hops
  BY SMT DEF Nodes, Hops
<1>2. \A x \in Addresses, k \in Hops : committed'[<<x, k>>] =
        IF x = u /\ k = h THEN committed[<<x, k>>] + amount ELSE committed[<<x, k>>]
  <2>1. committed' = [committed EXCEPT ![<<u, h>>] = committed[<<u, h>>] + amount]
    BY DEF EscrowCommit
  <2>2. \A x \in Addresses, k \in Hops : <<x, k>> \in Nodes
    BY DEF Nodes
  <2>. QED BY <1>1, <2>1, <2>2 DEF TypeOK
<1>3. \A x \in Addresses, k \in Hops : committed[<<x, k>>] \in Nat
  BY DEF Nodes, TypeOK
<1>4. ASSUME NEW x \in Addresses \ {u} PROVE CommittedBy(x)' = CommittedBy(x)
  BY <1>1, <1>2 DEF CommittedBy
<1>5. CommittedBy(u)' = CommittedBy(u) + amount
  <2>1. h = 0 \/ h = 1 \/ h = 2
    BY SMT DEF Hops
  <2>2. /\ committed'[<<u, 0>>] = IF h = 0 THEN committed[<<u, 0>>] + amount ELSE committed[<<u, 0>>]
        /\ committed'[<<u, 1>>] = IF h = 1 THEN committed[<<u, 1>>] + amount ELSE committed[<<u, 1>>]
        /\ committed'[<<u, 2>>] = IF h = 2 THEN committed[<<u, 2>>] + amount ELSE committed[<<u, 2>>]
    BY <1>1, <1>2
  <2>3. {committed[<<u, 0>>], committed[<<u, 1>>], committed[<<u, 2>>]} \subseteq Nat
    BY <1>1, <1>3
  <2>. QED BY <2>1, <2>2, <2>3, SMT DEF CommittedBy
<1>. QED BY <1>4, <1>5

\* A deposit raises what the contract holds and what it owes alike.
LEMMA DepositBooks ==
    ASSUME TypeOK, TypeOK', BooksInv, NEW u \in Addresses, NEW h \in Hops,
           NEW amount \in Nat \ {0}, phase = "Active", armLoaded, EscrowCommit(u, h, amount),
           UNCHANGED <<now, phase, armLoaded, refundMode, resultVars, settleVars, armVars>>
    PROVE  BooksInv'
<1>. USE DEF resultVars, settleVars, armVars
<1>1. ~SoldOut /\ ~SoldOut' /\ \A a \in Addresses : ~claimed[a] /\ ~claimed'[a]
  BY DEF SoldOut, BooksInv, SaleOpen
<1>2. /\ CommittedBy(u)' = CommittedBy(u) + amount
      /\ \A x \in Addresses \ {u} : CommittedBy(x)' = CommittedBy(x)
  BY DepositBy
<1>3. /\ \A x \in Addresses : Owed[x] = CommittedBy(x) /\ Owed'[x] = CommittedBy(x)'
      /\ Owed \in [Addresses -> Nat] /\ Owed' \in [Addresses -> Nat]
      /\ SumOver(Owed, Addresses) \in Nat /\ SumOver(Owed', Addresses) \in Nat
  <2>1. OwedTyped /\ (TypeOK' => OwedTyped')
    BY OwedType, PTL
  <2>2. \A x \in Addresses : Owed[x] = CommittedBy(x) /\ Owed'[x] = CommittedBy(x)'
    BY <1>1 DEF Owed, RefundOwed
  <2>. QED BY <2>1, <2>2 DEF OwedTyped
<1>4. SumOver(Owed', Addresses) = SumOver(Owed, Addresses) + amount
  <2>1. \A x \in Addresses \ {u} : Owed'[x] = Owed[x]
    BY <1>2, <1>3
  <2>2. SumOver(Owed', Addresses) + Owed[u] = SumOver(Owed, Addresses) + Owed'[u]
    <3>1. Addresses \in SUBSET Addresses /\ IsFiniteSet(Addresses)
      BY NodesFinite
    <3>. QED BY <1>3, <2>1, <3>1, SumUpdate
  <2>3. Owed'[u] = Owed[u] + amount /\ Owed[u] \in Nat
    BY <1>2, <1>3
  <2>. QED BY <1>3, <2>2, <2>3, SMT
<1>5. EscrowSolvent'
  <2>1. escrow' = escrow + amount /\ escrow \in Nat
    BY DEF EscrowCommit, TypeOK
  <2>2. escrow >= SumOver(Owed, Addresses) /\ escrow <= SumOver(Owed, Addresses) + 0
    BY <1>1 DEF BooksInv, EscrowSolvent, Owed
  <2>3. escrow' >= SumOver(Owed', Addresses) /\ escrow' <= SumOver(Owed', Addresses) + 0
    BY <1>3, <1>4, <2>1, <2>2, SMT
  <2>. QED BY <1>1, <2>3 DEF EscrowSolvent, Owed
<1>6. ArmReserved'
  BY <1>1 DEF BooksInv, ArmReserved, ArmStillOwed, SoldOut
<1>7. SettledBooks'
  <2>1. \A x \in Addresses : InitialWallet - wallet[x] = CommittedBy(x) /\ armHeld[x] = 0
    BY <1>1 DEF BooksInv, SettledBooks
  <2>2. wallet'[u] = wallet[u] - amount /\ \A x \in Addresses \ {u} : wallet'[x] = wallet[x]
    BY DEF EscrowCommit, TypeOK
  <2>3. InitialWallet - wallet'[u] = CommittedBy(u)'
    <3>1. InitialWallet \in Nat /\ wallet[u] \in Nat /\ CommittedBy(u) \in Nat
      BY InputAssumption, UserSums DEF TypeOK
    <3>2. InitialWallet - wallet[u] = CommittedBy(u)
      BY <2>1
    <3>. QED BY <1>2, <2>2, <3>1, <3>2, SMT
  <2>4. \A x \in Addresses : InitialWallet - wallet'[x] = CommittedBy(x)' /\ armHeld'[x] = 0
    BY <1>2, <2>1, <2>2, <2>3
  <2>. QED BY <1>1, <2>4 DEF SettledBooks
<1>8. ProceedsOnlyFromAFullSale'
  BY <1>1 DEF BooksInv, ProceedsOnlyFromAFullSale, EscrowCommit
<1>9. SaleOpen'
  BY DEF BooksInv, SaleOpen
<1>10. Totals'
  BY DepositTotals DEF BooksInv
<1>. QED BY <1>5, <1>6, <1>7, <1>8, <1>9, <1>10 DEF BooksInv

-----------------------------------------------------------------------------
(* Finalization *)

\* The rounding buffer is one unit per node, hop by hop.
LEMMA BufferByHop ==
    ASSUME TypeOK
    PROVE  /\ RoundingBuffer = Cardinality(NodesAt(0)) + Cardinality(NodesAt(1)) + Cardinality(NodesAt(2))
           /\ \A h \in Hops : Cardinality(NodesAt(h)) \in Nat
<1>. DEFINE A == NodesAt(0)
            B == NodesAt(1)
            C == NodesAt(2)
<1>1. participantNodes = (A \cup B) \cup C /\ A \cap B = {} /\ (A \cup B) \cap C = {}
  BY SMT DEF NodesAt, TypeOK, Nodes, Hops
<1>2. \A h \in Hops : IsFiniteSet(NodesAt(h)) /\ Cardinality(NodesAt(h)) \in Nat
  BY NodesAtFinite, FS_CardinalityType
<1>3. /\ IsFiniteSet(A) /\ IsFiniteSet(B) /\ IsFiniteSet(C)
      /\ Cardinality(A) \in Nat /\ Cardinality(B) \in Nat /\ Cardinality(C) \in Nat
  <2>1. 0 \in Hops /\ 1 \in Hops /\ 2 \in Hops
    BY SMT DEF Hops
  <2>. QED BY <1>2, <2>1
<1>. HIDE DEF A, B, C
<1>4. IsFiniteSet(A \cup B) /\ Cardinality(A \cup B) = Cardinality(A) + Cardinality(B)
  <2>1. /\ IsFiniteSet(A \cup B)
        /\ Cardinality(A \cup B) = Cardinality(A) + Cardinality(B) - Cardinality({})
    BY <1>1, <1>3, FS_Union
  <2>. QED BY <1>3, <2>1, FS_EmptySet, SMT
<1>5. Cardinality((A \cup B) \cup C) = Cardinality(A \cup B) + Cardinality(C)
  <2>1. Cardinality((A \cup B) \cup C) = Cardinality(A \cup B) + Cardinality(C) - Cardinality({})
    BY <1>1, <1>3, <1>4, FS_Union
  <2>. QED BY <1>3, <1>4, <2>1, FS_EmptySet, SMT
<1>6. RoundingBuffer = Cardinality(A) + Cardinality(B) + Cardinality(C)
  BY <1>1, <1>4, <1>5 DEF RoundingBuffer
<1>. QED BY <1>2, <1>6 DEF A, B, C

\* What the nodes are allocated adds up to the sale's total, less a unit per
\* node at most; and no more is demanded than was deposited.
LEMMA HopsTogether ==
    ASSUME TypeOK, Outsiders, NEW size \in Nat,
           NEW demand, demand = [h \in Hops |-> CappedCommitted(h)],
           NEW ceiling, ceiling = HopCeilings(size, demand),
           NEW alloc, alloc = [n \in Nodes |->
              AllocatedUsdc(committed[n], EffectiveCap(n), ceiling[n[2]], demand[n[2]])]
    PROVE  /\ alloc \in [Nodes -> Nat] /\ SumOver(alloc, Nodes) \in Nat
           /\ SumOver(alloc, Nodes) <= TotalAllocation(size, demand)
           /\ TotalAllocation(size, demand) <= SumOver(alloc, Nodes) + RoundingBuffer
           /\ demand[0] + demand[1] + demand[2] <= SumOver(committed, Nodes)
<1>. DEFINE caps == [n \in Nodes |-> EffectiveCap(n)]
            acc  == AcceptedOf(Nodes, committed, caps)
            total == TotalAllocation(size, demand)
            buffer == RoundingBuffer
            sumAlloc(h) == SumOver(alloc, HopNodes(h))
            grant(h) == Granted(demand[h], ceiling[h])
            nodes(h) == Cardinality(NodesAt(h))
            sumDeposit(h) == SumOver(committed, HopNodes(h))
<1>1. /\ committed \in [Nodes -> Nat] /\ caps \in [Nodes -> Nat]
      /\ \A n \in Nodes : n[2] \in Hops /\ caps[n] = EffectiveCap(n)
      /\ 0 \in Hops /\ 1 \in Hops /\ 2 \in Hops
  BY CapType, SMT DEF TypeOK, Hops
<1>2. demand \in [Hops -> Nat] /\ ceiling \in [Hops -> Nat]
  BY DemandType, HopCeilingFacts
<1>3. acc = [n \in Nodes |-> Accepted(committed[n], EffectiveCap(n))] /\ acc \in [Nodes -> Nat]
  <2>1. acc = [n \in Nodes |-> Accepted(committed[n], EffectiveCap(n))]
    BY DEF AcceptedOf
  <2>2. \A n \in Nodes : Accepted(committed[n], EffectiveCap(n)) \in Nat
    BY CapType
  <2>. HIDE DEF acc
  <2>. QED BY <2>1, <2>2
<1>4. \A h \in Hops : demand[h] = SumOver(acc, NodesAt(h))
  BY <1>3 DEF CappedCommitted
<1>5. ASSUME NEW n \in Nodes
      PROVE  /\ alloc[n] \in Nat /\ alloc[n] <= acc[n] /\ acc[n] <= committed[n]
             /\ acc[n] \in Nat /\ committed[n] \in Nat
  <2>1. /\ committed[n] \in Nat /\ EffectiveCap(n) \in Nat
        /\ ceiling[n[2]] \in Nat /\ demand[n[2]] \in Nat
    BY <1>1, <1>2, CapType
  <2>. DEFINE d == committed[n]
              k == EffectiveCap(n)
              l == ceiling[n[2]]
              m == demand[n[2]]
  <2>2. alloc[n] = AllocatedUsdc(d, k, l, m) /\ acc[n] = Accepted(d, k)
    BY <1>3
  <2>. HIDE DEF d, k, l, m, acc
  <2>3. /\ AllocatedUsdc(d, k, l, m) \in Nat /\ AllocatedUsdc(d, k, l, m) <= Accepted(d, k)
        /\ Accepted(d, k) \in Nat /\ Accepted(d, k) <= d
    BY <2>1, ShareFacts DEF d, k, l, m
  <2>. QED BY <2>1, <2>2, <2>3 DEF d
<1>6. alloc \in [Nodes -> Nat]
  <2>. HIDE DEF acc
  <2>. QED BY <1>5
<1>. HIDE DEF caps
<1>7. ASSUME NEW h \in Hops
      PROVE  /\ sumAlloc(h) \in Nat /\ grant(h) \in Nat /\ nodes(h) \in Nat
             /\ sumAlloc(h) <= grant(h) /\ grant(h) <= sumAlloc(h) + nodes(h)
  <2>. DEFINE share == SharesOf(Nodes, committed, caps, ceiling[h], demand[h])
  <2>1. NodesAt(h) \in SUBSET Nodes /\ IsFiniteSet(NodesAt(h))
    BY NodesAtFinite
  <2>2. /\ SumOver(share, NodesAt(h)) \in Nat
        /\ SumOver(share, NodesAt(h)) <= Granted(demand[h], ceiling[h])
        /\ Granted(demand[h], ceiling[h]) <= SumOver(share, NodesAt(h)) + Cardinality(NodesAt(h))
    <3>1. demand[h] = SumOver(AcceptedOf(Nodes, committed, caps), NodesAt(h))
      BY <1>4
    <3>. QED BY <1>1, <1>2, <2>1, <3>1, HopShares
  <2>3. \A n \in NodesAt(h) : alloc[n] = share[n]
    BY <1>1, <2>1 DEF SharesOf, NodesAt
  <2>. HIDE DEF share
  <2>4. SumOver(alloc, NodesAt(h)) = SumOver(share, NodesAt(h))
    BY <2>3, SumCongruence
  <2>5. SumOver(alloc, NodesAt(h)) = SumOver(alloc, HopNodes(h))
    <3>1. \A n \in Nodes \ participantNodes : alloc[n] = 0
      <4>1. \A n \in Nodes \ participantNodes : committed[n] = 0
        BY DEF Outsiders
      <4>. HIDE DEF acc
      <4>. QED BY <1>5, <4>1, SMT
    <3>2. participantNodes \in SUBSET Nodes
      BY DEF TypeOK
    <3>. QED BY <1>6, <3>1, <3>2, SumAtHop DEF NodesAt
  <2>6. Granted(demand[h], ceiling[h]) \in Nat
    BY <1>2, SMT DEF Granted, Smaller
  <2>. QED BY <2>2, <2>4, <2>5, <2>6, BufferByHop
<1>8. ASSUME NEW h \in Hops
      PROVE  demand[h] <= sumDeposit(h) /\ sumDeposit(h) \in Nat /\ demand[h] \in Nat
  <2>1. NodesAt(h) \in SUBSET HopNodes(h)
    BY DEF NodesAt, HopNodes, TypeOK
  <2>2. \A n \in NodesAt(h) : acc[n] <= committed[n]
    BY <1>5, <2>1 DEF HopNodes
  <2>. HIDE DEF acc
  <2>3. SumOver(acc, NodesAt(h)) <= SumOver(committed, HopNodes(h))
    BY <1>1, <1>3, <2>1, <2>2, HopNodesFinite, SumMonotone
  <2>4. SumOver(committed, HopNodes(h)) \in Nat
    BY <1>1, HopNodesFinite, SumType
  <2>. QED BY <1>2, <1>4, <2>3, <2>4
<1>9. /\ SumOver(alloc, Nodes) = sumAlloc(0) + sumAlloc(1) + sumAlloc(2)
      /\ SumOver(committed, Nodes) = sumDeposit(0) + sumDeposit(1) + sumDeposit(2)
  BY <1>1, <1>6, SumOverHops
<1>10. /\ total = grant(0) + grant(1) + grant(2)
       /\ buffer = nodes(0) + nodes(1) + nodes(2)
  BY BufferByHop DEF TotalAllocation
<1>11. /\ sumAlloc(0) + sumAlloc(1) + sumAlloc(2) \in Nat
       /\ sumAlloc(0) + sumAlloc(1) + sumAlloc(2) <= grant(0) + grant(1) + grant(2)
       /\ grant(0) + grant(1) + grant(2) <=
            (sumAlloc(0) + sumAlloc(1) + sumAlloc(2)) + (nodes(0) + nodes(1) + nodes(2))
       /\ demand[0] + demand[1] + demand[2] <= sumDeposit(0) + sumDeposit(1) + sumDeposit(2)
  <2>. HIDE DEF sumAlloc, grant, nodes, sumDeposit
  <2>1. /\ sumAlloc(0) \in Nat /\ grant(0) \in Nat /\ nodes(0) \in Nat
        /\ sumAlloc(0) <= grant(0) /\ grant(0) <= sumAlloc(0) + nodes(0)
    BY <1>1, <1>7
  <2>2. /\ sumAlloc(1) \in Nat /\ grant(1) \in Nat /\ nodes(1) \in Nat
        /\ sumAlloc(1) <= grant(1) /\ grant(1) <= sumAlloc(1) + nodes(1)
    BY <1>1, <1>7
  <2>3. /\ sumAlloc(2) \in Nat /\ grant(2) \in Nat /\ nodes(2) \in Nat
        /\ sumAlloc(2) <= grant(2) /\ grant(2) <= sumAlloc(2) + nodes(2)
    BY <1>1, <1>7
  <2>4. /\ demand[0] <= sumDeposit(0) /\ sumDeposit(0) \in Nat /\ demand[0] \in Nat
        /\ demand[1] <= sumDeposit(1) /\ sumDeposit(1) \in Nat /\ demand[1] \in Nat
        /\ demand[2] <= sumDeposit(2) /\ sumDeposit(2) \in Nat /\ demand[2] \in Nat
    BY <1>1, <1>8
  <2>. QED BY <2>1, <2>2, <2>3, <2>4, SMT
<1>. HIDE DEF sumAlloc, grant, nodes, sumDeposit, total, buffer
<1>12. /\ SumOver(alloc, Nodes) <= total /\ total <= SumOver(alloc, Nodes) + buffer
       /\ demand[0] + demand[1] + demand[2] <= SumOver(committed, Nodes)
       /\ SumOver(alloc, Nodes) \in Nat
  BY <1>9, <1>10, <1>11
<1>. QED BY <1>6, <1>12 DEF total, buffer

\* A step between two states without a sale that moves no money.
LEMMA UnsoldBooks ==
    ASSUME TypeOK', BooksInv, ~SoldOut, ~SoldOut', phase' # "Active",
           UNCHANGED <<armLoaded, commitVars, settleVars, usdcVars, armHeld, totalAllocatedArm>>
    PROVE  BooksInv'
<1>. USE DEF commitVars, settleVars, usdcVars
<1>1. Owed' = Owed
  BY DepositsKept DEF Owed, RefundOwed
<1>2. EscrowSolvent'
  BY <1>1 DEF BooksInv, EscrowSolvent, Owed
<1>3. ArmReserved'
  <2>1. ArmStillOwed' = 0
    BY DEF ArmStillOwed, SoldOut
  <2>2. armBalance' \in Nat
    BY DEF TypeOK
  <2>. QED BY <2>1, <2>2, SMT DEF ArmReserved
<1>4. SettledBooks'
  BY DepositsKept DEF BooksInv, SettledBooks
<1>5. ProceedsOnlyFromAFullSale'
  BY DEF BooksInv, ProceedsOnlyFromAFullSale
<1>6. Totals' /\ SaleOpen'
  BY DEF BooksInv, Totals, SaleOpen, Depositors
<1>. QED BY <1>2, <1>3, <1>4, <1>5, <1>6 DEF BooksInv

\* A successful sale: what it leaves in the escrow and in reserve.
LEMMA SaleBooks ==
    ASSUME TypeOK, TypeOK', Outsiders, WithinBudgets, BooksInv, phase = "Active",
           NEW demand, demand = [h \in Hops |-> CappedCommitted(h)],
           NEW capped, capped = demand[0] + demand[1] + demand[2],
           NEW size, size = SizeFor(capped),
           NEW allocation, allocation = TotalAllocation(size, demand),
           phase' = "Finalized", cappedDemand' = capped, saleSize' = size,
           finalCeilings' = HopCeilings(size, demand), finalDemands' = demand,
           allocation >= MinSale, RecordSale(allocation),
           UNCHANGED <<now, armLoaded, inviteVars, commitVars, settleVars, armVars>>
    PROVE  BooksInv'
<1>. USE DEF inviteVars, commitVars, settleVars, armVars
<1>. DEFINE alloc == [n \in Nodes |-> AllocatedUsdc(committed[n], EffectiveCap(n),
                                        HopCeilings(size, demand)[n[2]], demand[n[2]])]
            share == [a \in Addresses |-> AllocatedTo(a)']
            A == SumOver(share, Addresses)
            owed == SumOver(Owed, Addresses)
            owed2 == SumOver(Owed', Addresses)
            buffer == RoundingBuffer
<1>1. /\ ~SoldOut /\ SoldOut'
      /\ \A a \in Addresses : ~claimed[a] /\ ~claimed'[a]
      /\ armHeld' = armHeld /\ armBalance' = armBalance /\ now' = now
      /\ participantNodes' = participantNodes /\ invitesReceived' = invitesReceived
      /\ committed' = committed /\ totalCommitted' = totalCommitted
      /\ totalArmTransferred' = totalArmTransferred /\ claimed' = claimed
      /\ wallet' = wallet
  BY DEF SoldOut, BooksInv, SaleOpen, RecordSale
<1>2. /\ size \in Nat /\ size <= MaxSale /\ {MinSale, MaxSale, ArmPerUsdc} \subseteq Nat \ {0}
      /\ size = MaxSale => capped >= ElasticTrigger \/ MaxSale = BaseSale
      /\ MaxFinalizeNodes \in Nat /\ MaxFinalizeNodes < MinSale
  BY SaleAssumption, SMT DEF SizeFor
<1>3. /\ alloc \in [Nodes -> Nat] /\ SumOver(alloc, Nodes) \in Nat
      /\ SumOver(alloc, Nodes) <= allocation
      /\ allocation <= SumOver(alloc, Nodes) + buffer
      /\ capped <= totalCommitted
  <2>1. totalCommitted = SumOver(committed, Nodes)
    BY DEF BooksInv, Totals
  <2>. QED BY <1>2, <2>1, HopsTogether
<1>4. /\ allocation \in Nat /\ allocation <= size /\ allocation <= capped /\ capped \in Nat
  <2>1. demand \in [Hops -> Nat]
    BY DemandType
  <2>2. capped \in Nat
    BY <2>1, SMT DEF Hops
  <2>. QED BY <1>2, <2>1, <2>2, TotalWithinSale
<1>5. buffer \in Nat /\ buffer < allocation
  <2>1. buffer \in Nat /\ buffer <= MaxFinalizeNodes
    BY BufferType DEF WithinBudgets, RoundingBuffer
  <2>. HIDE DEF buffer
  <2>. QED BY <1>2, <1>4, <2>1, SMT
<1>6. \A n \in Nodes : Allocation(n)' = alloc[n]
  <2>1. \A n \in Nodes : EffectiveCap(n)' = EffectiveCap(n)
    BY <1>1 DEF EffectiveCap
  <2>. QED BY <1>1, <2>1 DEF Allocation
<1>7. /\ share \in [Addresses -> Nat]
      /\ \A a \in Addresses : share[a] = alloc[<<a, 0>>] + alloc[<<a, 1>>] + alloc[<<a, 2>>]
      /\ OwedTyped /\ OwedTyped'
  <2>1. OwedTyped /\ (TypeOK' => OwedTyped')
    BY OwedType, PTL
  <2>2. \A a \in Addresses : <<a, 0>> \in Nodes /\ <<a, 1>> \in Nodes /\ <<a, 2>> \in Nodes
    BY SMT DEF Nodes, Hops
  <2>. QED BY <1>6, <2>1, <2>2 DEF OwedTyped, AllocatedTo
<1>8. A = SumOver(alloc, Nodes)
  <2>. HIDE DEF share, alloc
  <2>. QED BY <1>3, <1>7, SumByAccount
<1>. HIDE DEF alloc
\* What is owed after the sale is what was deposited less what was allocated.
<1>9. owed = owed2 + A
  <2>. DEFINE both == PlusOf(Addresses, Owed', share)
  <2>1. \A a \in Addresses : /\ Owed[a] = CommittedBy(a) /\ Owed'[a] = CommittedBy(a) - share[a]
                             /\ Owed'[a] \in Nat /\ share[a] \in Nat /\ CommittedBy(a) \in Nat
    <3>1. \A a \in Addresses : CommittedBy(a)' = CommittedBy(a)
      BY <1>1, DepositsKept
    <3>2. \A a \in Addresses : Owed[a] = CommittedBy(a) /\ Owed'[a] = RefundTo(a)'
      BY <1>1 DEF Owed, RefundOwed
    <3>3. \A a \in Addresses : RefundTo(a)' = CommittedBy(a) - share[a]
      BY <3>1 DEF RefundTo
    <3>. QED BY <1>7, <3>2, <3>3, UserSums DEF OwedTyped
  <2>. HIDE DEF share
  <2>2. \A a \in Addresses : both[a] = Owed[a]
    <3>1. \A a \in Addresses : both[a] = Owed'[a] + share[a]
      BY DEF PlusOf
    <3>. HIDE DEF both
    <3>. QED BY <2>1, <3>1, SMT
  <2>3. SumOver(both, Addresses) = SumOver(Owed', Addresses) + SumOver(share, Addresses)
    <3>1. Addresses \in SUBSET Addresses /\ IsFiniteSet(Addresses) /\ Owed' \in [Addresses -> Nat]
      BY <1>7, NodesFinite DEF OwedTyped
    <3>. QED BY <1>7, <3>1, SumPlus
  <2>. HIDE DEF both
  <2>4. SumOver(both, Addresses) = owed
    BY <2>2, SumCongruence
  <2>. QED BY <2>3, <2>4
<1>10. owed \in Nat /\ owed2 \in Nat /\ A \in Nat /\ A <= allocation /\ allocation <= A + buffer
  BY <1>3, <1>7, <1>8 DEF OwedTyped
<1>11. escrow = owed /\ escrow' = escrow - (allocation - buffer)
  <2>1. escrow >= owed /\ escrow <= owed + 0 /\ escrow \in Nat
    BY <1>1 DEF BooksInv, EscrowSolvent, Owed, TypeOK
  <2>2. ProceedsPush(allocation) = allocation - buffer
    BY <1>4, <1>5, SMT DEF ProceedsPush
  <2>3. escrow' = escrow - ProceedsPush(allocation)
    BY DEF RecordSale
  <2>. HIDE DEF owed, buffer
  <2>. QED BY <1>10, <2>1, <2>2, <2>3, SMT
<1>12. EscrowSolvent'
  <2>1. escrow' >= owed2 /\ escrow' <= owed2 + buffer
    <3>. HIDE DEF owed, owed2, A, buffer
    <3>. QED BY <1>4, <1>5, <1>9, <1>10, <1>11, SMT
  <2>2. RoundingBuffer' = RoundingBuffer
    BY <1>1 DEF RoundingBuffer
  <2>. QED BY <1>1, <2>1, <2>2 DEF EscrowSolvent, Owed
<1>13. totalArmTransferred' = 0 /\ treasuryUsdc = 0
  BY <1>1 DEF BooksInv, ProceedsOnlyFromAFullSale
<1>14. ArmReserved'
  <2>1. SumOver(ArmOwed', Addresses) = A * ArmPerUsdc
    <3>1. \A a \in Addresses : ArmOwed'[a] = share[a] * ArmPerUsdc
      BY <1>1 DEF ArmOwed
    <3>2. ArmOwed' \in [Addresses -> Nat] /\ Addresses \in SUBSET Addresses
          /\ IsFiniteSet(Addresses) /\ ArmPerUsdc \in Nat
      BY <1>2, <1>7, NodesFinite DEF OwedTyped
    <3>. HIDE DEF share
    <3>. QED BY <1>7, <3>1, <3>2, SumScaled
  <2>2. armBalance' >= RequiredArm
    <3>1. totalCommitted # 0
      BY <1>2, <1>3, <1>4, SMT DEF TypeOK
    <3>2. armLoaded
      BY <3>1 DEF BooksInv, SaleOpen
    <3>. QED BY <1>1, <3>2 DEF BooksInv, SaleOpen
  <2>3. /\ A * ArmPerUsdc <= allocation * ArmPerUsdc
        /\ allocation * ArmPerUsdc <= MaxSale * ArmPerUsdc
        /\ {A * ArmPerUsdc, allocation * ArmPerUsdc, MaxSale * ArmPerUsdc} \subseteq Nat
    <3>1. ASSUME NEW x \in Nat, NEW y \in Nat, NEW k \in Nat, x <= y
          PROVE  x * k <= y * k /\ x * k \in Nat /\ y * k \in Nat
      BY <3>1, SMT
    <3>2. allocation <= MaxSale /\ MaxSale \in Nat /\ ArmPerUsdc \in Nat
      BY <1>2, <1>4, SMT
    <3>. HIDE DEF A
    <3>. QED BY <1>4, <1>10, <3>1, <3>2
  <2>4. totalAllocatedArm' = allocation * ArmPerUsdc
    BY DEF RecordSale
  <2>5. ArmStillOwed' = IF now' <= claimDeadline' THEN totalAllocatedArm' ELSE 0
    <3>1. totalAllocatedArm' - totalArmTransferred' = totalAllocatedArm'
      BY <1>13, SMT DEF TypeOK
    <3>. QED BY <1>1, <3>1 DEF ArmStillOwed, SoldOut
  <2>6. armBalance' >= ArmStillOwed'
    <3>1. armBalance' \in Nat
      BY DEF TypeOK
    <3>. QED BY <2>2, <2>3, <2>4, <2>5, <3>1, SMT DEF RequiredArm
  <2>7. now' <= claimDeadline' => ArmStillOwed' >= SumOver(ArmOwed', Addresses)
    BY <2>1, <2>3, <2>4, <2>5
  <2>. QED BY <2>6, <2>7 DEF ArmReserved, ArmOwed
<1>15. SettledBooks'
  <2>1. \A a \in Addresses : InitialWallet - wallet[a] = CommittedBy(a) /\ armHeld[a] = 0
    BY <1>1 DEF BooksInv, SettledBooks
  <2>. QED BY <1>1, <2>1, DepositsKept DEF SettledBooks
<1>16. ProceedsOnlyFromAFullSale'
  <2>1. treasuryUsdc' = 0 + (allocation - buffer) /\ totalAllocatedUsdc' = allocation
    <3>1. ProceedsPush(allocation) = allocation - buffer
      BY <1>4, <1>5, SMT DEF ProceedsPush
    <3>. QED BY <1>13, <3>1 DEF RecordSale
  <2>2. RoundingBuffer' = buffer
    BY <1>1 DEF RoundingBuffer
  <2>. HIDE DEF buffer
  <2>3. treasuryUsdc' + RoundingBuffer' = totalAllocatedUsdc'
    BY <1>4, <1>5, <2>1, <2>2, SMT
  <2>4. capped <= totalCommitted'
    BY <1>1, <1>3
  <2>5. MinSale <= allocation
    BY <1>2, <1>4, SMT
  <2>. QED BY <1>1, <1>2, <1>4, <2>1, <2>3, <2>4, <2>5 DEF ProceedsOnlyFromAFullSale
<1>17. Totals' /\ SaleOpen'
  BY <1>1 DEF BooksInv, Totals, SaleOpen, Depositors
<1>. QED BY <1>12, <1>14, <1>15, <1>16, <1>17 DEF BooksInv

\* finalize(), whatever its outcome.
LEMMA FinalizeBooks ==
    ASSUME TypeOK, TypeOK', Outsiders, WithinBudgets, BooksInv, Finalize
    PROVE  BooksInv'
<1>. DEFINE demand     == [h \in Hops |-> CappedCommitted(h)]
            capped     == demand[0] + demand[1] + demand[2]
            size       == SizeFor(capped)
            allocation == TotalAllocation(size, demand)
<1>1. /\ phase = "Active" /\ phase' = "Finalized" /\ cappedDemand' = capped
      /\ UNCHANGED <<now, armLoaded, inviteVars, commitVars, settleVars, armVars>>
      /\ \/ EnterRefundMode
         \/ /\ saleSize' = size /\ finalCeilings' = HopCeilings(size, demand)
            /\ finalDemands' = demand
            /\ allocation >= MinSale /\ RecordSale(allocation)
  BY DEF Finalize
<1>. HIDE DEF demand
<1>2. CASE EnterRefundMode
  <2>1. ~SoldOut /\ ~SoldOut'
    BY <1>1, <1>2 DEF SoldOut, EnterRefundMode
  <2>2. UNCHANGED <<armLoaded, commitVars, settleVars, usdcVars, armHeld, totalAllocatedArm>>
    BY <1>1, <1>2 DEF EnterRefundMode, armVars
  <2>. QED BY <1>1, <2>1, <2>2, UnsoldBooks
<1>3. CASE ~EnterRefundMode
  <2>1. demand = [h \in Hops |-> CappedCommitted(h)]
    BY DEF demand
  <2>. QED BY <1>1, <1>3, <2>1, SaleBooks
<1>. QED BY <1>2, <1>3

-----------------------------------------------------------------------------
(* Settlement *)

\* One account is settled: what it was owed leaves the books.
LEMMA OneSettled ==
    ASSUME TypeOK, TypeOK', NEW u \in Addresses, ~claimed[u],
           claimed' = [claimed EXCEPT ![u] = TRUE],
           UNCHANGED <<SettlementInputs, phase, refundMode>>
    PROVE  /\ \A x \in Addresses : claimed'[x] <=> claimed[x] \/ x = u
           /\ SumOver(Owed, Addresses) = SumOver(Owed', Addresses) + RefundOwed(u)
           /\ SumOver(ArmOwed, Addresses) = SumOver(ArmOwed', Addresses) + AllocatedTo(u) * ArmPerUsdc
           /\ OwedTyped /\ OwedTyped'
<1>1. OwedTyped /\ OwedTyped'
  <2>1. OwedTyped /\ (TypeOK' => OwedTyped')
    BY OwedType, PTL
  <2>. QED BY <2>1
<1>2. \A x \in Addresses : claimed'[x] <=> claimed[x] \/ x = u
  BY DEF TypeOK
<1>3. /\ \A x \in Addresses \ {u} : Owed'[x] = Owed[x] /\ ArmOwed'[x] = ArmOwed[x]
      /\ Owed'[u] = 0 /\ Owed[u] = RefundOwed(u)
      /\ ArmOwed'[u] = 0 /\ ArmOwed[u] = AllocatedTo(u) * ArmPerUsdc
  <2>1. \A x : CommittedBy(x)' = CommittedBy(x) /\ AllocatedTo(x)' = AllocatedTo(x)
               /\ RefundTo(x)' = RefundTo(x)
    BY AllocationsKept
  <2>. QED BY <1>2, <2>1 DEF Owed, ArmOwed, RefundOwed, SoldOut
<1>4. Addresses \in SUBSET Addresses /\ IsFiniteSet(Addresses)
  BY NodesFinite
<1>5. SumOver(Owed', Addresses) + Owed[u] = SumOver(Owed, Addresses) + Owed'[u]
  BY <1>1, <1>3, <1>4, SumUpdate DEF OwedTyped
<1>6. SumOver(ArmOwed', Addresses) + ArmOwed[u] = SumOver(ArmOwed, Addresses) + ArmOwed'[u]
  BY <1>1, <1>3, <1>4, SumUpdate DEF OwedTyped
<1>7. /\ {SumOver(Owed, Addresses), SumOver(Owed', Addresses),
          SumOver(ArmOwed, Addresses), SumOver(ArmOwed', Addresses)} \subseteq Nat
      /\ Owed[u] \in Nat /\ ArmOwed[u] \in Nat
  BY <1>1 DEF OwedTyped
<1>8. /\ SumOver(Owed, Addresses) = SumOver(Owed', Addresses) + Owed[u]
      /\ SumOver(ArmOwed, Addresses) = SumOver(ArmOwed', Addresses) + ArmOwed[u]
  BY <1>3, <1>5, <1>6, <1>7, SMT
<1>. QED BY <1>1, <1>2, <1>3, <1>8

\* A payment of what an account is owed keeps the escrow solvent.
LEMMA PaidFromEscrow ==
    ASSUME NEW before \in Nat, NEW after \in Nat, NEW owed \in Nat, NEW owed2 \in Nat,
           NEW due \in Nat, NEW slack \in Nat, before >= owed, before <= owed + slack,
           owed = owed2 + due, after = before - due
    PROVE  after >= owed2 /\ after <= owed2 + slack
  BY SMT

\* claim() pays the refund and, before the deadline, the ARM.
LEMMA ClaimBooks ==
    ASSUME TypeOK, TypeOK', BooksInv, NEW u \in Addresses, NEW d \in BOOLEAN, Claim(u, d)
    PROVE  BooksInv'
<1>. USE DEF inviteVars, commitVars, resultVars
<1>1. /\ phase = "Finalized" /\ ~refundMode /\ ~claimed[u] /\ SoldOut /\ SoldOut'
      /\ claimed' = [claimed EXCEPT ![u] = TRUE]
      /\ PayArm(u, ArmDue(u)) /\ PayUsdc(u, RefundTo(u))
      /\ UNCHANGED <<now, phase, armLoaded, refundMode, inviteVars, commitVars, resultVars>>
      /\ UNCHANGED <<SettlementInputs, participantNodes>>
  BY DEF Claim, HasUnsettledCommitment, SoldOut, SettlementInputs
<1>2. /\ \A x \in Addresses : claimed'[x] <=> claimed[x] \/ x = u
      /\ SumOver(Owed, Addresses) = SumOver(Owed', Addresses) + RefundTo(u)
      /\ SumOver(ArmOwed, Addresses) = SumOver(ArmOwed', Addresses) + AllocatedTo(u) * ArmPerUsdc
      /\ OwedTyped /\ OwedTyped'
  <2>1. RefundOwed(u) = RefundTo(u)
    BY <1>1 DEF RefundOwed
  <2>. QED BY <1>1, <2>1, OneSettled
<1>3. RefundTo(u) \in Nat /\ CommittedBy(u) \in Nat /\ AllocatedTo(u) \in Nat
      /\ AllocatedTo(u) * ArmPerUsdc \in Nat
  BY <1>2, RefundNatural, UserSums DEF OwedTyped
<1>4. EscrowSolvent'
  <2>1. escrow' = escrow - RefundTo(u) /\ escrow \in Nat /\ escrow' \in Nat
    BY <1>1 DEF PayUsdc, TypeOK
  <2>2. escrow >= SumOver(Owed, Addresses) /\ escrow <= SumOver(Owed, Addresses) + RoundingBuffer
    BY <1>1 DEF BooksInv, EscrowSolvent, Owed
  <2>3. SumOver(Owed, Addresses) \in Nat /\ SumOver(Owed', Addresses) \in Nat
        /\ RoundingBuffer \in Nat /\ RoundingBuffer' = RoundingBuffer
    BY <1>1, <1>2, BufferType DEF OwedTyped, RoundingBuffer
  <2>4. /\ escrow' >= SumOver(Owed', Addresses)
        /\ escrow' <= SumOver(Owed', Addresses) + RoundingBuffer
    BY <1>2, <1>3, <2>1, <2>2, <2>3, PaidFromEscrow
  <2>. QED BY <1>1, <2>3, <2>4 DEF EscrowSolvent, Owed
<1>5. /\ totalArmTransferred' = totalArmTransferred + ArmDue(u)
      /\ armBalance' = armBalance - ArmDue(u) /\ armBalance >= ArmDue(u)
      /\ armHeld' = [armHeld EXCEPT ![u] = armHeld[u] + ArmDue(u)]
  BY <1>1 DEF PayArm
<1>6. ArmReserved'
  <2>1. /\ ArmStillOwed = IF now <= claimDeadline THEN totalAllocatedArm - totalArmTransferred ELSE 0
        /\ ArmStillOwed' = IF now <= claimDeadline THEN totalAllocatedArm - totalArmTransferred' ELSE 0
    BY <1>1 DEF ArmStillOwed, SoldOut
  <2>2. armBalance >= ArmStillOwed
        /\ (now <= claimDeadline => ArmStillOwed >= SumOver(ArmOwed, Addresses))
    BY <1>1 DEF BooksInv, ArmReserved, ArmOwed
  <2>3. ArmDue(u) = IF now <= claimDeadline THEN AllocatedTo(u) * ArmPerUsdc ELSE 0
    BY DEF ArmDue
  <2>4. {SumOver(ArmOwed, Addresses), SumOver(ArmOwed', Addresses), totalAllocatedArm,
         totalArmTransferred, armBalance, armBalance'} \subseteq Nat
    BY <1>2 DEF OwedTyped, TypeOK
  <2>5. armBalance' >= ArmStillOwed'
        /\ (now <= claimDeadline => ArmStillOwed' >= SumOver(ArmOwed', Addresses))
    <3>1. CASE now <= claimDeadline
      <4>. DEFINE due == AllocatedTo(u) * ArmPerUsdc
      <4>1. ArmDue(u) = due /\ due \in Nat
        BY <1>3, <2>3, <3>1
      <4>. HIDE DEF due
      <4>2. SumOver(ArmOwed, Addresses) = SumOver(ArmOwed', Addresses) + due
        BY <1>2 DEF due
      <4>. QED BY <1>5, <2>1, <2>2, <2>4, <3>1, <4>1, <4>2, SMT
    <3>2. CASE ~(now <= claimDeadline)
      BY <2>1, <2>4, <3>2, SMT
    <3>. QED BY <3>1, <3>2
  <2>. QED BY <1>1, <2>5 DEF ArmReserved, ArmOwed
<1>7. SettledBooks'
  <2>1. /\ \A n : EffectiveCap(n)' = EffectiveCap(n) /\ Allocation(n)' = Allocation(n)
        /\ \A x : CommittedBy(x)' = CommittedBy(x) /\ AllocatedTo(x)' = AllocatedTo(x)
    BY <1>1, AllocationsKept
  <2>2. \A x \in Addresses \ {u} : wallet'[x] = wallet[x] /\ armHeld'[x] = armHeld[x]
    BY <1>1, <1>5 DEF PayUsdc, TypeOK
  <2>3. /\ InitialWallet - wallet'[u] = AllocatedTo(u)
        /\ armHeld'[u] \in {0, AllocatedTo(u) * ArmPerUsdc}
    <3>1. InitialWallet - wallet[u] = CommittedBy(u) /\ armHeld[u] = 0
      BY <1>1 DEF BooksInv, SettledBooks
    <3>2. wallet'[u] = wallet[u] + RefundTo(u) /\ wallet[u] \in Nat /\ InitialWallet \in Nat
      BY <1>1, InputAssumption DEF PayUsdc, TypeOK
    <3>3. RefundTo(u) = CommittedBy(u) - AllocatedTo(u)
      BY DEF RefundTo
    <3>4. InitialWallet - wallet'[u] = AllocatedTo(u)
      BY <1>3, <3>1, <3>2, <3>3, SMT
    <3>5. armHeld'[u] = ArmDue(u)
      <4>1. armHeld'[u] = armHeld[u] + ArmDue(u)
        BY <1>5 DEF TypeOK
      <4>2. ArmDue(u) \in Nat
        BY <1>3, SMT DEF ArmDue
      <4>. QED BY <3>1, <4>1, <4>2, SMT
    <3>. QED BY <3>4, <3>5 DEF ArmDue
  <2>4. \A h \in Hops : Allocation(<<u, h>>) <= EffectiveCap(<<u, h>>)
    <3>. SUFFICES ASSUME NEW h \in Hops PROVE Allocation(<<u, h>>) <= EffectiveCap(<<u, h>>)
      OBVIOUS
    <3>. DEFINE n == <<u, h>>
    <3>1. n \in Nodes /\ n[2] = h
      BY DEF Nodes
    <3>. HIDE DEF n
    <3>2. /\ committed[n] \in Nat /\ EffectiveCap(n) \in Nat
          /\ finalCeilings[n[2]] \in Nat /\ finalDemands[n[2]] \in Nat
      BY <3>1, CapType DEF TypeOK
    <3>3. /\ Allocation(n) <= Accepted(committed[n], EffectiveCap(n))
          /\ Accepted(committed[n], EffectiveCap(n)) <= EffectiveCap(n)
          /\ Allocation(n) \in Nat /\ Accepted(committed[n], EffectiveCap(n)) \in Nat
      BY <3>2, ShareFacts DEF Allocation
    <3>4. Allocation(n) <= EffectiveCap(n)
      BY <3>2, <3>3, SMT
    <3>. QED BY <3>4 DEF n
  <2>5. ASSUME NEW x \in Addresses
        PROVE  IF ~claimed'[x] THEN InitialWallet - wallet'[x] = CommittedBy(x) /\ armHeld'[x] = 0
               ELSE /\ InitialWallet - wallet'[x] = AllocatedTo(x)
                    /\ armHeld'[x] \in {0, (InitialWallet - wallet'[x]) * ArmPerUsdc}
                    /\ \A h \in Hops : Allocation(<<x, h>>) <= EffectiveCap(<<x, h>>)
    <3>1. CASE x = u
      BY <1>2, <2>3, <2>4, <3>1
    <3>2. CASE x # u
      <4>1. IF ~claimed[x] THEN InitialWallet - wallet[x] = CommittedBy(x) /\ armHeld[x] = 0
            ELSE /\ InitialWallet - wallet[x] = AllocatedTo(x)
                 /\ armHeld[x] \in {0, (InitialWallet - wallet[x]) * ArmPerUsdc}
                 /\ \A h \in Hops : Allocation(<<x, h>>) <= EffectiveCap(<<x, h>>)
        BY <1>1 DEF BooksInv, SettledBooks
      <4>. QED BY <1>2, <2>2, <3>2, <4>1
    <3>. QED BY <3>1, <3>2
  <2>. QED BY <1>1, <2>1, <2>5 DEF SettledBooks
<1>8. ProceedsOnlyFromAFullSale'
  BY <1>1 DEF BooksInv, ProceedsOnlyFromAFullSale, PayUsdc, RoundingBuffer
<1>9. Totals' /\ SaleOpen'
  BY <1>1 DEF BooksInv, Totals, SaleOpen, Depositors
<1>. QED BY <1>4, <1>6, <1>7, <1>8, <1>9 DEF BooksInv

\* claimRefund() pays the deposit back.
LEMMA RefundBooks ==
    ASSUME TypeOK, TypeOK', BooksInv, NEW u \in Addresses, ClaimRefund(u)
    PROVE  BooksInv'
<1>. USE DEF inviteVars, commitVars, resultVars, armVars
<1>1. /\ phase # "Active" /\ ~claimed[u] /\ ~SoldOut /\ ~SoldOut'
      /\ claimed' = [claimed EXCEPT ![u] = TRUE] /\ PayUsdc(u, CommittedBy(u))
      /\ UNCHANGED <<now, phase, armLoaded, refundMode, inviteVars, commitVars, resultVars,
                     totalArmTransferred, armVars>>
      /\ UNCHANGED SettlementInputs
  BY DEF ClaimRefund, HasUnsettledCommitment, SoldOut, SettlementInputs, BooksInv, SaleOpen
<1>2. /\ \A x \in Addresses : claimed'[x] <=> claimed[x] \/ x = u
      /\ SumOver(Owed, Addresses) = SumOver(Owed', Addresses) + CommittedBy(u)
      /\ OwedTyped /\ OwedTyped'
  <2>1. RefundOwed(u) = CommittedBy(u)
    BY <1>1 DEF RefundOwed
  <2>. QED BY <1>1, <2>1, OneSettled
<1>3. CommittedBy(u) \in Nat
  BY UserSums
<1>4. EscrowSolvent'
  <2>1. escrow' = escrow - CommittedBy(u) /\ escrow \in Nat /\ escrow' \in Nat
    BY <1>1 DEF PayUsdc, TypeOK
  <2>2. escrow >= SumOver(Owed, Addresses) /\ escrow <= SumOver(Owed, Addresses) + 0
    BY <1>1 DEF BooksInv, EscrowSolvent, Owed
  <2>3. SumOver(Owed, Addresses) \in Nat /\ SumOver(Owed', Addresses) \in Nat /\ 0 \in Nat
    BY <1>2 DEF OwedTyped
  <2>4. escrow' >= SumOver(Owed', Addresses) /\ escrow' <= SumOver(Owed', Addresses) + 0
    BY <1>2, <1>3, <2>1, <2>2, <2>3, PaidFromEscrow
  <2>. QED BY <1>1, <2>4 DEF EscrowSolvent, Owed
<1>5. ArmReserved'
  BY <1>1 DEF BooksInv, ArmReserved, ArmStillOwed, SoldOut
<1>6. SettledBooks'
  <2>1. \A x : CommittedBy(x)' = CommittedBy(x)
    BY <1>1, AllocationsKept
  <2>2. \A x \in Addresses \ {u} : wallet'[x] = wallet[x]
    BY <1>1 DEF PayUsdc, TypeOK
  <2>3. InitialWallet - wallet'[u] = 0 /\ armHeld[u] = 0
    <3>1. InitialWallet - wallet[u] = CommittedBy(u) /\ armHeld[u] = 0
      BY <1>1 DEF BooksInv, SettledBooks
    <3>2. wallet'[u] = wallet[u] + CommittedBy(u) /\ wallet[u] \in Nat /\ InitialWallet \in Nat
      BY <1>1, InputAssumption DEF PayUsdc, TypeOK
    <3>. QED BY <1>3, <3>1, <3>2, SMT
  <2>4. \A x \in Addresses : IF ~claimed[x] THEN InitialWallet - wallet[x] = CommittedBy(x) /\ armHeld[x] = 0
                             ELSE InitialWallet - wallet[x] = 0 /\ armHeld[x] = 0
    BY <1>1 DEF BooksInv, SettledBooks
  <2>5. \A x \in Addresses : IF ~claimed'[x] THEN InitialWallet - wallet'[x] = CommittedBy(x) /\ armHeld[x] = 0
                             ELSE InitialWallet - wallet'[x] = 0 /\ armHeld[x] = 0
    <3>. SUFFICES ASSUME NEW x \in Addresses
         PROVE IF ~claimed'[x] THEN InitialWallet - wallet'[x] = CommittedBy(x) /\ armHeld[x] = 0
               ELSE InitialWallet - wallet'[x] = 0 /\ armHeld[x] = 0
      OBVIOUS
    <3>1. CASE x = u
      BY <1>2, <2>3, <3>1
    <3>2. CASE x # u
      BY <1>2, <2>2, <2>4, <3>2
    <3>. QED BY <3>1, <3>2
  <2>. QED BY <1>1, <2>1, <2>5 DEF SettledBooks
<1>7. ProceedsOnlyFromAFullSale'
  BY <1>1 DEF BooksInv, ProceedsOnlyFromAFullSale, PayUsdc
<1>8. Totals' /\ SaleOpen'
  BY <1>1 DEF BooksInv, Totals, SaleOpen, Depositors
<1>. QED BY <1>4, <1>5, <1>6, <1>7, <1>8 DEF BooksInv

\* A sweep leaves what is still owed.
LEMMA SweepBooks ==
    ASSUME TypeOK, TypeOK', BooksInv, WithdrawUnallocatedArm
    PROVE  BooksInv'
<1>. USE DEF inviteVars, commitVars, resultVars, settleVars, usdcVars
<1>1. /\ phase # "Active" /\ armBalance' = ArmStillOwed
      /\ UNCHANGED <<now, phase, armLoaded, refundMode, inviteVars, commitVars, resultVars,
                     settleVars, usdcVars, armHeld>>
      /\ UNCHANGED <<SettlementInputs, participantNodes>>
      /\ SoldOut' = SoldOut
  BY DEF WithdrawUnallocatedArm, SettlementInputs, SoldOut
<1>2. ArmStillOwed' = ArmStillOwed /\ ArmStillOwed \in Int
  BY <1>1, SMT DEF ArmStillOwed, TypeOK
<1>3. Owed' = Owed /\ ArmOwed' = ArmOwed
  BY <1>1, AllocationsKept DEF Owed, ArmOwed, RefundOwed
<1>4. ArmReserved'
  <2>1. armBalance' >= ArmStillOwed'
    BY <1>1, <1>2, SMT
  <2>. QED BY <1>1, <1>2, <1>3, <2>1 DEF BooksInv, ArmReserved, ArmOwed
<1>5. EscrowSolvent'
  BY <1>1, <1>3 DEF BooksInv, EscrowSolvent, Owed, RoundingBuffer
<1>6. SettledBooks'
  BY <1>1, AllocationsKept DEF BooksInv, SettledBooks
<1>7. ProceedsOnlyFromAFullSale'
  BY <1>1 DEF BooksInv, ProceedsOnlyFromAFullSale, RoundingBuffer
<1>8. Totals' /\ SaleOpen'
  BY <1>1 DEF BooksInv, Totals, SaleOpen, Depositors
<1>. QED BY <1>4, <1>5, <1>6, <1>7, <1>8 DEF BooksInv

\* The books balance at the start, after every step, and so always.
LEMMA BooksInit == Init => BooksInv
<1>. SUFFICES ASSUME Init PROVE BooksInv
  OBVIOUS
<1>1. /\ ~SoldOut /\ \A a \in Addresses : ~claimed[a]
      /\ \A n \in Nodes : committed[n] = 0
      /\ \A a \in Addresses : wallet[a] = InitialWallet /\ armHeld[a] = 0
      /\ totalCommitted = 0 /\ escrow = 0 /\ armBalance = 0
  BY DEF Init, SoldOut
<1>2. \A a \in Addresses : CommittedBy(a) = 0 /\ Owed[a] = 0
  <2>1. \A a \in Addresses : <<a, 0>> \in Nodes /\ <<a, 1>> \in Nodes /\ <<a, 2>> \in Nodes
    BY SMT DEF Nodes, Hops
  <2>2. \A a \in Addresses : committed[<<a, 0>>] = 0 /\ committed[<<a, 1>>] = 0 /\ committed[<<a, 2>>] = 0
    BY <1>1, <2>1
  <2>3. \A a \in Addresses : CommittedBy(a) = 0
    <3>1. 0 + 0 + 0 = 0
      BY SMT
    <3>. QED BY <2>2, <3>1, Zenon DEF CommittedBy
  <2>. QED BY <1>1, <2>3 DEF Owed, RefundOwed
<1>3. SumOver(Owed, Addresses) = 0
  <2>1. \A a \in Addresses : Owed[a] = 0
    BY <1>2
  <2>. QED BY <2>1, SumOfZeros
<1>4. EscrowSolvent
  BY <1>1, <1>3, SMT DEF EscrowSolvent, Owed
<1>5. ArmReserved
  BY <1>1, SMT DEF ArmReserved, ArmStillOwed, SoldOut
<1>6. SettledBooks
  BY <1>1, <1>2, InputAssumption, SMT DEF SettledBooks
<1>7. ProceedsOnlyFromAFullSale
  BY <1>1 DEF Init, ProceedsOnlyFromAFullSale
<1>8. Totals
  <2>1. \A h \in Hops : SumOver(committed, HopNodes(h)) = 0 /\ Depositors(h) = {}
    <3>1. \A h \in Hops : \A n \in HopNodes(h) : committed[n] = 0
      BY <1>1 DEF HopNodes
    <3>. QED BY <3>1, SumOfZeros, SMT DEF Depositors
  <2>2. SumOver(committed, Nodes) = 0
    BY <1>1, SumOfZeros
  <2>. QED BY <1>1, <2>1, <2>2, FS_EmptySet DEF Totals, Init, Zeros
<1>9. SaleOpen
  BY <1>1 DEF Init, SaleOpen
<1>. QED BY <1>4, <1>5, <1>6, <1>7, <1>8, <1>9 DEF BooksInv

\* Every operation keeps the books balanced.
LEMMA BooksStep ==
    ASSUME TypeOK, TypeOK', StructureInv, BooksInv, [Next]_vars
    PROVE  BooksInv'
<1>. USE DEF StructureInv
<1>1. CASE Whitelisting
  <2>1. Quiet
    BY <1>1 DEF Quiet, Whitelisting, AddSeeds, Invite, LaunchTeamInvite, RevokeInviteNonce,
                InLaunchTeamWindow
  <2>. QED BY <2>1, QuietBooks
<1>2. CASE Committing
  <2>. USE DEF inviteVars
  <2>1. ASSUME NEW s \in Addresses, NEW h \in Hops, NEW amount \in Amounts, Commit(s, h, amount)
        PROVE  BooksInv'
    <3>1. amount \in Nat \ {0}
      BY <2>1, InputAssumption, SaleAssumption, SMT DEF Commit
    <3>. QED BY <2>1, <3>1, DepositBooks DEF Commit, InCommitWindow
  <2>2. ASSUME NEW s \in Addresses, NEW t \in Tickets, NEW amount \in Amounts,
               CommitWithInvite(s, t, amount)
        PROVE  BooksInv'
    <3>1. amount \in Nat \ {0}
      BY <2>2, InputAssumption, SaleAssumption, SMT DEF CommitWithInvite
    <3>2. t.fromHop + 1 \in Hops
      BY <2>2, InputAssumption, SMT DEF CommitWithInvite, MayInvite, Hops
    <3>. QED BY <2>2, <3>1, <3>2, DepositBooks DEF CommitWithInvite, InCommitWindow
  <2>. QED BY <1>2, <2>1, <2>2 DEF Committing
<1>3. CASE \/ \E amount \in ArmGrants : ReceiveArm(amount)
           \/ LoadArm \/ Cancel \/ Tick
  BY <1>3, SupplyBooks
<1>4. CASE Finalize
  BY <1>4, FinalizeBooks
<1>5. CASE Settling
  BY <1>5, ClaimBooks, RefundBooks, SweepBooks DEF Settling
<1>6. CASE UNCHANGED vars
  BY <1>6, QuietBooks DEF Quiet, vars, inviteVars
<1>. QED BY <1>1, <1>2, <1>3, <1>4, <1>5, <1>6 DEF Next

\* The inductive invariant of the sale.
LEMMA BooksAlwaysHold == Spec => [](TypeOK /\ StructureInv /\ BooksInv)
<1>1. Init => TypeOK /\ StructureInv /\ BooksInv
  BY InitTyped, StructureInit, BooksInit
<1>2. TypeOK /\ StructureInv /\ BooksInv /\ [Next]_vars => TypeOK' /\ StructureInv' /\ BooksInv'
  <2>1. TypeOK /\ [Next]_vars => TypeOK'
    BY NextTyped
  <2>2. TypeOK /\ TypeOK' /\ StructureInv /\ [Next]_vars => StructureInv'
    BY StructureStep
  <2>3. TypeOK /\ TypeOK' /\ StructureInv /\ BooksInv /\ [Next]_vars => BooksInv'
    BY BooksStep
  <2>. QED BY <2>1, <2>2, <2>3
<1>. QED BY <1>1, <1>2, PTL DEF Spec

(***************************************************************************)
(* The books are sound: for any caps, sizes and deposits and in whatever   *)
(* order depositors settle, the escrow covers every refund (finalize()'s   *)
(* buffer of one unit per node makes up for claim()'s floor divisions),    *)
(* and the ARM held covers every allocation that can still be claimed.     *)
(***************************************************************************)
THEOREM SolventAlways == Spec => []Solvent
<1>1. TypeOK /\ StructureInv /\ BooksInv => Solvent
  BY TotalsMean DEF StructureInv, BooksInv, Solvent
<1>. QED BY <1>1, BooksAlwaysHold, PTL

\* The claim period is counted from finalize().
DeadlineInv == SoldOut => claimDeadline = finalizedAt + ClaimDeadlineDuration

\* finalize() sets the deadline with the time, and nothing sets either again.
LEMMA DeadlineStep ==
    ASSUME TypeOK, DeadlineInv, [Next]_vars
    PROVE  DeadlineInv'
<1>. USE DEF DeadlineInv, SoldOut
<1>1. CASE Finalize
  BY <1>1 DEF Finalize, RecordSale, EnterRefundMode
<1>2. CASE Cancel
  BY <1>2 DEF Cancel
<1>3. CASE Whitelisting
  BY <1>3 DEF Whitelisting, AddSeeds, Invite, LaunchTeamInvite, RevokeInviteNonce, resultVars
<1>4. CASE Committing
  BY <1>4 DEF Committing, Commit, CommitWithInvite, resultVars
<1>5. CASE Settling
  BY <1>5 DEF Settling, Claim, ClaimRefund, WithdrawUnallocatedArm, resultVars
<1>6. CASE \E amount \in ArmGrants : ReceiveArm(amount)
  BY <1>6 DEF ReceiveArm, resultVars
<1>7. CASE LoadArm \/ Tick \/ UNCHANGED vars
  BY <1>7 DEF LoadArm, Tick, vars, resultVars
<1>. QED BY <1>1, <1>2, <1>3, <1>4, <1>5, <1>6, <1>7 DEF Next

\* claim() pays for what was sold to the account, in time, and nobody else.
LEMMA ClaimSettles ==
    ASSUME TypeOK, BooksInv, BooksInv', DeadlineInv, NEW u \in Addresses, NEW d \in BOOLEAN,
           Claim(u, d)
    PROVE  SettlesOnce
<1>1. /\ SoldOut /\ ~claimed[u] /\ SoldOut' /\ claimed' = [claimed EXCEPT ![u] = TRUE]
      /\ armHeld' = [armHeld EXCEPT ![u] = @ + ArmDue(u)]
      /\ wallet' = [wallet EXCEPT ![u] = @ + RefundTo(u)]
      /\ UNCHANGED <<now, SettlementInputs>>
  BY DEF Claim, HasUnsettledCommitment, SoldOut, PayArm, PayUsdc, SettlementInputs,
         inviteVars, commitVars, resultVars
<1>2. claimed \in [Addresses -> BOOLEAN] /\ armHeld \in [Addresses -> Nat]
      /\ wallet \in [Addresses -> Nat]
  BY DEF TypeOK
<1>3. ASSUME NEW a \in Addresses, a # u
      PROVE  claimed'[a] = claimed[a] /\ wallet'[a] = wallet[a] /\ armHeld'[a] = armHeld[a]
  BY <1>1, <1>2, <1>3
<1>4. armHeld'[u] = ArmOwedNow(InitialWallet - wallet'[u])
  <2>1. claimed'[u] /\ armHeld'[u] = armHeld[u] + ArmDue(u)
    BY <1>1, <1>2
  <2>2. armHeld[u] = 0
    BY <1>1 DEF BooksInv, SettledBooks
  <2>3. InitialWallet - wallet'[u] = AllocatedTo(u)'
    BY <1>1, <2>1 DEF BooksInv, SettledBooks
  <2>4. AllocatedTo(u)' = AllocatedTo(u)
    BY <1>1, AllocationsKept
  <2>5. ArmDue(u) = ArmOwedNow(AllocatedTo(u))
    BY <1>1 DEF DeadlineInv, ArmDue, ArmOwedNow
  <2>6. ArmDue(u) \in Nat
    <3>1. AllocatedTo(u) \in Nat /\ ArmPerUsdc \in Nat
      BY UserSums, SaleAssumption
    <3>. QED BY <3>1, SMT DEF ArmDue
  <2>7. armHeld'[u] = ArmDue(u)
    BY <2>1, <2>2, <2>6, SMT
  <2>. QED BY <2>3, <2>4, <2>5, <2>7
<1>. QED BY <1>1, <1>3, <1>4 DEF SettlesOnce

\* claimRefund() returns the deposit of a sale that sold nothing.
LEMMA RefundSettles ==
    ASSUME TypeOK, BooksInv, NEW u \in Addresses, ClaimRefund(u)
    PROVE  SettlesOnce
<1>1. /\ ~SoldOut /\ ~claimed[u] /\ claimed' = [claimed EXCEPT ![u] = TRUE]
      /\ armHeld' = armHeld
      /\ wallet' = [wallet EXCEPT ![u] = @ + CommittedBy(u)]
  BY DEF ClaimRefund, HasUnsettledCommitment, SoldOut, PayUsdc, armVars
<1>2. claimed \in [Addresses -> BOOLEAN] /\ wallet \in [Addresses -> Nat]
  BY DEF TypeOK
<1>3. ASSUME NEW a \in Addresses, a # u
      PROVE  claimed'[a] = claimed[a] /\ wallet'[a] = wallet[a] /\ armHeld'[a] = armHeld[a]
  BY <1>1, <1>2, <1>3
<1>4. armHeld'[u] = 0
  BY <1>1 DEF BooksInv, SettledBooks
<1>. QED BY <1>1, <1>3, <1>4 DEF SettlesOnce, ArmOwedNow

\* Deposits are taken while nobody is settled; other steps touch no account.
LEMMA StepSettlesOnce ==
    ASSUME TypeOK, BooksInv, BooksInv', DeadlineInv, [Next]_vars
    PROVE  SettlesOnce
<1>1. ASSUME UNCHANGED <<claimed, wallet, armHeld>> PROVE SettlesOnce
  BY <1>1 DEF SettlesOnce
<1>2. ASSUME phase = "Active", UNCHANGED claimed PROVE SettlesOnce
  BY <1>2 DEF SettlesOnce, BooksInv, SaleOpen
<1>. USE DEF settleVars, usdcVars, armVars
<1>3. CASE Whitelisting
  BY <1>1, <1>3 DEF Whitelisting, AddSeeds, Invite, LaunchTeamInvite, RevokeInviteNonce
<1>4. CASE Committing
  BY <1>2, <1>4 DEF Committing, Commit, CommitWithInvite, InCommitWindow
<1>5. CASE Finalize
  BY <1>2, <1>5 DEF Finalize
<1>6. CASE \E amount \in ArmGrants : ReceiveArm(amount)
  BY <1>1, <1>6 DEF ReceiveArm
<1>7. CASE LoadArm \/ Cancel \/ Tick \/ UNCHANGED vars
  BY <1>1, <1>7 DEF LoadArm, Cancel, Tick, vars
<1>8. CASE Settling
  <2>1. CASE WithdrawUnallocatedArm
    BY <1>1, <2>1 DEF WithdrawUnallocatedArm
  <2>. QED BY <1>8, <2>1, ClaimSettles, RefundSettles DEF Settling
<1>. QED BY <1>3, <1>4, <1>5, <1>6, <1>7, <1>8 DEF Next

(***************************************************************************)
(* Every account that claim() or claimRefund() settled paid exactly its    *)
(* allocation, within the caps of its nodes, or got its deposit back; in   *)
(* the step that settled it, it received the ARM for what it paid if the   *)
(* claim period since finalize() was running, and it is settled once.      *)
(***************************************************************************)
THEOREM SettlementIsExact == Spec => SettledExactly
<1>1. Init => DeadlineInv
  BY DEF Init, DeadlineInv, SoldOut
<1>2. TypeOK /\ DeadlineInv /\ [Next]_vars => DeadlineInv'
  BY DeadlineStep
<1>3. TypeOK /\ BooksInv /\ BooksInv' /\ DeadlineInv /\ [Next]_vars
        => [SettledBooks' /\ SettlesOnce]_vars
  BY StepSettlesOnce DEF BooksInv
<1>4. Spec => [](TypeOK /\ BooksInv)
  BY BooksAlwaysHold, PTL
<1>5. Spec => [][SettledBooks' /\ SettlesOnce]_vars
  BY <1>1, <1>2, <1>3, <1>4, PTL DEF Spec
<1>. QED BY <1>5 DEF SettledExactly

(***************************************************************************)
(* finalize() pays proceeds only for a sale that met the minimum raise, of *)
(* at most its size and of at most what was demanded and deposited.        *)
(***************************************************************************)
THEOREM ProceedsAreEarned == Spec => []ProceedsOnlyFromAFullSale
<1>1. BooksInv => ProceedsOnlyFromAFullSale
  BY DEF BooksInv
<1>. QED BY <1>1, BooksAlwaysHold, PTL

-----------------------------------------------------------------------------
(* The indexer of the sale: work lists *)

\* There are finitely many ranges, each from a block to one not before it.
LEMMA RangesAre ==
    /\ IsFiniteSet(Ranges)
    /\ \A r \in Ranges : /\ r = <<r[1], r[2]>> /\ r[1] \in Nat /\ r[2] \in Nat
                         /\ 1 <= r[1] /\ r[1] <= r[2] /\ r[2] <= MaxHead
<1>1. MaxHead \in Nat
  BY IndexerAssumption
<1>2. IsFiniteSet(Blocks)
  BY <1>1, FS_Interval, 1 \in Int, MaxHead \in Int DEF Blocks
<1>3. IsFiniteSet(Blocks \X Blocks)
  BY <1>2, FS_Product
<1>4. Ranges \in SUBSET (Blocks \X Blocks)
  BY DEF Ranges
<1>5. IsFiniteSet(Ranges)
  BY <1>3, <1>4, FS_Subset
<1>6. ASSUME NEW r \in Ranges
      PROVE  /\ r = <<r[1], r[2]>> /\ r[1] \in Nat /\ r[2] \in Nat
             /\ 1 <= r[1] /\ r[1] <= r[2] /\ r[2] <= MaxHead
  <2>1. r \in Blocks \X Blocks /\ r[1] <= r[2]
    BY DEF Ranges
  <2>2. r = <<r[1], r[2]>> /\ r[1] \in Blocks /\ r[2] \in Blocks
    BY <2>1
  <2>. QED  BY <1>1, <2>1, <2>2, SMT DEF Blocks
<1>. QED  BY <1>5, <1>6

\* Some range of a set comes after all the others.
LEMMA LastRange ==
    ASSUME NEW S \in SUBSET Ranges, S # {}
    PROVE  \E m \in S : \A r \in S : r # m => Before(r, m)
<1>. DEFINE Starts == {MaxHead - r[1] : r \in S}
<1>0. MaxHead \in Nat
  BY IndexerAssumption
<1>1. \A r \in S : r = <<r[1], r[2]>> /\ r[1] \in Nat /\ r[2] \in Nat
                   /\ r[1] <= MaxHead /\ r[2] <= MaxHead
  <2>. SUFFICES ASSUME NEW r \in S
                PROVE  r = <<r[1], r[2]>> /\ r[1] \in Nat /\ r[2] \in Nat
                       /\ r[1] <= MaxHead /\ r[2] <= MaxHead
    OBVIOUS
  <2>1. /\ r = <<r[1], r[2]>> /\ r[1] \in Nat /\ r[2] \in Nat
        /\ r[1] <= r[2] /\ r[2] <= MaxHead
    BY RangesAre
  <2>. QED  BY <1>0, <2>1, SMT
<1>2. Starts \in SUBSET Nat /\ Starts # {}
  BY <1>0, <1>1, SMT
<1>3. PICK s \in Starts : \A n \in Starts : s <= n
  BY <1>2, LeastElement
<1>4. PICK a \in S : s = MaxHead - a[1]
  BY <1>3
<1>5. ASSUME NEW r \in S PROVE r[1] <= a[1]
  <2>1. s <= MaxHead - r[1] /\ r[1] \in Nat /\ a[1] \in Nat
    BY <1>1, <1>3
  <2>. QED  BY <1>0, <1>4, <2>1, SMT
<1>. DEFINE Tops == {r \in S : r[1] = a[1]}
            Ends == {MaxHead - r[2] : r \in Tops}
<1>6. Ends \in SUBSET Nat /\ Ends # {}
  BY <1>0, <1>1, SMT
<1>7. PICK e \in Ends : \A n \in Ends : e <= n
  BY <1>6, LeastElement
<1>8. PICK m \in Tops : e = MaxHead - m[2]
  BY <1>7
<1>9. ASSUME NEW r \in S, r # m PROVE Before(r, m)
  <2>1. m \in S /\ m[1] = a[1] /\ r[1] <= a[1]
    BY <1>5, <1>8
  <2>2. /\ r = <<r[1], r[2]>> /\ m = <<m[1], m[2]>>
        /\ r[1] \in Nat /\ r[2] \in Nat /\ m[1] \in Nat /\ m[2] \in Nat
    BY <1>1, <2>1
  <2>3. CASE r[1] = a[1]
    <3>1. e <= MaxHead - r[2]
      BY <1>7, <2>3
    <3>2. r[2] # m[2]
      BY <1>9, <2>1, <2>2, <2>3
    <3>. QED  BY <1>0, <1>8, <2>1, <2>2, <2>3, <3>1, <3>2, SMT DEF Before
  <2>4. CASE r[1] # a[1]
    BY <2>1, <2>2, <2>4, SMT DEF Before
  <2>. QED  BY <2>3, <2>4
<1>. QED  BY <1>8, <1>9

Ascending(q) == \A i, j \in DOMAIN q : i < j => Before(q[i], q[j])

\* What holds of no set of the least size it fails for holds of all: every set of ranges can
\* be put in order.
LEMMA Sortable ==
    ASSUME NEW S \in SUBSET Ranges
    PROVE  \E q \in [1..Cardinality(S) -> S] : Ascending(q)
<1>. DEFINE Ordered(R) == \E q \in [1..Cardinality(R) -> R] : Ascending(q)
            Bad == {n \in Nat : \E R \in SUBSET Ranges : Cardinality(R) = n /\ ~Ordered(R)}
<1>0. \A R \in SUBSET Ranges : IsFiniteSet(R) /\ Cardinality(R) \in Nat
  BY RangesAre, FS_Subset, FS_CardinalityType
<1>. SUFFICES ASSUME ~Ordered(S) PROVE FALSE
  OBVIOUS
<1>1. Bad \in SUBSET Nat /\ Bad # {}
  BY <1>0
<1>2. PICK n \in Bad : \A k \in Bad : n <= k
  BY <1>1, LeastElement
<1>3. PICK R \in SUBSET Ranges : Cardinality(R) = n /\ ~Ordered(R)
  BY <1>2
<1>4. R # {}
  <2>. SUFFICES ASSUME R = {} PROVE FALSE
    OBVIOUS
  <2>1. Cardinality(R) = 0
    BY FS_EmptySet
  <2>. DEFINE q == [i \in 1..0 |-> i]
  <2>2. q \in [1..0 -> R] /\ Ascending(q)
    BY SMT DEF Ascending
  <2>. QED  BY <1>3, <2>1, <2>2
<1>5. PICK m \in R : \A r \in R : r # m => Before(r, m)
  BY <1>4, LastRange
<1>. DEFINE Q == R \ {m}
<1>6. Cardinality(Q) = n - 1 /\ n \in Nat /\ Q \in SUBSET Ranges /\ Cardinality(Q) \in Nat
  BY <1>0, <1>3, FS_RemoveElement
<1>7. Ordered(Q)
  <2>. SUFFICES ASSUME ~Ordered(Q) PROVE FALSE
    OBVIOUS
  <2>. DEFINE k == Cardinality(Q)
  <2>1. k \in Bad
    BY <1>6
  <2>2. n <= k
    BY <1>2, <2>1
  <2>. QED  BY <1>6, <2>2, SMT
<1>8. PICK q \in [1..Cardinality(Q) -> Q] : Ascending(q)
  BY <1>7
<1>. DEFINE f == [i \in 1..n |-> IF i < n THEN q[i] ELSE m]
<1>9. \A i \in 1..n : i < n => i \in 1..Cardinality(Q) /\ q[i] \in R /\ q[i] # m
  <2>. SUFFICES ASSUME NEW i \in 1..n, i < n
                PROVE  i \in 1..Cardinality(Q) /\ q[i] \in R /\ q[i] # m
    OBVIOUS
  <2>1. i \in 1..Cardinality(Q)
    BY <1>6, SMT
  <2>2. q[i] \in Q
    BY <1>8, <2>1
  <2>. QED  BY <2>1, <2>2
<1>10. f \in [1..n -> R]
  BY <1>9
<1>11. Ascending(f)
  <2>. SUFFICES ASSUME NEW i \in 1..n, NEW j \in 1..n, i < j PROVE Before(f[i], f[j])
    BY DEF Ascending
  <2>1. i < n /\ f[i] = q[i] /\ i \in 1..Cardinality(Q) /\ q[i] \in R /\ q[i] # m
    <3>1. i < n
      BY <1>6, SMT
    <3>. QED  BY <1>9, <3>1
  <2>2. CASE j < n
    <3>1. f[j] = q[j] /\ j \in 1..Cardinality(Q)
      BY <1>9, <2>2
    <3>2. Before(q[i], q[j])
      BY <1>8, <2>1, <3>1 DEF Ascending
    <3>. QED  BY <2>1, <3>1, <3>2
  <2>3. CASE ~(j < n)
    <3>1. f[j] = m
      BY <2>3
    <3>. QED  BY <1>5, <2>1, <3>1
  <2>. QED  BY <2>2, <2>3
<1>. HIDE DEF f
<1>12. Ordered(R)
  BY <1>3, <1>10, <1>11
<1>. QED  BY <1>3, <1>12

\* A sorted list has the ranges of its set, and is empty only if the set is.
LEMMA SortedType ==
    ASSUME NEW K \in SUBSET Ranges, NEW S \in SUBSET K
    PROVE  Sorted(S) \in Seq(K) /\ (S # {} => Sorted(S) # <<>>)
<1>. DEFINE n == Cardinality(S)
            good(q) == \A i, j \in DOMAIN q : i < j => Before(q[i], q[j])
<1>1. n \in Nat /\ (S # {} => n # 0) /\ S \in SUBSET Ranges
  <2>1. IsFiniteSet(S)
    BY RangesAre, FS_Subset
  <2>. QED  BY <2>1, FS_CardinalityType, FS_EmptySet
<1>2. \E q \in [1..n -> S] : good(q)
  BY <1>1, Sortable DEF Ascending
<1>3. Sorted(S) = CHOOSE q \in [1..n -> S] : good(q)
  BY DEF Sorted
<1>. HIDE DEF good, n
<1>4. Sorted(S) \in [1..n -> S]
  BY <1>2, <1>3
<1>5. Sorted(S) \in [1..n -> K]
  BY <1>4
<1>6. Sorted(S) \in Seq(K)
  BY <1>1, <1>5, SeqDef
<1>7. ASSUME S # {} PROVE Sorted(S) # <<>>
  <2>1. 1 \in DOMAIN Sorted(S)
    BY <1>1, <1>4, <1>7, SMT
  <2>. QED  BY <2>1, <1>6, EmptySeq, LenProperties
<1>. QED  BY <1>6, <1>7

-----------------------------------------------------------------------------
(* Blocks that are confirmed or that an operator asked for early *)

Known == (1..Confirmed) \cup early

\* The rows stored, less those of blocks asked for early.
Kept == rawLogs \cup early

\* The ranges that may be worked on, and what a cursor and a verified range promise, when the
\* blocks of K may be asked for and the rows of some blocks are accounted for.
KnownIn(K) == {r \in Ranges : Span(r) \subseteq K}

SoundAt(c, K, logs) ==
    c \in Nat /\ c <= MaxHead /\ 1..c \subseteq K /\ Logged \cap 1..c \subseteq logs

Stored(r, logs) == Logged \cap Span(r) \subseteq logs

\* The confirmed block is not above the head.
LEMMA ConfirmedType ==
    ASSUME head \in 0..MaxHead
    PROVE  Confirmed \in Nat /\ Confirmed <= MaxHead
  BY IndexerAssumption, SMT DEF Confirmed

\* A higher head confirms as much and more, and the operator only asks for more.
LEMMA KnownGrows ==
    ASSUME head \in 0..MaxHead, head' \in 0..MaxHead, head <= head', early \subseteq early'
    PROVE  Known \subseteq Known'
<1>. DEFINE d == ConfirmationDepth
<1>0. d \in Nat /\ MaxHead \in Nat
  BY IndexerAssumption
<1>1. Confirmed <= Confirmed' /\ Confirmed \in Nat /\ Confirmed' \in Nat
  <2>1. /\ head > d => Confirmed = head - d
        /\ ~(head > d) => Confirmed = 0
        /\ head' > d => Confirmed' = head' - d
        /\ ~(head' > d) => Confirmed' = 0
    BY DEF Confirmed
  <2>2. head \in Nat /\ head' \in Nat /\ head <= head'
    BY <1>0, SMT
  <2>. QED  BY ONLY <1>0, <2>1, <2>2, SMT
<1>2. 1..Confirmed \subseteq 1..Confirmed'
  BY <1>1, SMT
<1>. QED  BY <1>2 DEF Known

\* A sound cursor stays sound as the chain and the rows grow.
LEMMA SoundGrows ==
    ASSUME NEW K, NEW L, K \subseteq L, NEW logs, NEW more, logs \subseteq more,
           NEW c, SoundAt(c, K, logs)
    PROVE  SoundAt(c, L, more)
  BY DEF SoundAt

\* The chunks of a plan are ranges up to its end.
LEMMA PlannedType ==
    ASSUME NEW from \in Nat \ {0}, NEW to \in Nat, to <= MaxHead
    PROVE  Planned(from, to) \in Seq({r \in Ranges : r[2] <= to})
<1>. DEFINE M == MaxBlockRange
            count == IF from > to THEN 0 ELSE (to - from) \div M + 1
            start(i) == from + (i - 1) * M
            last(i) == IF start(i) + M - 1 < to THEN start(i) + M - 1 ELSE to
            plan == [i \in 1..count |-> <<start(i), last(i)>>]
<1>1. M \in Nat \ {0} /\ MaxHead \in Nat
  BY IndexerAssumption
<1>2. Planned(from, to) = plan
  BY DEF Planned
<1>. HIDE DEF M
<1>3. count \in Nat
  <2>1. CASE from > to
    BY <2>1
  <2>2. CASE ~(from > to)
    <3>1. to - from \in Nat
      BY <2>2, SMT
    <3>2. (to - from) \div M \in Nat
      BY <1>1, <3>1, DivBounds
    <3>. QED  BY <2>2, <3>2, SMT
  <2>. QED  BY <2>1, <2>2
<1>4. ASSUME NEW i \in 1..count PROVE <<start(i), last(i)>> \in {r \in Ranges : r[2] <= to}
  <2>1. ~(from > to) /\ i \in Nat /\ 1 <= i
    BY <1>3, SMT
  <2>2. to - from \in Nat /\ count = (to - from) \div M + 1
    BY <2>1, SMT
  <2>. DEFINE k == (to - from) \div M
              j == i - 1
  <2>3. k \in Nat /\ k * M <= to - from
    BY <1>1, <2>2, DivBounds
  <2>4. j \in Nat /\ j <= k
    BY <2>1, <2>2, <2>3, SMT
  <2>. HIDE DEF k, j
  <2>5. j * M \in Nat /\ k * M \in Nat /\ j * M <= k * M
    BY <1>1, <2>3, <2>4, SMT
  <2>6. start(i) = from + j * M
    BY DEF j
  <2>. HIDE DEF start
  <2>7. start(i) \in Nat /\ 1 <= start(i) /\ start(i) <= to
    BY <2>2, <2>3, <2>5, <2>6, SMT
  <2>8. /\ last(i) \in Nat /\ start(i) <= last(i) /\ last(i) <= to
        /\ last(i) - start(i) < M
    BY <1>1, <2>7, SMT
  <2>. HIDE DEF last
  <2>9. start(i) \in Blocks /\ last(i) \in Blocks /\ last(i) <= to
    BY <1>1, <2>7, <2>8, SMT DEF Blocks
  <2>10. <<start(i), last(i)>> \in Ranges
    BY <2>8, <2>9 DEF Ranges, M
  <2>. QED  BY <2>9, <2>10
<1>. HIDE DEF count, start, last
<1>5. plan \in [1..count -> {r \in Ranges : r[2] <= to}]
  BY <1>4
<1>. QED  BY <1>2, <1>3, <1>5, SeqDef

-----------------------------------------------------------------------------
(* The inductive invariant *)

Modes == {"idle", "backfill", "reconcile", "command"}
Statuses == {"none", "staged", "verified", "failed", "suspicious"}

\* The places where a process has a range in hand, and the others.
Busy == {"stage", "append", "patchRange", "patchIngested", "audit", "readCursor", "patchCursor",
         "readBack", "schedule"}
Places == Busy \cup {"idle", "plan", "patchHead"}

Records == [status : Statuses, attempts : Nat, waiting : BOOLEAN]

ProcessesAt(K) ==
    [mode : Modes, at : Places, work : Seq(KnownIn(K)), cursor : Nat, logs : SUBSET Logged,
     status : Statuses, attempts : Nat]

\* A process works on such ranges, holds a cursor that was sound when it read it and rows
\* that it has stored, and calls only a stored range verified.
ProcessAt(q, K, logs) ==
    /\ q \in ProcessesAt(K)
    /\ SoundAt(q.cursor, K, logs)
    /\ q.at \in Busy => q.work # <<>>
    /\ q.at # "append" => q.logs \subseteq logs
    /\ q.status = "verified" => q.at \in Busy /\ Stored(Head(q.work), logs)

\* Only such ranges have a record, only stored ones a verified one.
RecordsAt(f, K, logs) ==
    /\ f \in [Ranges -> Records]
    /\ \A r \in Ranges : /\ f[r].status # "none" => r \in KnownIn(K)
                         /\ f[r].status = "verified" => Stored(r, logs)

IndexInv ==
    /\ head \in 0..MaxHead /\ rawLogs \subseteq Logged
    /\ SoundAt(verifiedCursor, Known, Kept)
    /\ RecordsAt(ranges, Known, Kept)
    /\ process \in [Processes -> ProcessesAt(Known)]
    /\ \A p \in Processes : ProcessAt(process[p], Known, Kept)

\* A process keeps its promises as the chain and the rows grow.
LEMMA ProcessGrows ==
    ASSUME NEW K, NEW L, K \subseteq L,
           NEW logs, NEW more, logs \subseteq more, NEW q, ProcessAt(q, K, logs)
    PROVE  ProcessAt(q, L, more)
<1>1. KnownIn(K) \subseteq KnownIn(L)
  BY DEF KnownIn
<1>2. q \in ProcessesAt(K)
  BY DEF ProcessAt
<1>3. q.work \in Seq(KnownIn(K))
  BY <1>2 DEF ProcessesAt
<1>4. q.work \in Seq(KnownIn(L))
  BY <1>1, <1>3, SeqMonotonic
<1>5. q \in ProcessesAt(L)
  BY <1>2, <1>4 DEF ProcessesAt
<1>6. SoundAt(q.cursor, L, more)
  BY SoundGrows DEF ProcessAt
<1>. QED  BY <1>5, <1>6 DEF ProcessAt, Stored

\* So do the records.
LEMMA RecordsGrow ==
    ASSUME NEW K, NEW L, K \subseteq L,
           NEW logs, NEW more, logs \subseteq more, NEW f, RecordsAt(f, K, logs)
    PROVE  RecordsAt(f, L, more)
<1>1. KnownIn(K) \subseteq KnownIn(L)
  BY DEF KnownIn
<1>. QED  BY <1>1 DEF RecordsAt, Stored

\* A step of one process that only adds to the chain and the rows keeps the other's promises.
LEMMA Becoming ==
    ASSUME IndexInv, NEW p \in Processes, NEW q, Become(p, q),
           head' \in 0..MaxHead, Known \subseteq Known', Kept \subseteq Kept',
           rawLogs' \subseteq Logged,
           SoundAt(verifiedCursor', Known', Kept'), RecordsAt(ranges', Known', Kept'),
           ProcessAt(q, Known', Kept')
    PROVE  IndexInv'
<1>1. head \in 0..MaxHead /\ process \in [Processes -> ProcessesAt(Known)]
  BY DEF IndexInv
<1>2. ASSUME NEW r \in Processes PROVE ProcessAt(process'[r], Known', Kept')
  <2>1. CASE r = p
    BY <1>1, <2>1 DEF Become
  <2>2. CASE r # p
    <3>1. process'[r] = process[r]
      BY <1>1, <2>2 DEF Become
    <3>2. ProcessAt(process[r], Known, Kept)
      BY DEF IndexInv
    <3>. QED  BY <1>1, <3>1, <3>2, ProcessGrows
  <2>. QED  BY <2>1, <2>2
<1>3. \A r \in Processes : process'[r] \in ProcessesAt(Known')
  BY <1>2 DEF ProcessAt
<1>4. process' = [r \in Processes |-> process'[r]]
  BY <1>1 DEF Become
<1>5. process' \in [Processes -> ProcessesAt(Known')]
  BY <1>3, <1>4
<1>. QED  BY <1>2, <1>5 DEF IndexInv

-----------------------------------------------------------------------------
(* What a process may turn into *)

\* A process that has ended promises nothing.
LEMMA IdleIsSafe ==
    ASSUME NEW K, NEW logs
    PROVE  /\ Idle \in ProcessesAt(K) /\ SoundAt(0, K, logs)
           /\ ProcessAt(Idle, K, logs)
<1>1. SoundAt(0, K, logs)
  <2>1. 1..0 = {} /\ 0 <= MaxHead
    BY IndexerAssumption, SMT
  <2>. QED  BY <2>1, 0 \in Nat, Zenon DEF SoundAt
<1>2. Idle \in ProcessesAt(K)
  <2>1. <<>> \in Seq(KnownIn(K))
    BY EmptySeq
  <2>. QED  BY <2>1 DEF Idle, ProcessesAt, Modes, Places, Statuses
<1>3. ProcessAt(Idle, K, logs)
  BY <1>1, <1>2 DEF ProcessAt, Idle, Busy
<1>. QED  BY <1>1, <1>2, <1>3

\* The invariant holds of an empty store.
LEMMA IndexInit ==
    ASSUME IngestInit
    PROVE  IndexInv
<1>. USE DEF IngestInit
<1>1. 0 \in 0..MaxHead
  BY IndexerAssumption, SMT
<1>2. NoRecord \in Records /\ NoRecord.status = "none"
  BY DEF NoRecord, Records, Statuses
<1>3. RecordsAt(ranges, Known, Kept)
  BY <1>2 DEF RecordsAt
<1>4. Idle \in ProcessesAt(Known) /\ SoundAt(0, Known, Kept) /\ ProcessAt(Idle, Known, Kept)
  BY IdleIsSafe
<1>. QED  BY <1>1, <1>3, <1>4 DEF IndexInv

\* A process that starts on a list of ranges, and one about to plan its backfill.
Begun(m, w) == [Idle EXCEPT !.mode = m, !.at = "stage", !.work = w]

Planning == [Idle EXCEPT !.mode = "backfill", !.at = "plan"]

\* Both promise what a process has to.
LEMMA StartingIsSafe ==
    ASSUME NEW K, NEW logs
    PROVE  /\ ProcessAt(Planning, K, logs)
           /\ \A m \in Modes, w \in Seq(KnownIn(K)) : w # <<>> => ProcessAt(Begun(m, w), K, logs)
<1>1. Idle \in ProcessesAt(K) /\ SoundAt(0, K, logs)
  BY IdleIsSafe
<1>2. ProcessAt(Planning, K, logs)
  BY <1>1 DEF ProcessAt, ProcessesAt, Idle, Busy, Places, Modes, Planning
<1>3. ASSUME NEW m \in Modes, NEW w \in Seq(KnownIn(K)), w # <<>>
      PROVE  ProcessAt(Begun(m, w), K, logs)
  <2>. DEFINE n == [Idle EXCEPT !.mode = m, !.at = "stage", !.work = w]
  <2>1. n \in ProcessesAt(K)
    BY <1>1, <1>3 DEF ProcessesAt, Places, Busy
  <2>2. /\ n.cursor = 0 /\ n.work = w /\ n.logs = {} /\ n.status = "none"
    BY DEF Idle
  <2>. HIDE DEF n
  <2>3. SoundAt(n.cursor, K, logs) /\ n.work # <<>> /\ n.logs \subseteq logs
    BY <1>1, <1>3, <2>2
  <2>4. n.status # "verified"
    BY <2>2
  <2>5. ProcessAt(n, K, logs)
    BY <2>1, <2>3, <2>4 DEF ProcessAt
  <2>. QED  BY <2>5 DEF n, Begun
<1>. QED  BY <1>2, <1>3

\* So does what follows a range in hand.
LEMMA ProceedIsSafe ==
    ASSUME NEW K, NEW logs, NEW q \in ProcessesAt(K), q.work # <<>>
    PROVE  ProcessAt(Proceed(q), K, logs)
<1>1. q.work \in Seq(KnownIn(K)) /\ q.mode \in Modes
  BY DEF ProcessesAt
<1>2. CASE Len(q.work) > 1
  <2>1. /\ Tail(q.work) \in Seq(KnownIn(K)) /\ Len(Tail(q.work)) = Len(q.work) - 1
        /\ Len(q.work) \in Nat
    BY <1>1, HeadTailProperties, LenProperties
  <2>2. Tail(q.work) # <<>>
    <3>. DEFINE t == Tail(q.work)
                l == Len(q.work)
    <3>1. l \in Nat /\ l > 1 /\ Len(t) = l - 1
      BY <1>2, <2>1
    <3>2. <<>> \in Seq(KnownIn(K)) /\ Len(<<>>) = 0
      BY EmptySeq
    <3>. HIDE DEF t, l
    <3>3. Len(t) # 0
      BY <3>1, SMT
    <3>4. t # <<>>
      BY <3>2, <3>3
    <3>. QED  BY <3>4 DEF t
  <2>3. Proceed(q) = Begun(q.mode, Tail(q.work))
    BY <1>2 DEF Proceed, Begun
  <2>. QED  BY <1>1, <2>1, <2>2, <2>3, StartingIsSafe
<1>3. CASE ~(Len(q.work) > 1)
  <2>1. Proceed(q) = Planning \/ Proceed(q) = Idle
    <3>1. Len(q.work) \in Nat
      BY <1>1, LenProperties
    <3>2. Len(q.work) <= 1
      BY <1>3, <3>1, SMT
    <3>. QED  BY <1>3, <3>2 DEF Proceed, Planning
  <2>. QED  BY <2>1, IdleIsSafe, StartingIsSafe
<1>. QED  BY <1>2, <1>3

\* Whatever still works on its range, with a sound cursor and stored rows.
LEMMA StillAtWork ==
    ASSUME NEW K, NEW logs, NEW q, NEW n \in ProcessesAt(K),
           n.work = q.work, n.work # <<>>, n.at \in Busy, SoundAt(n.cursor, K, logs),
           n.at # "append" => n.logs \subseteq logs,
           n.status = "verified" => Stored(Head(q.work), logs)
    PROVE  ProcessAt(n, K, logs)
  BY DEF ProcessAt

\* And what follows its verification, whatever came of it.
LEMMA FinishedIsSafe ==
    ASSUME NEW K, NEW logs, NEW q, ProcessAt(q, K, logs), q.work # <<>>,
           q.at # "append", NEW status
    PROVE  ProcessAt(Finished(q, status), K, logs)
<1>1. q \in ProcessesAt(K)
  BY DEF ProcessAt
<1>2. CASE Finished(q, status) = Idle
  BY <1>2, IdleIsSafe
<1>3. CASE Finished(q, status) = Proceed(q)
  BY <1>1, <1>3, ProceedIsSafe
<1>4. CASE Finished(q, status) = [q EXCEPT !.at = "readBack"]
  <2>. DEFINE n == [q EXCEPT !.at = "readBack"]
  <2>1. n \in ProcessesAt(K)
    BY <1>1 DEF ProcessesAt, Places, Busy
  <2>2. /\ n.cursor = q.cursor /\ n.work = q.work /\ n.logs = q.logs /\ n.status = q.status
        /\ n.at = "readBack"
    BY <1>1 DEF ProcessesAt
  <2>. HIDE DEF n
  <2>3. /\ SoundAt(n.cursor, K, logs) /\ n.logs \subseteq logs /\ n.at \in Busy
        /\ n.status = "verified" => Stored(Head(q.work), logs)
    BY <2>2 DEF ProcessAt, Busy
  <2>4. ProcessAt(n, K, logs)
    BY <2>1, <2>2, <2>3, StillAtWork
  <2>. QED  BY <1>4, <2>4 DEF n
<1>. QED  BY <1>2, <1>3, <1>4 DEF Finished

\* The range in hand.
LEMMA InHand ==
    ASSUME IndexInv, NEW p \in Processes, process[p].at \in Busy
    PROVE  /\ ProcessAt(process[p], Known, Kept) /\ process[p] \in ProcessesAt(Known)
           /\ process[p].work # <<>> /\ RangeOf(p) = Head(process[p].work)
           /\ RangeOf(p) \in KnownIn(Known) /\ RangeOf(p) \in Ranges
           /\ ranges[RangeOf(p)] \in Records
           /\ \A logs \in Answers(RangeOf(p)) :
                 logs \subseteq Logged /\ Logged \cap Span(RangeOf(p)) \subseteq logs \cup early
<1>1. head \in 0..MaxHead /\ ProcessAt(process[p], Known, Kept)
  BY DEF IndexInv
<1>2. /\ process[p] \in ProcessesAt(Known) /\ process[p].work # <<>>
      /\ process[p].work \in Seq(KnownIn(Known))
  BY <1>1 DEF ProcessAt, ProcessesAt
<1>. DEFINE r == RangeOf(p)
<1>3. r = Head(process[p].work) /\ r \in KnownIn(Known)
  BY <1>2, HeadTailProperties DEF RangeOf
<1>4. r \in Ranges /\ Span(r) \subseteq Known
  BY <1>3 DEF KnownIn
<1>5. ranges[r] \in Records
  BY <1>4 DEF IndexInv, RecordsAt
<1>. HIDE DEF r
<1>6. ASSUME NEW logs \in Answers(r)
      PROVE  logs \subseteq Logged /\ Logged \cap Span(r) \subseteq logs \cup early
  <2>1. PICK unsettled \in SUBSET (Logged \cap Span(r) \cap (Confirmed + 1)..head) :
           logs = (Logged \cap Span(r) \cap 1..Confirmed) \cup unsettled
    BY DEF Answers
  <2>. QED  BY <1>4, <2>1, Zenon DEF Known
<1>. QED  BY <1>1, <1>2, <1>3, <1>4, <1>5, <1>6 DEF r

\* What is held in hand when it is not being appended.
LEMMA HeldIsSafe ==
    ASSUME IndexInv, NEW p \in Processes, process[p].at # "append"
    PROVE  /\ process[p].logs \subseteq Kept
           /\ process[p].cursor \in Nat /\ SoundAt(process[p].cursor, Known, Kept)
           /\ process[p].status = "verified" => Stored(Head(process[p].work), Kept)
<1>1. ProcessAt(process[p], Known, Kept)
  BY DEF IndexInv
<1>. QED  BY <1>1 DEF ProcessAt, SoundAt

\* A step that leaves the store and the chain alone.
LEMMA OnlyBecoming ==
    ASSUME IndexInv, NEW p \in Processes, NEW q, Become(p, q), UNCHANGED <<head, store, early>>,
           ProcessAt(q, Known, Kept)
    PROVE  IndexInv'
<1>1. /\ head' = head /\ rawLogs' = rawLogs /\ ranges' = ranges
      /\ verifiedCursor' = verifiedCursor /\ Known' = Known /\ Kept' = Kept
  BY DEF store, Known, Kept, Confirmed
<1>2. head' \in 0..MaxHead /\ rawLogs' \subseteq Logged
  BY <1>1 DEF IndexInv
<1>3. /\ SoundAt(verifiedCursor', Known', Kept') /\ RecordsAt(ranges', Known', Kept')
      /\ ProcessAt(q, Known', Kept')
  BY <1>1 DEF IndexInv
<1>. QED  BY <1>1, <1>2, <1>3, Becoming

-----------------------------------------------------------------------------
(* The steps of verifyRange() *)

\* A cursor is read with the range; rows are held until they are stored.
LEMMA StageKeeps ==
    ASSUME IndexInv, NEW p \in Processes, Stage(p)
    PROVE  IndexInv'
<1>. DEFINE q == process[p]
            read == [q EXCEPT !.attempts = OneMore(ranges[RangeOf(p)].attempts),
                              !.cursor = verifiedCursor]
            failed == [read EXCEPT !.at = "patchRange", !.status = "failed", !.cursor = 0]
            done(logs) == [read EXCEPT !.at = "append", !.logs = logs, !.status = "staged"]
<1>1. q.at = "stage"
  BY DEF Stage, At
<1>2. /\ q \in ProcessesAt(Known) /\ q.work # <<>> /\ ProcessAt(q, Known, Kept)
      /\ ranges[RangeOf(p)] \in Records /\ \A logs \in Answers(RangeOf(p)) : logs \subseteq Logged
  BY <1>1, InHand DEF Busy
<1>3. OneMore(ranges[RangeOf(p)].attempts) \in Nat
  <2>1. ranges[RangeOf(p)].attempts \in Nat
    BY <1>2 DEF Records
  <2>. QED  BY <2>1, IndexerAssumption, SMT DEF OneMore
<1>4. SoundAt(verifiedCursor, Known, Kept) /\ verifiedCursor \in Nat /\ head \in 0..MaxHead
  BY DEF IndexInv, SoundAt
<1>5. /\ read \in ProcessesAt(Known) /\ read.work = q.work /\ read.logs = q.logs
      /\ read.cursor = verifiedCursor /\ read.status = q.status
  BY <1>2, <1>3, <1>4 DEF ProcessesAt
<1>. HIDE DEF read
<1>6. ASSUME NEW logs \in SUBSET Logged PROVE ProcessAt(done(logs), Known, Kept)
  <2>1. /\ done(logs) \in ProcessesAt(Known) /\ done(logs).work = q.work
        /\ done(logs).cursor = verifiedCursor /\ done(logs).status = "staged"
        /\ done(logs).at = "append"
    BY <1>5 DEF ProcessesAt, Places, Busy, Statuses
  <2>. HIDE DEF done
  <2>. QED  BY <1>2, <1>4, <2>1 DEF ProcessAt
<1>7. ProcessAt(failed, Known, Kept)
  <2>1. /\ failed \in ProcessesAt(Known) /\ failed.work = q.work /\ failed.logs = q.logs
        /\ failed.cursor = 0 /\ failed.status = "failed"
    BY <1>5 DEF ProcessesAt, Places, Busy, Statuses
  <2>2. SoundAt(0, Known, Kept) /\ q.logs \subseteq Kept
    BY <1>1, <1>2, <1>4, IdleIsSafe DEF ProcessAt
  <2>. HIDE DEF failed
  <2>. QED  BY <1>2, <2>1, <2>2 DEF ProcessAt
<1>8. Answers(RangeOf(p)) \cup {{}} \subseteq SUBSET Logged
  BY <1>2
<1>9. \/ \E logs \in SUBSET Logged : Become(p, done(logs))
      \/ Become(p, failed)
  BY <1>8 DEF Stage, read
<1>10. UNCHANGED <<head, store, early>>
  BY DEF Stage
<1>. HIDE DEF done, failed
<1>. QED  BY <1>6, <1>7, <1>9, <1>10, OnlyBecoming

\* The rows in hand are stored.
LEMMA AppendKeeps ==
    ASSUME IndexInv, NEW p \in Processes, AppendRawLogs(p)
    PROVE  IndexInv'
<1>. DEFINE q == process[p]
            n == [q EXCEPT !.at = "patchRange"]
<1>1. /\ q.at = "append" /\ rawLogs' = rawLogs \cup q.logs /\ Become(p, n)
      /\ UNCHANGED <<head, ranges, verifiedCursor, early>>
  BY DEF AppendRawLogs, At
<1>2. q \in ProcessesAt(Known) /\ q.work # <<>> /\ ProcessAt(q, Known, Kept)
  BY <1>1, InHand DEF Busy
<1>3. /\ head' \in 0..MaxHead /\ rawLogs' \subseteq Logged
      /\ Known \subseteq Known' /\ Kept \subseteq Kept' /\ q.logs \subseteq Kept'
  <2>1. q.logs \subseteq Logged /\ rawLogs \subseteq Logged /\ head \in 0..MaxHead
    BY <1>2 DEF IndexInv, ProcessesAt
  <2>2. Known' = Known
    BY <1>1 DEF Known, Confirmed
  <2>. QED  BY <1>1, <2>1, <2>2 DEF Kept
<1>4. SoundAt(verifiedCursor', Known', Kept') /\ RecordsAt(ranges', Known', Kept')
  BY <1>1, <1>3, SoundGrows, RecordsGrow DEF IndexInv
<1>5. ProcessAt(q, Known', Kept')
  BY <1>1, <1>2, <1>3, ProcessGrows
<1>6. /\ n \in ProcessesAt(Known') /\ n.work = q.work /\ n.logs = q.logs
      /\ n.cursor = q.cursor /\ n.status = q.status /\ n.at \in Busy
  BY <1>5 DEF ProcessAt, ProcessesAt, Places, Busy
<1>. HIDE DEF n
<1>7. /\ SoundAt(n.cursor, Known', Kept') /\ n.logs \subseteq Kept'
      /\ n.status = "verified" => Stored(Head(q.work), Kept')
  BY <1>3, <1>5, <1>6 DEF ProcessAt
<1>8. ProcessAt(n, Known', Kept')
  BY <1>2, <1>6, <1>7, StillAtWork
<1>. QED  BY <1>1, <1>3, <1>4, <1>8, Becoming

\* A record of a known range is written; the chain and the rows stay.
LEMMA Writing ==
    ASSUME IndexInv, NEW p \in Processes, NEW q, Become(p, q), ProcessAt(q, Known, Kept),
           UNCHANGED <<head, rawLogs, verifiedCursor, early>>, RecordsAt(ranges', Known, Kept)
    PROVE  IndexInv'
<1>1. /\ head' \in 0..MaxHead /\ rawLogs' \subseteq Logged /\ Known' = Known /\ Kept' = Kept
  BY DEF IndexInv, Known, Kept, Confirmed
<1>2. /\ SoundAt(verifiedCursor', Known', Kept') /\ RecordsAt(ranges', Known', Kept')
      /\ ProcessAt(q, Known', Kept')
  BY <1>1 DEF IndexInv
<1>. QED  BY <1>1, <1>2, Becoming

\* The cursor is written; the rest of the store and the chain stay.
LEMMA Advancing ==
    ASSUME IndexInv, NEW p \in Processes, NEW q, Become(p, q), ProcessAt(q, Known, Kept),
           UNCHANGED <<head, rawLogs, ranges, early>>, SoundAt(verifiedCursor', Known, Kept)
    PROVE  IndexInv'
<1>1. /\ head' \in 0..MaxHead /\ rawLogs' \subseteq Logged /\ Known' = Known /\ Kept' = Kept
  BY DEF IndexInv, Known, Kept, Confirmed
<1>2. /\ SoundAt(verifiedCursor', Known', Kept') /\ RecordsAt(ranges', Known', Kept')
      /\ ProcessAt(q, Known', Kept')
  BY <1>1 DEF IndexInv
<1>. QED  BY <1>1, <1>2, Becoming

\* A record of a known range, verified only if the range is stored.
LEMMA RecordIsSafe ==
    ASSUME NEW K, NEW logs, NEW f, RecordsAt(f, K, logs), NEW r \in KnownIn(K), NEW n \in Records,
           n.status = "verified" => Stored(r, logs)
    PROVE  RecordsAt([f EXCEPT ![r] = n], K, logs)
<1>1. f \in [Ranges -> Records]
  BY DEF RecordsAt
<1>. DEFINE g == [f EXCEPT ![r] = n]
<1>2. g \in [Ranges -> Records] /\ \A s \in Ranges : g[s] = IF s = r THEN n ELSE f[s]
  BY <1>1
<1>. HIDE DEF g
<1>3. RecordsAt(g, K, logs)
  BY <1>2 DEF RecordsAt
<1>. QED  BY <1>3 DEF g

\* The record says what the audit said of a stored range.
LEMMA PatchRangeKeeps ==
    ASSUME IndexInv, NEW p \in Processes, PatchRange(p)
    PROVE  IndexInv'
<1>. DEFINE q == process[p]
            r == RangeOf(p)
            n == Fresh(q.status, q.attempts)
            staged == [q EXCEPT !.at = "patchIngested"]
            verified == [q EXCEPT !.at = "readCursor", !.attempts = 0]
<1>1. /\ q.at = "patchRange" /\ ranges' = [ranges EXCEPT ![r] = n]
      /\ UNCHANGED <<head, rawLogs, verifiedCursor, early>>
  BY DEF PatchRange, At
<1>2. /\ ProcessAt(q, Known, Kept) /\ q \in ProcessesAt(Known) /\ q.work # <<>>
      /\ r = Head(q.work) /\ r \in KnownIn(Known) /\ head \in 0..MaxHead
  BY <1>1, InHand DEF Busy, IndexInv
<1>3. /\ q.logs \subseteq Kept /\ SoundAt(q.cursor, Known, Kept)
      /\ q.status = "verified" => Stored(r, Kept)
  BY <1>1, <1>2, HeldIsSafe
<1>4. n \in Records /\ n.status = q.status
  BY <1>2 DEF Fresh, Records, ProcessesAt
<1>5. RecordsAt(ranges, Known, Kept)
  BY DEF IndexInv
<1>. HIDE DEF n, r
<1>6. RecordsAt(ranges', Known, Kept)
  BY <1>1, <1>2, <1>3, <1>4, <1>5, RecordIsSafe
<1>7. ProcessAt(staged, Known, Kept)
  <2>1. /\ staged \in ProcessesAt(Known) /\ staged.work = q.work /\ staged.logs = q.logs
        /\ staged.cursor = q.cursor /\ staged.status = q.status /\ staged.at \in Busy
    BY <1>2 DEF ProcessesAt, Places, Busy
  <2>. HIDE DEF staged
  <2>. QED  BY <1>2, <1>3, <2>1, StillAtWork
<1>8. ProcessAt(verified, Known, Kept)
  <2>1. /\ verified \in ProcessesAt(Known) /\ verified.work = q.work /\ verified.logs = q.logs
        /\ verified.cursor = q.cursor /\ verified.status = q.status /\ verified.at \in Busy
    BY <1>2 DEF ProcessesAt, Places, Busy
  <2>. HIDE DEF verified
  <2>. QED  BY <1>2, <1>3, <2>1, StillAtWork
<1>9. ProcessAt(Finished(q, q.status), Known, Kept)
  <2>1. q.at # "append"
    BY <1>1
  <2>. QED  BY <1>2, <2>1, FinishedIsSafe
<1>10. \/ Become(p, staged) \/ Become(p, verified) \/ Become(p, Finished(q, q.status))
  BY DEF PatchRange
<1>. HIDE DEF staged, verified
<1>. QED  BY <1>1, <1>6, <1>7, <1>8, <1>9, <1>10, Writing

\* The cursor that was read comes back: it may be an old one, but it was sound.
LEMMA PatchIngestedKeeps ==
    ASSUME IndexInv, NEW p \in Processes, PatchIngested(p)
    PROVE  IndexInv'
<1>. DEFINE q == process[p]
            n == [q EXCEPT !.at = "audit", !.cursor = 0]
<1>1. /\ q.at = "patchIngested" /\ verifiedCursor' = q.cursor /\ Become(p, n)
      /\ UNCHANGED <<head, rawLogs, ranges, early>>
  BY DEF PatchIngested, At
<1>2. q \in ProcessesAt(Known) /\ q.work # <<>> /\ head \in 0..MaxHead
  BY <1>1, InHand DEF Busy, IndexInv
<1>3. /\ q.logs \subseteq Kept /\ SoundAt(q.cursor, Known, Kept)
      /\ q.status = "verified" => Stored(Head(q.work), Kept)
  BY <1>1, HeldIsSafe
<1>4. /\ n \in ProcessesAt(Known) /\ n.work = q.work /\ n.logs = q.logs /\ n.cursor = 0
      /\ n.status = q.status /\ n.at \in Busy
  BY <1>2 DEF ProcessesAt, Places, Busy
<1>5. SoundAt(0, Known, Kept)
  BY <1>2, IdleIsSafe
<1>. HIDE DEF n
<1>6. ProcessAt(n, Known, Kept)
  BY <1>2, <1>3, <1>4, <1>5, StillAtWork
<1>7. SoundAt(verifiedCursor', Known, Kept)
  BY <1>1, <1>3
<1>. QED  BY <1>1, <1>6, <1>7, Advancing

\* The audit calls a range verified only when what it fetched again is what was stored.
LEMMA AuditKeeps ==
    ASSUME IndexInv, NEW p \in Processes, Audit(p)
    PROVE  IndexInv'
<1>. DEFINE q == process[p]
            r == RangeOf(p)
            n(s) == [q EXCEPT !.at = "patchRange", !.logs = {}, !.status = s]
<1>1. q.at = "audit" /\ UNCHANGED <<head, store, early>>
  BY DEF Audit, At
<1>2. /\ q \in ProcessesAt(Known) /\ q.work # <<>> /\ head \in 0..MaxHead
      /\ r = Head(q.work)
      /\ \A logs \in Answers(r) : Logged \cap Span(r) \subseteq logs \cup early
  BY <1>1, InHand DEF Busy, IndexInv
<1>3. q.logs \subseteq Kept /\ SoundAt(q.cursor, Known, Kept)
  BY <1>1, HeldIsSafe
<1>4. ASSUME NEW s \in Statuses, s = "verified" => Stored(r, Kept)
      PROVE  ProcessAt(n(s), Known, Kept)
  <2>1. /\ n(s) \in ProcessesAt(Known) /\ n(s).work = q.work /\ n(s).logs = {}
        /\ n(s).cursor = q.cursor /\ n(s).status = s /\ n(s).at \in Busy
    BY <1>2 DEF ProcessesAt, Places, Busy
  <2>. HIDE DEF n, r
  <2>. QED  BY <1>2, <1>3, <1>4, <2>1, StillAtWork
<1>5. \E s \in Statuses : Become(p, n(s)) /\ (s = "verified" => Stored(r, Kept))
  <2>1. CASE Become(p, n("failed"))
    BY <2>1 DEF Statuses
  <2>2. CASE \E logs \in Answers(r) \cup (IF q.logs = {} THEN {} ELSE {{}}) :
                Become(p, n(IF logs = q.logs THEN "verified" ELSE "suspicious"))
    <3>1. PICK logs \in Answers(r) \cup (IF q.logs = {} THEN {} ELSE {{}}) :
                Become(p, n(IF logs = q.logs THEN "verified" ELSE "suspicious"))
      BY <2>2
    <3>. HIDE DEF n, r
    <3>2. CASE logs = q.logs
      <4>1. logs \in Answers(r)
        BY <3>1, <3>2
      <4>2. Stored(r, Kept)
        <5>1. Logged \cap Span(r) \subseteq logs \cup early
          BY <1>2, <4>1
        <5>. QED  BY <1>3, <3>2, <5>1 DEF Stored, Kept
      <4>3. Become(p, n("verified")) /\ "verified" \in Statuses
        BY <3>1, <3>2 DEF Statuses
      <4>. QED  BY <4>2, <4>3
    <3>3. CASE logs # q.logs
      <4>1. Become(p, n("suspicious")) /\ "suspicious" \in Statuses
        BY <3>1, <3>3 DEF Statuses
      <4>. QED  BY <4>1
    <3>. QED  BY <3>2, <3>3
  <2>. QED  BY <2>1, <2>2 DEF Audit
<1>. HIDE DEF n
<1>. QED  BY <1>1, <1>4, <1>5, OnlyBecoming

\* The cursor that the verified ranges give is sound: the blocks after the old one are in
\* verified ranges, which may be asked for and are stored.
LEMMA ContiguousIsSound ==
    ASSUME IndexInv
    PROVE  /\ ContiguousVerifiedCursor \in Nat
           /\ SoundAt(ContiguousVerifiedCursor, Known, Kept)
<1>. DEFINE v == verifiedCursor
            V == VerifiedBlocks
            good(b) == (v + 1)..b \subseteq V /\ b + 1 \notin V
            N == {n \in Nat : v <= n /\ n + 1 \notin V}
            c == ContiguousVerifiedCursor
<1>1. MaxHead \in Nat /\ v \in Nat /\ v <= MaxHead
  BY IndexerAssumption DEF IndexInv, SoundAt
<1>2. ASSUME NEW x \in V
      PROVE  /\ x \in Nat /\ 1 <= x /\ x <= MaxHead /\ x \in Known
             /\ x \in Logged => x \in Kept
  <2>1. PICK r \in Ranges : ranges[r].status = "verified" /\ x \in Span(r)
    BY DEF VerifiedBlocks
  <2>2. r \in KnownIn(Known) /\ Stored(r, Kept)
    BY <2>1 DEF IndexInv, RecordsAt
  <2>3. r[1] \in Nat /\ r[2] \in Nat /\ 1 <= r[1] /\ r[2] <= MaxHead
    BY <2>1, RangesAre
  <2>4. x \in r[1]..r[2]
    BY <2>1 DEF Span
  <2>5. x \in Nat /\ 1 <= x /\ x <= MaxHead
    BY <1>1, <2>3, <2>4, SMT
  <2>. QED  BY <2>1, <2>2, <2>5 DEF Stored, KnownIn
<1>. HIDE DEF V, v
<1>3. \E b \in v..MaxHead : good(b)
  <2>1. MaxHead \in N
    <3>1. MaxHead + 1 \notin V
      <4>. SUFFICES ASSUME MaxHead + 1 \in V PROVE FALSE
        OBVIOUS
      <4>1. MaxHead + 1 <= MaxHead
        BY <1>2
      <4>. QED  BY <1>1, <4>1, SMT
    <3>2. v <= MaxHead
      BY <1>1
    <3>. QED  BY <1>1, <3>1, <3>2
  <2>2. N \in SUBSET Nat /\ N # {}
    BY <2>1
  <2>3. PICK b \in N : \A n \in N : b <= n
    BY <2>2, LeastElement
  <2>4. b \in Nat /\ v <= b /\ b + 1 \notin V /\ b <= MaxHead
    BY <2>1, <2>3
  <2>5. ASSUME NEW x \in (v + 1)..b PROVE x \in V
    <3>1. x - 1 \in Nat /\ v <= x - 1 /\ ~(b <= x - 1) /\ (x - 1) + 1 = x
      BY <1>1, <2>4, SMT
    <3>2. x - 1 \notin N
      BY <2>3, <3>1
    <3>. QED  BY <3>1, <3>2
  <2>6. b \in v..MaxHead
    BY <1>1, <2>4, SMT
  <2>. QED  BY <2>4, <2>5, <2>6
<1>4. c = CHOOSE b \in v..MaxHead : good(b)
  BY DEF ContiguousVerifiedCursor, v, V
<1>. HIDE DEF c, good, N
<1>5. c \in v..MaxHead /\ good(c)
  BY <1>3, <1>4
<1>6. c \in Nat /\ (v + 1)..c \subseteq V /\ v <= c
  BY <1>1, <1>5, SMT DEF good
<1>7. c <= MaxHead
  BY <1>1, <1>5, SMT
<1>8. ASSUME NEW x \in 1..c PROVE x \in Known /\ (x \in Logged => x \in Kept)
  <2>1. CASE x <= v
    <3>1. x \in 1..v
      BY <1>1, <1>6, <2>1, SMT
    <3>2. 1..v \subseteq Known /\ Logged \cap 1..v \subseteq Kept
      BY DEF v, IndexInv, SoundAt
    <3>. QED  BY <3>1, <3>2
  <2>2. CASE ~(x <= v)
    <3>1. x \in (v + 1)..c
      BY <1>1, <1>6, <2>2, SMT
    <3>. QED  BY <1>2, <1>6, <3>1
  <2>. QED  BY <2>1, <2>2
<1>. QED  BY <1>6, <1>7, <1>8 DEF SoundAt, c

\* The new cursor is sound when it is computed ...
LEMMA ReadCursorKeeps ==
    ASSUME IndexInv, NEW p \in Processes, ReadCursor(p)
    PROVE  IndexInv'
<1>. DEFINE q == process[p]
            n == [q EXCEPT !.at = "patchCursor", !.cursor = ContiguousVerifiedCursor]
<1>1. q.at = "readCursor" /\ Become(p, n) /\ UNCHANGED <<head, store, early>>
  BY DEF ReadCursor, At
<1>2. q \in ProcessesAt(Known) /\ q.work # <<>>
  BY <1>1, InHand DEF Busy
<1>3. /\ q.logs \subseteq Kept
      /\ q.status = "verified" => Stored(Head(q.work), Kept)
  BY <1>1, HeldIsSafe
<1>4. /\ ContiguousVerifiedCursor \in Nat
      /\ SoundAt(ContiguousVerifiedCursor, Known, Kept)
  BY ContiguousIsSound
<1>5. /\ n \in ProcessesAt(Known) /\ n.work = q.work /\ n.logs = q.logs
      /\ n.cursor = ContiguousVerifiedCursor /\ n.status = q.status /\ n.at \in Busy
  BY <1>2, <1>4 DEF ProcessesAt, Places, Busy
<1>. HIDE DEF n
<1>6. ProcessAt(n, Known, Kept)
  BY <1>2, <1>3, <1>4, <1>5, StillAtWork
<1>. QED  BY <1>1, <1>6, OnlyBecoming

\* ... and still when it is written, whoever wrote in between.
LEMMA PatchCursorKeeps ==
    ASSUME IndexInv, NEW p \in Processes, PatchCursor(p)
    PROVE  IndexInv'
<1>. DEFINE q == process[p]
<1>1. /\ q.at = "patchCursor" /\ verifiedCursor' = q.cursor
      /\ Become(p, Finished(q, "verified")) /\ UNCHANGED <<head, rawLogs, ranges, early>>
  BY DEF PatchCursor, At
<1>2. ProcessAt(q, Known, Kept) /\ q.work # <<>> /\ head \in 0..MaxHead
  BY <1>1, InHand DEF Busy, IndexInv
<1>3. SoundAt(verifiedCursor', Known, Kept)
  BY <1>1, HeldIsSafe
<1>4. ProcessAt(Finished(q, "verified"), Known, Kept)
  <2>1. q.at # "append"
    BY <1>1
  <2>. QED  BY <1>2, <2>1, FinishedIsSafe
<1>. QED  BY <1>1, <1>3, <1>4, Advancing

-----------------------------------------------------------------------------
(* The steps of a cycle and of the operator *)

\* The ranges that wait for a repair are known.
LEMMA CandidatesAreKnown ==
    ASSUME IndexInv, NEW S \in SUBSET Candidates
    PROVE  Sorted(S) \in Seq(KnownIn(Known)) /\ (S # {} => Sorted(S) # <<>>)
<1>1. ASSUME NEW r \in S PROVE r \in KnownIn(Known)
  <2>1. r \in Ranges /\ ranges[r].status # "none"
    BY DEF Candidates, IsRepairCandidate
  <2>. QED  BY <2>1 DEF IndexInv, RecordsAt
<1>2. KnownIn(Known) \in SUBSET Ranges /\ S \in SUBSET KnownIn(Known)
  BY <1>1 DEF KnownIn
<1>. QED  BY <1>2, SortedType

\* Repairs start on known ranges.
LEMMA StartReconcileKeeps ==
    ASSUME IndexInv, NEW p \in Processes, StartReconcile(p)
    PROVE  IndexInv'
<1>. DEFINE E == {r \in Candidates : ~IsExhausted(ranges[r]) /\ ~ranges[r].waiting}
<1>1. head \in 0..MaxHead /\ UNCHANGED <<head, store, early>>
  BY DEF IndexInv, StartReconcile
<1>2. Become(p, IF E = {} THEN Planning ELSE Begun("reconcile", Sorted(E)))
  BY DEF StartReconcile, Planning, Begun
<1>3. E \in SUBSET Candidates
  OBVIOUS
<1>. HIDE DEF E
<1>4. CASE E = {}
  BY <1>1, <1>2, <1>4, StartingIsSafe, OnlyBecoming
<1>5. CASE E # {}
  <2>1. Sorted(E) \in Seq(KnownIn(Known)) /\ Sorted(E) # <<>>
    BY <1>3, <1>5, CandidatesAreKnown
  <2>2. "reconcile" \in Modes
    BY DEF Modes
  <2>3. ProcessAt(Begun("reconcile", Sorted(E)), Known, Kept)
    BY <1>1, <2>1, <2>2, StartingIsSafe
  <2>. QED  BY <1>1, <1>2, <1>5, <2>3, OnlyBecoming
<1>. QED  BY <1>4, <1>5

\* The record read back may be the one another process wrote; it is stored if verified.
LEMMA ReadBackKeeps ==
    ASSUME IndexInv, NEW p \in Processes, ReadBack(p)
    PROVE  IndexInv'
<1>. DEFINE q == process[p]
            record == ranges[RangeOf(p)]
            n == [q EXCEPT !.at = "schedule", !.status = record.status,
                           !.attempts = record.attempts]
<1>1. q.at = "readBack" /\ Become(p, n) /\ UNCHANGED <<head, store, early>>
  BY DEF ReadBack, At
<1>2. /\ q \in ProcessesAt(Known) /\ q.work # <<>> /\ record \in Records
      /\ RangeOf(p) = Head(q.work) /\ RangeOf(p) \in Ranges
  BY <1>1, InHand DEF Busy
<1>3. q.logs \subseteq Kept /\ SoundAt(q.cursor, Known, Kept)
  BY <1>1, HeldIsSafe
<1>4. record.status = "verified" => Stored(Head(q.work), Kept)
  BY <1>2 DEF IndexInv, RecordsAt
<1>5. record.status \in Statuses /\ record.attempts \in Nat
  BY <1>2 DEF Records
<1>. HIDE DEF record
<1>6. /\ n \in ProcessesAt(Known) /\ n.work = q.work /\ n.logs = q.logs
      /\ n.cursor = q.cursor /\ n.status = record.status /\ n.at \in Busy
  BY <1>2, <1>5 DEF ProcessesAt, Places, Busy
<1>. HIDE DEF n
<1>7. ProcessAt(n, Known, Kept)
  BY <1>2, <1>3, <1>4, <1>6, StillAtWork
<1>. QED  BY <1>1, <1>7, OnlyBecoming

\* It is written again as it was read, when other steps may have come between.
LEMMA ScheduleRetryKeeps ==
    ASSUME IndexInv, NEW p \in Processes, ScheduleRetry(p)
    PROVE  IndexInv'
<1>. DEFINE q == process[p]
            r == RangeOf(p)
            n == [status |-> q.status, attempts |-> q.attempts, waiting |-> TRUE]
<1>1. /\ q.at = "schedule" /\ ranges' = [ranges EXCEPT ![r] = n] /\ Become(p, Proceed(q))
      /\ UNCHANGED <<head, rawLogs, verifiedCursor, early>>
  BY DEF ScheduleRetry, At
<1>2. /\ q \in ProcessesAt(Known) /\ q.work # <<>> /\ head \in 0..MaxHead
      /\ r = Head(q.work) /\ r \in KnownIn(Known)
  BY <1>1, InHand DEF Busy, IndexInv
<1>3. q.status = "verified" => Stored(r, Kept)
  BY <1>1, <1>2, HeldIsSafe
<1>4. n \in Records /\ n.status = q.status
  BY <1>2 DEF Records, ProcessesAt
<1>5. RecordsAt(ranges, Known, Kept)
  BY DEF IndexInv
<1>. HIDE DEF n, r
<1>6. RecordsAt(ranges', Known, Kept)
  BY <1>1, <1>2, <1>3, <1>4, <1>5, RecordIsSafe
<1>7. ProcessAt(Proceed(q), Known, Kept)
  BY <1>2, ProceedIsSafe
<1>. QED  BY <1>1, <1>6, <1>7, Writing

\* What is planned from the cursor on, cut where a range is deferred, is known.
LEMMA WorklistsAreKnown ==
    ASSUME IndexInv, NEW p \in Processes, NEW to \in 0..Confirmed,
           NEW w \in Worklists(p, Planned(verifiedCursor + 1, to))
    PROVE  w \in Seq(KnownIn(Known))
<1>. DEFINE plan == Planned(verifiedCursor + 1, to)
            near == {r \in Ranges : r[2] <= to}
<1>1. verifiedCursor \in Nat /\ MaxHead \in Nat /\ Confirmed \in Nat /\ Confirmed <= MaxHead
  BY ConfirmedType, IndexerAssumption DEF IndexInv, SoundAt
<1>2. to \in Nat /\ to <= MaxHead /\ to <= Confirmed /\ verifiedCursor + 1 \in Nat \ {0}
  BY <1>1, SMT
<1>3. plan \in Seq(near)
  BY <1>2, PlannedType
<1>9. near \subseteq KnownIn(Known)
  <2>. SUFFICES ASSUME NEW r \in near PROVE Span(r) \subseteq Known
    BY DEF KnownIn
  <2>1. r[1] \in Nat /\ r[2] \in Nat /\ 1 <= r[1] /\ r[2] <= to
    BY RangesAre
  <2>2. r[1]..r[2] \subseteq 1..Confirmed
    BY <1>1, <1>2, <2>1, SMT
  <2>. QED  BY <2>2 DEF Span, Known
<1>. HIDE DEF near
<1>4. plan \in Seq(KnownIn(Known))
  BY <1>3, <1>9, SeqMonotonic
<1>. HIDE DEF plan
<1>5. PICK n \in 0..Len(plan) : w = SubSeq(plan, 1, n)
  BY DEF Worklists, plan
<1>6. ASSUME NEW i \in 1..n PROVE plan[i] \in KnownIn(Known)
  <2>1. Len(plan) \in Nat
    BY <1>4, LenProperties
  <2>2. i \in 1..Len(plan)
    BY <1>5, <2>1, SMT
  <2>. QED  BY <1>4, <2>2, ElementOfSeq
<1>7. n \in Int /\ 1 \in Int
  BY <1>4, <1>5, LenProperties
<1>8. SubSeq(plan, 1, n) \in Seq(KnownIn(Known))
  BY <1>6, <1>7, SubSeqProperties
<1>. QED  BY <1>5, <1>8

\* Backfill plans ranges of confirmed blocks.
LEMMA PlanBackfillKeeps ==
    ASSUME IndexInv, NEW p \in Processes, PlanBackfill(p)
    PROVE  IndexInv'
<1>. DEFINE q == process[p]
            n(w) == [q EXCEPT !.at = "patchHead", !.work = w, !.cursor = verifiedCursor]
<1>1. q.at = "plan" /\ UNCHANGED <<head, store, early>>
  BY DEF PlanBackfill, At
<1>2. /\ head \in 0..MaxHead /\ ProcessAt(q, Known, Kept) /\ q \in ProcessesAt(Known)
      /\ SoundAt(verifiedCursor, Known, Kept) /\ verifiedCursor \in Nat
  BY DEF IndexInv, SoundAt, ProcessAt
<1>3. q.logs \subseteq Kept /\ q.status # "verified"
  BY <1>1, <1>2 DEF ProcessAt, Busy
<1>4. ASSUME NEW w \in Seq(KnownIn(Known)) PROVE ProcessAt(n(w), Known, Kept)
  <2>1. /\ n(w) \in ProcessesAt(Known) /\ n(w).logs = q.logs /\ n(w).at = "patchHead"
        /\ n(w).cursor = verifiedCursor /\ n(w).status = q.status
    BY <1>2, <1>4 DEF ProcessesAt, Places
  <2>. HIDE DEF n
  <2>2. n(w).at \notin Busy
    BY <2>1 DEF Busy
  <2>. QED  BY <1>2, <1>3, <2>1, <2>2 DEF ProcessAt
<1>5. \/ \E to \in 0..Confirmed :
         \E w \in Worklists(p, Planned(verifiedCursor + 1, to)) : Become(p, n(w))
      \/ Become(p, Idle)
  <2>1. Confirmed \in 0..Confirmed
    BY <1>2, ConfirmedType, SMT
  <2>. QED  BY <2>1, Zenon DEF PlanBackfill
<1>. HIDE DEF n
<1>6. CASE Become(p, Idle)
  BY <1>1, <1>2, <1>6, IdleIsSafe, OnlyBecoming
<1>7. CASE \E to \in 0..Confirmed :
              \E w \in Worklists(p, Planned(verifiedCursor + 1, to)) : Become(p, n(w))
  <2>1. PICK to \in 0..Confirmed :
               \E w \in Worklists(p, Planned(verifiedCursor + 1, to)) : Become(p, n(w))
    BY <1>7
  <2>. PICK w \in Worklists(p, Planned(verifiedCursor + 1, to)) : Become(p, n(w))
    BY <2>1
  <2>2. w \in Seq(KnownIn(Known))
    BY WorklistsAreKnown
  <2>. QED  BY <1>1, <1>4, <2>1, <2>2, OnlyBecoming
<1>. QED  BY <1>5, <1>6, <1>7

\* An old cursor may come back here too.
LEMMA PatchHeadKeeps ==
    ASSUME IndexInv, NEW p \in Processes, PatchHead(p)
    PROVE  IndexInv'
<1>. DEFINE q == process[p]
            n == [q EXCEPT !.at = "stage", !.cursor = 0]
<1>1. /\ q.at = "patchHead" /\ verifiedCursor' = q.cursor
      /\ Become(p, IF q.work = <<>> THEN Idle ELSE n) /\ UNCHANGED <<head, rawLogs, ranges, early>>
  BY DEF PatchHead, At
<1>2. head \in 0..MaxHead /\ ProcessAt(q, Known, Kept) /\ q \in ProcessesAt(Known)
  BY DEF IndexInv, ProcessAt
<1>3. q.logs \subseteq Kept /\ q.status # "verified" /\ SoundAt(q.cursor, Known, Kept)
  BY <1>1, <1>2 DEF ProcessAt, Busy
<1>4. SoundAt(verifiedCursor', Known, Kept)
  BY <1>1, <1>3
<1>5. SoundAt(0, Known, Kept) /\ ProcessAt(Idle, Known, Kept)
  BY <1>2, IdleIsSafe
<1>6. /\ n \in ProcessesAt(Known) /\ n.work = q.work /\ n.logs = q.logs /\ n.cursor = 0
      /\ n.status = q.status /\ n.at \in Busy
  BY <1>2 DEF ProcessesAt, Places, Busy
<1>. HIDE DEF n
<1>7. CASE q.work = <<>>
  BY <1>1, <1>4, <1>5, <1>7, Advancing
<1>8. CASE q.work # <<>>
  <2>1. ProcessAt(n, Known, Kept)
    BY <1>3, <1>5, <1>6, <1>8, StillAtWork
  <2>. QED  BY <1>1, <1>4, <1>8, <2>1, Advancing
<1>. QED  BY <1>7, <1>8

\* A list of ranges, and the blocks of it that are noted as asked for early.
Noted(w) == (UNION {Span(w[i]) : i \in DOMAIN w}) \ (1..Confirmed)

\* Whatever the operator asks for is a list of ranges.
LEMMA AskedAreRanges ==
    ASSUME IndexInv, NEW w \in Asked
    PROVE  w \in Seq(Ranges)
<1>1. CASE w = Sorted(Candidates)
  <2>1. Candidates \in SUBSET Ranges /\ Ranges \in SUBSET Ranges
    BY DEF Candidates
  <2>. QED  BY <1>1, <2>1, SortedType
<1>2. CASE w \in {Planned(from, to) : from \in Blocks, to \in Blocks}
  <2>1. PICK from \in Blocks, to \in Blocks : w = Planned(from, to)
    BY <1>2
  <2>2. from \in Nat \ {0} /\ to \in Nat /\ to <= MaxHead
    BY <2>1, IndexerAssumption, SMT DEF Blocks
  <2>3. w \in Seq({r \in Ranges : r[2] <= to})
    BY <2>1, <2>2, PlannedType
  <2>4. {r \in Ranges : r[2] <= to} \subseteq Ranges
    OBVIOUS
  <2>. QED  BY <2>3, <2>4, SeqMonotonic
<1>. QED  BY <1>1, <1>2 DEF Asked

\* What the operator starts with is known once it is noted.
LEMMA NotedIsKnown ==
    ASSUME NEW w \in Seq(Ranges), early' = early \cup Noted(w), UNCHANGED head
    PROVE  w \in Seq(KnownIn(Known'))
<1>1. Known' = (1..Confirmed) \cup early \cup Noted(w)
  BY DEF Known, Confirmed
<1>2. ASSUME NEW i \in DOMAIN w PROVE w[i] \in KnownIn(Known')
  <2>1. w[i] \in Ranges
    BY ElementOfSeq, SeqDef
  <2>2. Span(w[i]) \subseteq Known'
    BY <1>1 DEF Noted
  <2>. QED  BY <2>1, <2>2 DEF KnownIn
<1>3. Len(w) \in Nat /\ DOMAIN w = 1..Len(w) /\ w = [i \in 1..Len(w) |-> w[i]]
  BY LenProperties, SeqDef
<1>4. w \in [1..Len(w) -> KnownIn(Known')]
  BY <1>2, <1>3
<1>. QED  BY <1>3, <1>4, SeqDef

\* The operator asks for ranges, and for those that are not confirmed early.
LEMMA CommandKeeps ==
    ASSUME IndexInv, NEW p \in Processes, Command(p)
    PROVE  IndexInv'
<1>1. head \in 0..MaxHead /\ UNCHANGED <<head, store>> /\ "command" \in Modes
  BY DEF IndexInv, Command, Modes
<1>2. \/ Become(p, Planning) /\ early' = early
      \/ \E w \in Asked : /\ w # <<>> /\ Become(p, Begun("command", w))
                          /\ early' = early \cup Noted(w)
  <2>. DEFINE start(w) == [Idle EXCEPT !.mode = "command", !.at = "stage", !.work = w]
  <2>1. \/ Become(p, [Idle EXCEPT !.mode = "backfill", !.at = "plan"]) /\ early' = early
        \/ \E w \in Asked : w # <<>> /\ Become(p, start(w)) /\ early' = early \cup Noted(w)
    BY Zenon DEF Command, Noted
  <2>2. \A w : start(w) = Begun("command", w)
    BY DEF Begun
  <2>3. Planning = [Idle EXCEPT !.mode = "backfill", !.at = "plan"]
    BY DEF Planning
  <2>. HIDE DEF start
  <2>. QED  BY <2>1, <2>2, <2>3
<1>3. CASE Become(p, Planning) /\ early' = early
  BY <1>1, <1>3, StartingIsSafe, OnlyBecoming
<1>4. ASSUME NEW w \in Asked, w # <<>>, Become(p, Begun("command", w)),
             early' = early \cup Noted(w)
      PROVE  IndexInv'
  <2>1. w \in Seq(KnownIn(Known'))
    BY <1>1, <1>4, AskedAreRanges, NotedIsKnown
  <2>2. ProcessAt(Begun("command", w), Known', Kept')
    BY <1>1, <1>4, <2>1, StartingIsSafe
  <2>3. /\ head' = head /\ rawLogs' = rawLogs /\ ranges' = ranges
        /\ verifiedCursor' = verifiedCursor
    BY <1>1 DEF store
  <2>4. Known \subseteq Known' /\ Kept \subseteq Kept'
    BY <1>4, <2>3 DEF Known, Kept, Confirmed
  <2>5. SoundAt(verifiedCursor', Known', Kept') /\ RecordsAt(ranges', Known', Kept')
    BY <2>3, <2>4, SoundGrows, RecordsGrow DEF IndexInv
  <2>6. head' \in 0..MaxHead /\ rawLogs' \subseteq Logged
    BY <2>3 DEF IndexInv
  <2>. QED  BY <1>4, <2>2, <2>4, <2>5, <2>6, Becoming
<1>. QED  BY <1>2, <1>3, <1>4

\* What a killed process held is gone; the store is as it was.
LEMMA CrashKeeps ==
    ASSUME IndexInv, NEW p \in Processes, Crash(p)
    PROVE  IndexInv'
<1>1. Become(p, Idle) /\ UNCHANGED <<head, store, early>> /\ head \in 0..MaxHead
  BY DEF Crash, IndexInv
<1>. QED  BY <1>1, IdleIsSafe, OnlyBecoming

\* An elapsed window changes no status.
LEMMA ElapseKeeps ==
    ASSUME IndexInv, NEW r \in Ranges, Elapse(r)
    PROVE  IndexInv'
<1>1. /\ ranges' = [ranges EXCEPT ![r].waiting = FALSE]
      /\ UNCHANGED <<head, rawLogs, verifiedCursor, process, early>>
  BY DEF Elapse
<1>2. ranges \in [Ranges -> Records]
  BY DEF IndexInv, RecordsAt
<1>3. /\ ranges' \in [Ranges -> Records]
      /\ \A s \in Ranges : ranges'[s].status = ranges[s].status
  BY <1>1, <1>2 DEF Records
<1>4. RecordsAt(ranges', Known, Kept)
  BY <1>3 DEF RecordsAt, IndexInv
<1>5. Known' = Known /\ Kept' = Kept
  BY <1>1 DEF Known, Kept, Confirmed
<1>. QED  BY <1>1, <1>4, <1>5 DEF IndexInv

\* A new block confirms more and unconfirms nothing.
LEMMA MineKeeps ==
    ASSUME IndexInv, Mine
    PROVE  IndexInv'
<1>1. /\ head' = head + 1 /\ UNCHANGED <<rawLogs, ranges, verifiedCursor, process, early>>
      /\ head < MaxHead
  BY DEF Mine, store
<1>2. head \in 0..MaxHead /\ head' \in 0..MaxHead /\ head <= head'
  BY <1>1, IndexerAssumption, SMT DEF IndexInv
<1>6. Known \subseteq Known' /\ Kept' = Kept
  BY <1>1, <1>2, KnownGrows DEF Kept
<1>3. SoundAt(verifiedCursor, Known', Kept') /\ RecordsAt(ranges, Known', Kept')
  BY <1>6, SoundGrows, RecordsGrow DEF IndexInv
<1>4. ASSUME NEW p \in Processes PROVE ProcessAt(process[p], Known', Kept')
  BY <1>6, ProcessGrows DEF IndexInv
<1>5. process \in [Processes -> ProcessesAt(Known')]
  <2>1. \A p \in Processes : process[p] \in ProcessesAt(Known')
    BY <1>4 DEF ProcessAt
  <2>. QED  BY <2>1 DEF IndexInv
<1>. QED  BY <1>1, <1>2, <1>3, <1>4, <1>5 DEF IndexInv

\* Every step keeps the invariant.
LEMMA IndexInductive ==
    ASSUME IndexInv, [IngestNext]_ingestVars
    PROVE  IndexInv'
<1>1. CASE UNCHANGED ingestVars
  <2>1. Known' = Known /\ Kept' = Kept
    BY <1>1 DEF ingestVars, store, Known, Kept, Confirmed
  <2>. QED  BY <1>1, <2>1 DEF ingestVars, store, IndexInv
<1>2. CASE Mine
  BY <1>2, MineKeeps
<1>3. ASSUME NEW p \in Processes, Step(p) PROVE IndexInv'
  BY <1>3, StageKeeps, AppendKeeps, PatchRangeKeeps, PatchIngestedKeeps, AuditKeeps,
     ReadCursorKeeps, PatchCursorKeeps, StartReconcileKeeps, ReadBackKeeps, ScheduleRetryKeeps,
     PlanBackfillKeeps, PatchHeadKeeps DEF Step
<1>4. ASSUME NEW p \in Processes, Command(p) \/ Crash(p) PROVE IndexInv'
  BY <1>4, CommandKeeps, CrashKeeps
<1>5. ASSUME NEW r \in Ranges, Elapse(r) PROVE IndexInv'
  BY <1>5, ElapseKeeps
<1>. QED  BY <1>1, <1>2, <1>3, <1>4, <1>5 DEF IngestNext

(* Whatever fails, is killed or is overwritten: up to the verified cursor   *)
(* every block is confirmed and every log stored, but for the blocks an     *)
(* operator asked for before they were confirmed (verifyRange,              *)
(* getContiguousVerifiedCursor, patchMeta).                                 *)
THEOREM CursorIsComplete == IngestSpec => []VerifiedIsComplete
<1>1. IngestInit => IndexInv
  BY IndexInit
<1>2. IndexInv /\ [IngestNext]_ingestVars => IndexInv'
  BY IndexInductive
<1>3. IndexInv => VerifiedIsComplete
  BY DEF IndexInv, SoundAt, VerifiedIsComplete, Known, Kept
<1>. QED  BY <1>1, <1>2, <1>3, PTL DEF IngestSpec
=============================================================================
