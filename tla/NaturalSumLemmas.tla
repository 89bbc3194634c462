-------------------------- MODULE NaturalSumLemmas --------------------------
(***************************************************************************)
(* Finite sums of naturals, from the laws of cardinalities and by          *)
(* induction on the set.                                                   *)
(***************************************************************************)
EXTENDS NaturalSums, FiniteSetTheorems, FunctionTheorems, WellFoundedInduction, TLAPS

\* An amount has as many units as it says.
LEMMA UnitsOfOne ==
    ASSUME NEW x, NEW n \in Nat
    PROVE  /\ IsFiniteSet({x} \X (1..n))
           /\ Cardinality({x} \X (1..n)) = n
<1>1. IsFiniteSet(1..n) /\ Cardinality(1..n) = n
  BY FS_Interval, SMT
<1>2. IsFiniteSet({x}) /\ Cardinality({x}) = 1
  BY FS_Singleton
<1>. QED  BY <1>1, <1>2, FS_Product, SMT

\* The units of finitely many amounts are finite.
LEMMA UnitsFinite ==
    ASSUME NEW T, NEW f \in [T -> Nat], NEW S \in SUBSET T, IsFiniteSet(S)
    PROVE  IsFiniteSet(Units(f, S))
<1>. DEFINE U == {{x} \X (1..f[x]) : x \in S}
            g == [x \in S |-> {x} \X (1..f[x])]
<1>1. g \in Surjection(S, U)
  BY Fun_IsSurj
<1>2. IsFiniteSet(U)
  BY <1>1, FS_Surjection
<1>3. ASSUME NEW u \in U
      PROVE  IsFiniteSet(u)
  <2>1. PICK x \in S : u = {x} \X (1..f[x])
    OBVIOUS
  <2>2. f[x] \in Nat
    OBVIOUS
  <2>. QED  BY <2>1, <2>2, UnitsOfOne
<1>. QED  BY <1>2, <1>3, FS_UNION DEF Units

\* A sum over finitely many is a number.
LEMMA SumType ==
    ASSUME NEW T, NEW f \in [T -> Nat], NEW S \in SUBSET T, IsFiniteSet(S)
    PROVE  SumOver(f, S) \in Nat
  BY UnitsFinite, FS_CardinalityType DEF SumOver

\* Nothing adds up to 0.
LEMMA SumOfNone ==
    ASSUME NEW f
    PROVE  SumOver(f, {}) = 0
<1>1. Units(f, {}) = {}
  BY DEF Units
<1>. QED  BY <1>1, FS_EmptySet DEF SumOver

\* The sum over one is its amount.
LEMMA SumOfOne ==
    ASSUME NEW f, NEW x, f[x] \in Nat
    PROVE  SumOver(f, {x}) = f[x]
<1>1. Units(f, {x}) = {x} \X (1..f[x])
  BY DEF Units
<1>. QED  BY <1>1, UnitsOfOne DEF SumOver

(***************************************************************************)
(* Only the values on the set matter.                                      *)
(***************************************************************************)
LEMMA SumCongruence ==
    ASSUME NEW f, NEW g, NEW S, \A x \in S : f[x] = g[x]
    PROVE  SumOver(f, S) = SumOver(g, S)
<1>1. Units(f, S) = Units(g, S)
  BY DEF Units
<1>. QED  BY <1>1 DEF SumOver

\* A sum over two disjoint sets is the sum of their sums.
LEMMA SumOfDisjoint ==
    ASSUME NEW T, NEW f \in [T -> Nat], NEW R \in SUBSET T, NEW S \in SUBSET T,
           IsFiniteSet(R), IsFiniteSet(S), R \cap S = {}
    PROVE  SumOver(f, R \cup S) = SumOver(f, R) + SumOver(f, S)
<1>1. Units(f, R \cup S) = Units(f, R) \cup Units(f, S)
  BY DEF Units
<1>2. Units(f, R) \cap Units(f, S) = {}
  <2>. SUFFICES ASSUME NEW u \in Units(f, R), u \in Units(f, S) PROVE FALSE
    OBVIOUS
  <2>1. PICK x \in R : u \in {x} \X (1..f[x])
    BY DEF Units
  <2>2. PICK y \in S : u \in {y} \X (1..f[y])
    BY DEF Units
  <2>3. x = y
    BY <2>1, <2>2
  <2>. QED  BY <2>3
<1>3. IsFiniteSet(Units(f, R)) /\ IsFiniteSet(Units(f, S))
  BY UnitsFinite
<1>4. Cardinality(Units(f, R)) \in Nat /\ Cardinality(Units(f, S)) \in Nat
  BY <1>3, FS_CardinalityType
<1>5. Cardinality(Units(f, R) \cup Units(f, S)) =
        Cardinality(Units(f, R)) + Cardinality(Units(f, S)) - Cardinality({})
  BY <1>2, <1>3, FS_Union
<1>6. Cardinality({}) = 0
  BY FS_EmptySet
<1>7. Cardinality(Units(f, R) \cup Units(f, S)) =
        Cardinality(Units(f, R)) + Cardinality(Units(f, S))
  BY <1>4, <1>5, <1>6, SMT
<1>. QED  BY <1>1, <1>7, Zenon DEF SumOver

(***************************************************************************)
(* A sum grows with its function and with its set.                         *)
(***************************************************************************)
LEMMA SumMonotone ==
    ASSUME NEW T, NEW f \in [T -> Nat], NEW g \in [T -> Nat],
           NEW S \in SUBSET T, IsFiniteSet(S), NEW R \in SUBSET S,
           \A x \in R : f[x] <= g[x]
    PROVE  SumOver(f, R) <= SumOver(g, S)
<1>1. \A x \in R : f[x] \in Nat /\ g[x] \in Nat
  OBVIOUS
<1>2. \A x \in R : 1..f[x] \subseteq 1..g[x]
  BY <1>1, SMT
<1>3. Units(f, R) \subseteq Units(g, S)
  BY <1>2 DEF Units
<1>. QED  BY <1>3, UnitsFinite, FS_Subset DEF SumOver

(***************************************************************************)
(* One term changes: the rest of the sum stays.                            *)
(***************************************************************************)
LEMMA SumWithout ==
    ASSUME NEW T, NEW f \in [T -> Nat], NEW S \in SUBSET T, IsFiniteSet(S), NEW x \in S
    PROVE  SumOver(f, S) = SumOver(f, S \ {x}) + f[x]
<1>1. S = (S \ {x}) \cup {x} /\ (S \ {x}) \cap {x} = {}
  OBVIOUS
<1>2. IsFiniteSet(S \ {x}) /\ IsFiniteSet({x})
  BY FS_RemoveElement, FS_Singleton
<1>. HIDE DEF SumOver
<1>3. SumOver(f, (S \ {x}) \cup {x}) = SumOver(f, S \ {x}) + SumOver(f, {x})
  BY <1>1, <1>2, SumOfDisjoint
<1>. QED  BY <1>1, <1>3, SumOfOne

\* Changing one amount changes the sum by as much.
LEMMA SumUpdate ==
    ASSUME NEW T, NEW f \in [T -> Nat], NEW g \in [T -> Nat],
           NEW S \in SUBSET T, IsFiniteSet(S), NEW x \in S,
           \A y \in S \ {x} : g[y] = f[y]
    PROVE  SumOver(g, S) + f[x] = SumOver(f, S) + g[x]
<1>1. SumOver(g, S \ {x}) = SumOver(f, S \ {x})
  BY SumCongruence
<1>2. /\ SumOver(f, S) = SumOver(f, S \ {x}) + f[x]
      /\ SumOver(g, S) = SumOver(g, S \ {x}) + g[x]
  BY SumWithout
<1>3. IsFiniteSet(S \ {x}) /\ SumOver(f, S \ {x}) \in Nat
  BY FS_RemoveElement, SumType
<1>. QED  BY <1>1, <1>2, <1>3, SMT

-----------------------------------------------------------------------------
(* Induction, stated with sets so that it can be cited.                     *)

Below == {p \in Nat \X Nat : p[1] < p[2]}

\* A set of naturals that is not empty has a least element.
LEMMA LeastElement ==
    ASSUME NEW T \in SUBSET Nat, T # {}
    PROVE  \E m \in T : \A n \in T : m <= n
<1>1. IsWellFoundedOn(Below, Nat)
  BY NatLessThanWellFounded DEF OpToRel, Below
<1>2. PICK m \in T : \A n \in T : <<n, m>> \notin Below
  BY <1>1, WFMin
<1>3. ASSUME NEW n \in T PROVE m <= n
  <2>1. ~(n < m)
    BY <1>2 DEF Below
  <2>. QED BY <2>1, SMT
<1>. QED BY <1>3

\* What holds of the empty set and survives one more element holds of every
\* finite set; B is the set of those subsets it holds of.
LEMMA SubsetInduction ==
    ASSUME NEW S, IsFiniteSet(S), NEW B, {} \in B,
           \A R \in SUBSET S : R \in B => \A x \in S \ R : R \cup {x} \in B
    PROVE  S \in B
<1>. DEFINE Missing == {R \in SUBSET S : S \ R \in B}
            Sizes   == {Cardinality(R) : R \in Missing}
<1>1. \A R \in SUBSET S : IsFiniteSet(R) /\ Cardinality(R) \in Nat
  BY FS_Subset, FS_CardinalityType
<1>2. S \in Missing
  <2>1. S \ S = {}
    OBVIOUS
  <2>. QED BY <2>1
<1>3. Sizes \in SUBSET Nat /\ Sizes # {}
  BY <1>1, <1>2
<1>. HIDE DEF Sizes
<1>4. PICK m \in Sizes : \A n \in Sizes : m <= n
  BY <1>3, LeastElement
<1>5. PICK R \in Missing : m = Cardinality(R)
  BY DEF Sizes
<1>6. R = {}
  <2>. SUFFICES ASSUME NEW x \in R PROVE FALSE
    OBVIOUS
  <2>1. S \ (R \ {x}) = (S \ R) \cup {x} /\ x \in S \ (S \ R)
    OBVIOUS
  <2>2. R \ {x} \in Missing
    BY <2>1
  <2>3. Cardinality(R \ {x}) = Cardinality(R) - 1
    BY <1>1, FS_RemoveElement
  <2>4. Cardinality(R \ {x}) \in Sizes
    BY <2>2 DEF Sizes
  <2>. QED BY <1>1, <1>4, <1>5, <2>3, <2>4, SMT
<1>7. S \ {} = S
  OBVIOUS
<1>. QED BY <1>5, <1>6, <1>7, Zenon
-----------------------------------------------------------------------------
(* Sums, by induction on the set.                                           *)

\* One more element.
LEMMA SumWith ==
    ASSUME NEW T, NEW f \in [T -> Nat], NEW S \in SUBSET T, IsFiniteSet(S),
           NEW R \in SUBSET S, NEW x \in S \ R
    PROVE  /\ IsFiniteSet(R) /\ SumOver(f, R) \in Nat /\ f[x] \in Nat
           /\ SumOver(f, R \cup {x}) = SumOver(f, R) + f[x]
<1>1. (R \cup {x}) \ {x} = R /\ x \in R \cup {x} /\ R \cup {x} \in SUBSET T
  OBVIOUS
<1>2. IsFiniteSet(R \cup {x}) /\ IsFiniteSet(R)
  BY FS_Subset
<1>. QED BY <1>1, <1>2, SumWithout, SumType

\* The sum of two functions; the parts of c that f has of d, rounded down.
PlusOf(T, f, g) == [x \in T |-> f[x] + g[x]]
PartsOf(T, f, c, d) == [x \in T |-> (f[x] * c) \div d]

\* Sums of sums.
LEMMA SumPlus ==
    ASSUME NEW T, NEW f \in [T -> Nat], NEW g \in [T -> Nat],
           NEW S \in SUBSET T, IsFiniteSet(S)
    PROVE  SumOver(PlusOf(T, f, g), S) = SumOver(f, S) + SumOver(g, S)
<1>. DEFINE h == PlusOf(T, f, g)
            B == {R \in SUBSET S : SumOver(h, R) = SumOver(f, R) + SumOver(g, R)}
<1>1. h \in [T -> Nat] /\ \A x \in S : h[x] = f[x] + g[x]
  BY SMT DEF PlusOf
<1>2. {} \in B
  BY SumOfNone, SMT
<1>. HIDE DEF h
<1>3. ASSUME NEW R \in SUBSET S, R \in B, NEW x \in S \ R
      PROVE  R \cup {x} \in B
  <2>1. SumOver(f, R \cup {x}) = SumOver(f, R) + f[x] /\ SumOver(f, R) \in Nat /\ f[x] \in Nat
    BY SumWith
  <2>2. SumOver(g, R \cup {x}) = SumOver(g, R) + g[x] /\ SumOver(g, R) \in Nat /\ g[x] \in Nat
    BY SumWith
  <2>3. SumOver(h, R \cup {x}) = SumOver(h, R) + h[x]
    BY <1>1, SumWith
  <2>4. SumOver(h, R) = SumOver(f, R) + SumOver(g, R) /\ h[x] = f[x] + g[x]
    BY <1>1, <1>3
  <2>. QED BY <2>1, <2>2, <2>3, <2>4, SMT
<1>. HIDE DEF B
<1>4. S \in B
  BY <1>2, <1>3, SubsetInduction
<1>. QED BY <1>4 DEF B, h

\* A factor comes out of a sum.
LEMMA SumScaled ==
    ASSUME NEW T, NEW f \in [T -> Nat], NEW g \in [T -> Nat], NEW k \in Nat,
           NEW S \in SUBSET T, IsFiniteSet(S), \A x \in S : g[x] = f[x] * k
    PROVE  SumOver(g, S) = SumOver(f, S) * k
<1>. DEFINE B == {R \in SUBSET S : SumOver(g, R) = SumOver(f, R) * k}
<1>1. {} \in B
  BY SumOfNone, SMT
<1>2. ASSUME NEW R \in SUBSET S, R \in B, NEW x \in S \ R
      PROVE  R \cup {x} \in B
  <2>1. SumOver(f, R \cup {x}) = SumOver(f, R) + f[x] /\ SumOver(f, R) \in Nat /\ f[x] \in Nat
    BY SumWith
  <2>2. SumOver(g, R \cup {x}) = SumOver(g, R) + g[x]
    BY SumWith
  <2>3. SumOver(g, R) = SumOver(f, R) * k /\ g[x] = f[x] * k
    BY <1>2
  <2>4. (SumOver(f, R) + f[x]) * k = SumOver(f, R) * k + f[x] * k
    BY <2>1, SMT
  <2>. QED BY <2>1, <2>2, <2>3, <2>4, Zenon
<1>. HIDE DEF B
<1>3. S \in B
  BY <1>1, <1>2, SubsetInduction
<1>. QED BY <1>3 DEF B

\* Shares rounded down lose less than one unit each: with d the total of the
\* parts, shares of c add up to c at most, and to c less their number at least.
LEMMA SumOfShares ==
    ASSUME NEW T, NEW f \in [T -> Nat], NEW c \in Nat, NEW d \in Nat \ {0},
           NEW S \in SUBSET T, IsFiniteSet(S), SumOver(f, S) = d
    PROVE  /\ SumOver(PartsOf(T, f, c, d), S) <= c
           /\ c <= SumOver(PartsOf(T, f, c, d), S) + Cardinality(S)
<1>. DEFINE share == PartsOf(T, f, c, d)
           B == {R \in SUBSET S : /\ SumOver(share, R) * d <= SumOver(f, R) * c
                                  /\ SumOver(f, R) * c <= (SumOver(share, R) + Cardinality(R)) * d}
<1>0. share \in [T -> Nat] /\ \A x \in S : share[x] = (f[x] * c) \div d
  <2>. SUFFICES ASSUME NEW x \in T PROVE (f[x] * c) \div d \in Nat
    BY DEF PartsOf
  <2>1. f[x] * c \in Nat
    BY SMT
  <2>. HIDE DEF share
  <2>. QED BY <2>1, SMT
<1>1. {} \in B
  BY SumOfNone, FS_EmptySet, SMT
<1>. HIDE DEF share
<1>2. ASSUME NEW R \in SUBSET S, R \in B, NEW x \in S \ R
      PROVE  R \cup {x} \in B
  <2>1. SumOver(f, R \cup {x}) = SumOver(f, R) + f[x] /\ SumOver(f, R) \in Nat /\ f[x] \in Nat
    BY SumWith
  <2>2. /\ SumOver(share, R \cup {x}) = SumOver(share, R) + share[x]
        /\ SumOver(share, R) \in Nat /\ share[x] \in Nat
    BY <1>0, SumWith
  <2>3. /\ IsFiniteSet(R) /\ Cardinality(R) \in Nat
        /\ Cardinality(R \cup {x}) = Cardinality(R) + 1
    BY FS_Subset, FS_AddElement, FS_CardinalityType
  <2>. DEFINE sf == SumOver(f, R)
              ss == SumOver(share, R)
              k  == Cardinality(R)
              a  == f[x]
              q  == share[x]
  <2>4. sf \in Nat /\ ss \in Nat /\ k \in Nat /\ a \in Nat /\ q \in Nat /\ q = (a * c) \div d
    BY <1>0, <2>1, <2>2, <2>3
  <2>5. ss * d <= sf * c /\ sf * c <= (ss + k) * d
    BY <1>2
  <2>. HIDE DEF sf, ss, k, a, q
  <2>6. q * d <= a * c /\ a * c <= q * d + d
    <3>. DEFINE p == a * c
    <3>1. p \in Nat
      BY <2>4, SMT
    <3>2. q = p \div d
      BY <2>4
    <3>. HIDE DEF p
    <3>3. q * d <= p /\ p <= q * d + d
      BY <2>4, <3>1, <3>2, SMT
    <3>. QED BY <3>3 DEF p
  <2>7. /\ (ss + q) * d = ss * d + q * d
        /\ (sf + a) * c = sf * c + a * c
        /\ (ss + q + (k + 1)) * d = (ss + k) * d + q * d + d
    BY <2>4, SMT
  <2>8. {ss * d, q * d, sf * c, a * c, (ss + k) * d, (ss + q + (k + 1)) * d,
         (ss + q) * d, (sf + a) * c} \subseteq Nat
    BY <2>4, SMT
  <2>9. /\ (ss + q) * d <= (sf + a) * c
        /\ (sf + a) * c <= (ss + q + (k + 1)) * d
    BY <2>5, <2>6, <2>7, <2>8, SMT
  <2>. QED BY <2>1, <2>2, <2>3, <2>9 DEF sf, ss, k, a, q
<1>. HIDE DEF B
<1>3. S \in B
  BY <1>1, <1>2, SubsetInduction
<1>. DEFINE t == SumOver(share, S)
            k == Cardinality(S)
<1>4. t \in Nat /\ k \in Nat
  BY <1>0, SumType, FS_CardinalityType
<1>5. t * d <= d * c /\ d * c <= (t + k) * d
  BY <1>3 DEF B
<1>. HIDE DEF t, k
<1>6. ASSUME c < t PROVE FALSE
  <2>1. (c + 1) * d <= t * d
    BY <1>4, <1>6, SMT
  <2>2. (c + 1) * d = d * c + d
    BY SMT
  <2>3. d * c \in Nat /\ t * d \in Nat
    BY <1>4, SMT
  <2>. QED BY <1>5, <2>1, <2>2, <2>3, SMT
<1>7. ASSUME t + k < c PROVE FALSE
  <2>1. (t + k + 1) * d <= c * d
    BY <1>4, <1>7, SMT
  <2>2. (t + k + 1) * d = (t + k) * d + d /\ c * d = d * c
    BY <1>4, SMT
  <2>3. d * c \in Nat /\ (t + k) * d \in Nat
    BY <1>4, SMT
  <2>. QED BY <1>5, <2>1, <2>2, <2>3, SMT
<1>. QED BY <1>4, <1>6, <1>7, SMT DEF t, k, share

\* One element more, of a set on which f counts.
LEMMA SumInsert ==
    ASSUME NEW f, NEW P, IsFiniteSet(P), NEW x, x \notin P,
           \A y \in P : f[y] \in Nat, f[x] \in Nat
    PROVE  /\ IsFiniteSet(P \cup {x}) /\ SumOver(f, P) \in Nat
           /\ SumOver(f, P \cup {x}) = SumOver(f, P) + f[x]
<1>. DEFINE S == P \cup {x}
            g == [y \in S |-> f[y]]
<1>1. IsFiniteSet(S)
  BY FS_AddElement
<1>2. P \in SUBSET S /\ x \in S \ P /\ S = P \cup {x} /\ S \in SUBSET S
  OBVIOUS
<1>3. g \in [S -> Nat]
  OBVIOUS
<1>4. \A y \in S : f[y] = g[y]
  OBVIOUS
<1>. HIDE DEF S, g
<1>5. SumOver(f, P) = SumOver(g, P) /\ SumOver(f, S) = SumOver(g, S) /\ f[x] = g[x]
  BY <1>2, <1>4, SumCongruence
<1>6. SumOver(g, S) = SumOver(g, S \ {x}) + g[x]
  BY <1>1, <1>2, <1>3, SumWithout
<1>7. S \ {x} = P
  BY <1>2
<1>8. SumOver(g, P) \in Nat
  BY <1>1, <1>2, <1>3, SumType
<1>. QED BY <1>1, <1>2, <1>5, <1>6, <1>7, <1>8

\* Three more elements.
LEMMA SumWithThree ==
    ASSUME NEW T, NEW f \in [T -> Nat], NEW R \in SUBSET T, IsFiniteSet(R),
           NEW a \in T \ R, NEW b \in T \ R, NEW c \in T \ R, a # b, a # c, b # c
    PROVE  SumOver(f, ((R \cup {a}) \cup {b}) \cup {c}) = SumOver(f, R) + (f[a] + f[b] + f[c])
<1>. DEFINE Ra == R \cup {a}
            Rb == Ra \cup {b}
            Rc == Rb \cup {c}
<1>1. IsFiniteSet(Rc) /\ Rc \in SUBSET T
  BY FS_AddElement
<1>2. /\ R \in SUBSET Rc /\ Ra \in SUBSET Rc /\ Rb \in SUBSET Rc
      /\ a \in Rc \ R /\ b \in Rc \ Ra /\ c \in Rc \ Rb
  OBVIOUS
<1>. HIDE DEF Rc
<1>3. SumOver(f, Ra) = SumOver(f, R) + f[a] /\ SumOver(f, R) \in Nat /\ f[a] \in Nat
  BY <1>1, <1>2, SumWith
<1>. HIDE DEF Ra
<1>4. SumOver(f, Rb) = SumOver(f, Ra) + f[b] /\ f[b] \in Nat
  BY <1>1, <1>2, SumWith
<1>. HIDE DEF Rb
<1>5. SumOver(f, Rb \cup {c}) = SumOver(f, Rb) + f[c] /\ f[c] \in Nat
  BY <1>1, <1>2, SumWith
<1>6. SumOver(f, Rb \cup {c}) = SumOver(f, R) + (f[a] + f[b] + f[c])
  BY <1>3, <1>4, <1>5, SMT
<1>. QED BY <1>6 DEF Ra, Rb

\* A sum over pairs, grouped by the first component.
LEMMA SumByFirst ==
    ASSUME NEW U, IsFiniteSet(U), NEW f \in [U \X (0..2) -> Nat], NEW g \in [U -> Nat],
           \A u \in U : g[u] = f[<<u, 0>>] + f[<<u, 1>>] + f[<<u, 2>>]
    PROVE  SumOver(f, U \X (0..2)) = SumOver(g, U)
<1>. DEFINE B == {R \in SUBSET U : SumOver(f, R \X (0..2)) = SumOver(g, R)}
<1>1. {} \in B
  <2>1. {} \X (0..2) = {}
    OBVIOUS
  <2>. QED BY <2>1, SumOfNone
<1>2. ASSUME NEW R \in SUBSET U, R \in B, NEW x \in U \ R
      PROVE  R \cup {x} \in B
  <2>. DEFINE P == R \X (0..2)
              T == U \X (0..2)
  <2>1. /\ P \in SUBSET T
        /\ <<x, 0>> \in T \ P /\ <<x, 1>> \in T \ P /\ <<x, 2>> \in T \ P
        /\ <<x, 0>> # <<x, 1>> /\ <<x, 0>> # <<x, 2>> /\ <<x, 1>> # <<x, 2>>
    <3>1. 0..2 = {0, 1, 2}
      BY SMT
    <3>2. x \in U /\ x \notin R
      OBVIOUS
    <3>3. P \in SUBSET T
      OBVIOUS
    <3>4. <<x, 0>> \in T /\ <<x, 1>> \in T /\ <<x, 2>> \in T
      BY <3>1, <3>2
    <3>5. <<x, 0>> \notin P /\ <<x, 1>> \notin P /\ <<x, 2>> \notin P
      BY <3>2
    <3>6. <<x, 0>> # <<x, 1>> /\ <<x, 0>> # <<x, 2>> /\ <<x, 1>> # <<x, 2>>
      BY SMT
    <3>. QED BY <3>3, <3>4, <3>5, <3>6
  <2>2. (R \cup {x}) \X (0..2) = ((P \cup {<<x, 0>>}) \cup {<<x, 1>>}) \cup {<<x, 2>>}
    <3>1. 0..2 = {0, 1, 2}
      BY SMT
    <3>. QED BY <3>1
  <2>3. IsFiniteSet(R) /\ IsFiniteSet(0..2)
    BY FS_Subset, FS_Interval, 0 \in Int, 2 \in Int, Zenon
  <2>4. IsFiniteSet(P)
    BY <2>3, FS_Product
  <2>5. f \in [T -> Nat]
    OBVIOUS
  <2>. HIDE DEF P, T
  <2>6. SumOver(f, (R \cup {x}) \X (0..2)) = SumOver(f, P) + (f[<<x, 0>>] + f[<<x, 1>>] + f[<<x, 2>>])
    <3>. DEFINE p == <<x, 0>>
                q == <<x, 1>>
                r == <<x, 2>>
    <3>1. /\ P \in SUBSET T /\ p \in T \ P /\ q \in T \ P /\ r \in T \ P
          /\ p # q /\ p # r /\ q # r
      BY <2>1
    <3>. HIDE DEF p, q, r
    <3>2. \A t \in T : f[t] \in Nat
      BY <2>5
    <3>. DEFINE Pp == P \cup {p}
                Pq == Pp \cup {q}
    <3>3. /\ SumOver(f, P \cup {p}) = SumOver(f, P) + f[p] /\ SumOver(f, P) \in Nat
          /\ IsFiniteSet(P \cup {p})
      BY <2>4, <3>1, <3>2, SumInsert
    <3>4. Pp \in SUBSET T /\ q \in T \ Pp /\ r \in T \ Pp /\ IsFiniteSet(Pp)
      BY <3>1, <3>3
    <3>. HIDE DEF Pp
    <3>5. SumOver(f, Pp \cup {q}) = SumOver(f, Pp) + f[q] /\ IsFiniteSet(Pp \cup {q})
      BY <3>2, <3>4, SumInsert
    <3>6. Pq \in SUBSET T /\ r \in T \ Pq /\ IsFiniteSet(Pq)
      BY <3>1, <3>4, <3>5
    <3>. HIDE DEF Pq
    <3>7. SumOver(f, Pq \cup {r}) = SumOver(f, Pq) + f[r]
      BY <3>2, <3>6, SumInsert
    <3>8. f[p] \in Nat /\ f[q] \in Nat /\ f[r] \in Nat
      BY <3>1, <3>2
    <3>9. SumOver(f, Pq \cup {r}) = SumOver(f, P) + (f[p] + f[q] + f[r])
      BY <3>3, <3>5, <3>7, <3>8 DEF Pp, Pq
    <3>. QED BY <2>2, <3>9, Zenon DEF Pp, Pq, p, q, r
  <2>7. SumOver(g, R \cup {x}) = SumOver(g, R) + g[x]
    BY SumWith
  <2>8. SumOver(f, P) = SumOver(g, R) /\ g[x] = f[<<x, 0>>] + f[<<x, 1>>] + f[<<x, 2>>]
    BY <1>2 DEF P
  <2>9. SumOver(f, (R \cup {x}) \X (0..2)) = SumOver(g, R \cup {x})
    BY <2>6, <2>7, <2>8, Zenon
  <2>. QED BY <2>9
<1>. HIDE DEF B
<1>3. U \in B
  BY <1>1, <1>2, SubsetInduction
<1>. QED BY <1>3 DEF B

\* A sum of zeros.
LEMMA SumOfZeros ==
    ASSUME NEW f, NEW S, \A x \in S : f[x] = 0
    PROVE  SumOver(f, S) = 0
<1>1. Units(f, S) = {}
  <2>1. ASSUME NEW x \in S PROVE {x} \X (1..f[x]) = {}
    <3>1. f[x] = 0
      OBVIOUS
    <3>2. 1..f[x] = {}
      BY <3>1
    <3>. QED BY <3>2
  <2>. QED BY <2>1, Zenon DEF Units
<1>. QED BY <1>1, FS_EmptySet DEF SumOver

\* A set has no more elements than its sum has units, if each has one.
LEMMA SumCounts ==
    ASSUME NEW T, NEW f \in [T -> Nat], NEW S \in SUBSET T, IsFiniteSet(S),
           \A x \in S : f[x] >= 1
    PROVE  Cardinality(S) <= SumOver(f, S)
<1>. DEFINE B == {R \in SUBSET S : Cardinality(R) <= SumOver(f, R)}
<1>1. {} \in B
  BY SumOfNone, FS_EmptySet, SMT
<1>2. ASSUME NEW R \in SUBSET S, R \in B, NEW x \in S \ R
      PROVE  R \cup {x} \in B
  <2>. HIDE DEF B
  <2>1. SumOver(f, R \cup {x}) = SumOver(f, R) + f[x] /\ SumOver(f, R) \in Nat /\ f[x] \in Nat
    <3>1. IsFiniteSet(R) /\ x \notin R /\ f[x] \in Nat /\ \A y \in R : f[y] \in Nat
      BY FS_Subset
    <3>. QED BY <3>1, SumInsert
  <2>. USE DEF B
  <2>2. Cardinality(R) \in Nat /\ Cardinality(R \cup {x}) = Cardinality(R) + 1
    BY FS_Subset, FS_AddElement, FS_CardinalityType
  <2>3. f[x] >= 1 /\ Cardinality(R) <= SumOver(f, R)
    BY <1>2
  <2>. QED BY <2>1, <2>2, <2>3, SMT
<1>. HIDE DEF B
<1>3. S \in B
  BY <1>1, <1>2, SubsetInduction
<1>. QED BY <1>3 DEF B

\* A sum of ones and zeros counts no more than the elements of the set.
LEMMA SumOfFlags ==
    ASSUME NEW T, NEW f \in [T -> Nat], NEW S \in SUBSET T, IsFiniteSet(S),
           \A x \in S : f[x] <= 1
    PROVE  SumOver(f, S) <= Cardinality(S)
<1>. DEFINE B == {R \in SUBSET S : SumOver(f, R) <= Cardinality(R)}
<1>1. {} \in B
  BY SumOfNone, FS_EmptySet, SMT
<1>2. ASSUME NEW R \in SUBSET S, R \in B, NEW x \in S \ R
      PROVE  R \cup {x} \in B
  <2>. HIDE DEF B
  <2>1. SumOver(f, R \cup {x}) = SumOver(f, R) + f[x] /\ SumOver(f, R) \in Nat /\ f[x] \in Nat
    <3>1. IsFiniteSet(R) /\ x \notin R /\ f[x] \in Nat /\ \A y \in R : f[y] \in Nat
      BY FS_Subset
    <3>. QED BY <3>1, SumInsert
  <2>. USE DEF B
  <2>2. Cardinality(R) \in Nat /\ Cardinality(R \cup {x}) = Cardinality(R) + 1
    BY FS_Subset, FS_AddElement, FS_CardinalityType
  <2>3. f[x] <= 1 /\ SumOver(f, R) <= Cardinality(R)
    BY <1>2
  <2>. QED BY <2>1, <2>2, <2>3, SMT
<1>. HIDE DEF B
<1>3. S \in B
  BY <1>1, <1>2, SubsetInduction
<1>. QED BY <1>3 DEF B

-----------------------------------------------------------------------------
(* Arithmetic *)

\* Quotients and products grow with their operands.
LEMMA DivMonotone ==
    ASSUME NEW a \in Nat, NEW b \in Nat, a <= b, NEW c \in Nat \ {0}
    PROVE  a \div c \in Nat /\ a \div c <= b \div c
<1>. DEFINE p == a \div c
            q == b \div c
<1>1. p \in Nat /\ q \in Nat
  BY SMT
<1>2. p * c <= a
  BY SMT
<1>3. b < (q + 1) * c
  BY SMT
<1>. HIDE DEF p, q
<1>4. ASSUME q < p PROVE FALSE
  <2>1. q + 1 <= p
    BY <1>1, <1>4, SMT
  <2>2. (q + 1) * c <= p * c
    BY <1>1, <2>1, SMT
  <2>. QED  BY <1>1, <1>2, <1>3, <2>2, SMT
<1>5. p <= q
  BY <1>1, <1>4, SMT
<1>. QED  BY <1>1, <1>5 DEF p, q

\* A product grows with a factor.
LEMMA ProductMonotone ==
    ASSUME NEW a \in Nat, NEW b \in Nat, a <= b, NEW c \in Nat
    PROVE  c * a \in Nat /\ c * b \in Nat /\ c * a <= c * b
  BY SMT

\* A quotient times its divisor stays within the dividend, and is the largest such.
LEMMA DivBounds ==
    ASSUME NEW a \in Nat, NEW c \in Nat \ {0}
    PROVE  /\ a \div c \in Nat /\ (a \div c) * c <= a
           /\ \A n \in Nat : n * c <= a => n <= a \div c
<1>. DEFINE q == a \div c
<1>1. q \in Nat /\ q * c <= a /\ a < (q + 1) * c
  BY SMT
<1>. HIDE DEF q
<1>2. ASSUME NEW n \in Nat, n * c <= a, q < n PROVE FALSE
  <2>1. q + 1 <= n
    BY <1>1, <1>2, SMT
  <2>2. (q + 1) * c <= n * c
    BY <1>1, <2>1, SMT
  <2>. QED  BY <1>1, <1>2, <2>2, SMT
<1>3. \A n \in Nat : n * c <= a => n <= q
  BY <1>1, <1>2, SMT
<1>. QED  BY <1>1, <1>3 DEF q

=============================================================================
