---------------------------- MODULE PoolProofs ----------------------------
(***************************************************************************)
(* What holds of the pool's trees, notes and money for every depth of tree, *)
(* set of amounts and of accounts, fee cap and size of batch.               *)
(***************************************************************************)
EXTENDS PrivacyPool, NaturalSumLemmas, SequenceTheorems

-----------------------------------------------------------------------------
(* Functions defined by recursion: each exists, by induction on the length  *)
(* of its domain, and so satisfies its equation.                            *)

\* What holds of 0 and of every next number holds up to any number.
LEMMA UpwardInduction ==
    ASSUME NEW n \in Nat, NEW B, 0 \in B, \A m \in 0..n : m \in B /\ m < n => m + 1 \in B
    PROVE  0..n \subseteq B
<1>. DEFINE Out == {m \in 0..n : m \notin B}
<1>. SUFFICES ASSUME Out # {} PROVE FALSE
  OBVIOUS
<1>1. Out \in SUBSET Nat
  BY SMT
<1>2. PICK m \in Out : \A k \in Out : m <= k
  BY <1>1, LeastElement
<1>3. m # 0 /\ m - 1 \in 0..n /\ m - 1 < n /\ m - 1 + 1 = m /\ ~(m <= m - 1)
  BY <1>2, SMT
<1>4. m - 1 \in B
  BY <1>2, <1>3
<1>. QED BY <1>2, <1>3, <1>4

IsPowers(f, n) ==
    f = [level \in 0..n |->
            IF level = 0 THEN 1
            ELSE 2 * f[level - 1]]

\* Powers of two up to any level.
LEMMA PowersExist ==
    ASSUME NEW n \in Nat
    PROVE  \E f : IsPowers(f, n)
<1>. DEFINE B == {m \in 0..n : \E f : IsPowers(f, m)}
<1>1. 0 \in B
  <2>. DEFINE f == [level \in 0..0 |-> 1]
  <2>1. IsPowers(f, 0)
    BY SMT DEF IsPowers
  <2>. QED BY <2>1
<1>2. ASSUME NEW m \in 0..n, m \in B, m < n PROVE m + 1 \in B
  <2>1. PICK f : IsPowers(f, m)
    BY <1>2
  <2>. DEFINE g == [level \in 0..m + 1 |-> IF level <= m THEN f[level] ELSE 2 * f[m]]
  <2>2. /\ \A level \in 0..m : g[level] = f[level]
        /\ g[m + 1] = 2 * f[m]
        /\ g = [level \in 0..m + 1 |-> g[level]]
    BY SMT
  <2>. HIDE DEF g
  <2>3. ASSUME NEW level \in 0..m + 1
        PROVE  g[level] = IF level = 0 THEN 1
                          ELSE 2 * g[level - 1]
    <3>1. CASE level = 0
      <4>1. 0 \in 0..m
        BY SMT
      <4>2. f[0] = 1
        BY <2>1, <4>1, Zenon DEF IsPowers
      <4>3. g[level] = f[0]
        BY <2>2, <3>1, <4>1, Zenon
      <4>. QED BY <3>1, <4>2, <4>3, Zenon
    <3>2. CASE level # 0 /\ level <= m
      <4>1. level \in 0..m /\ level - 1 \in 0..m
        BY <3>2, SMT
      <4>2. g[level] = f[level] /\ g[level - 1] = f[level - 1]
        BY <2>2, <4>1
      <4>3. f[level] = IF level = 0 THEN 1
                       ELSE 2 * f[level - 1]
        BY <2>1, <4>1, Zenon DEF IsPowers
      <4>. QED BY <3>2, <4>2, <4>3, Zenon
    <3>3. CASE level = m + 1
      <4>1. level - 1 = m /\ level # 0 /\ m \in 0..m
        BY <3>3, SMT
      <4>2. g[level - 1] = f[m]
        BY <2>2, <4>1
      <4>. QED BY <2>2, <3>3, <4>1, <4>2, Zenon
    <3>. QED BY <3>1, <3>2, <3>3, SMT
  <2>4. IsPowers(g, m + 1)
    BY <2>2, <2>3, Zenon DEF IsPowers
  <2>5. m + 1 \in 0..n
    BY <1>2, SMT
  <2>. QED BY <2>4, <2>5, Zenon
<1>. HIDE DEF B
<1>3. n \in B
  BY <1>1, <1>2, UpwardInduction, SMT
<1>. QED BY <1>3 DEF B

IsZeros(f, n) ==
    f = [level \in 0..n |->
            IF level = 0 THEN ZeroValue
            ELSE HashLeftRight(f[level - 1], f[level - 1])]

\* The roots of the empty trees of every depth.
LEMMA ZerosExist ==
    ASSUME NEW n \in Nat
    PROVE  \E f : IsZeros(f, n)
<1>. DEFINE B == {m \in 0..n : \E f : IsZeros(f, m)}
<1>1. 0 \in B
  <2>. DEFINE f == [level \in 0..0 |-> ZeroValue]
  <2>1. IsZeros(f, 0)
    BY SMT DEF IsZeros
  <2>. QED BY <2>1
<1>2. ASSUME NEW m \in 0..n, m \in B, m < n PROVE m + 1 \in B
  <2>1. PICK f : IsZeros(f, m)
    BY <1>2
  <2>. DEFINE g == [level \in 0..m + 1 |-> IF level <= m THEN f[level] ELSE HashLeftRight(f[m], f[m])]
  <2>2. /\ \A level \in 0..m : g[level] = f[level]
        /\ g[m + 1] = HashLeftRight(f[m], f[m])
        /\ g = [level \in 0..m + 1 |-> g[level]]
    BY SMT
  <2>. HIDE DEF g
  <2>3. ASSUME NEW level \in 0..m + 1
        PROVE  g[level] = IF level = 0 THEN ZeroValue
                          ELSE HashLeftRight(g[level - 1], g[level - 1])
    <3>1. CASE level = 0
      <4>1. 0 \in 0..m
        BY SMT
      <4>2. f[0] = ZeroValue
        BY <2>1, <4>1, Zenon DEF IsZeros
      <4>3. g[level] = f[0]
        BY <2>2, <3>1, <4>1, Zenon
      <4>. QED BY <3>1, <4>2, <4>3, Zenon
    <3>2. CASE level # 0 /\ level <= m
      <4>1. level \in 0..m /\ level - 1 \in 0..m
        BY <3>2, SMT
      <4>2. g[level] = f[level] /\ g[level - 1] = f[level - 1]
        BY <2>2, <4>1
      <4>3. f[level] = IF level = 0 THEN ZeroValue
                       ELSE HashLeftRight(f[level - 1], f[level - 1])
        BY <2>1, <4>1, Zenon DEF IsZeros
      <4>. QED BY <3>2, <4>2, <4>3, Zenon
    <3>3. CASE level = m + 1
      <4>1. level - 1 = m /\ level # 0 /\ m \in 0..m
        BY <3>3, SMT
      <4>2. g[level - 1] = f[m]
        BY <2>2, <4>1
      <4>. QED BY <2>2, <3>3, <4>1, <4>2, Zenon
    <3>. QED BY <3>1, <3>2, <3>3, SMT
  <2>4. IsZeros(g, m + 1)
    BY <2>2, <2>3, Zenon DEF IsZeros
  <2>5. m + 1 \in 0..n
    BY <1>2, SMT
  <2>. QED BY <2>4, <2>5, Zenon
<1>. HIDE DEF B
<1>3. n \in B
  BY <1>1, <1>2, UpwardInduction, SMT
<1>. QED BY <1>3 DEF B

IsAncestry(f, n, index) ==
    f = [level \in 0..n |->
            IF level = 0 THEN index
            ELSE f[level - 1] \div 2]

\* The indices above a leaf.
LEMMA AncestryExist ==
    ASSUME NEW index, NEW n \in Nat
    PROVE  \E f : IsAncestry(f, n, index)
<1>. DEFINE B == {m \in 0..n : \E f : IsAncestry(f, m, index)}
<1>1. 0 \in B
  <2>. DEFINE f == [level \in 0..0 |-> index]
  <2>1. IsAncestry(f, 0, index)
    BY SMT DEF IsAncestry
  <2>. QED BY <2>1
<1>2. ASSUME NEW m \in 0..n, m \in B, m < n PROVE m + 1 \in B
  <2>1. PICK f : IsAncestry(f, m, index)
    BY <1>2
  <2>. DEFINE g == [level \in 0..m + 1 |-> IF level <= m THEN f[level] ELSE f[m] \div 2]
  <2>2. /\ \A level \in 0..m : g[level] = f[level]
        /\ g[m + 1] = f[m] \div 2
        /\ g = [level \in 0..m + 1 |-> g[level]]
    BY SMT
  <2>. HIDE DEF g
  <2>3. ASSUME NEW level \in 0..m + 1
        PROVE  g[level] = IF level = 0 THEN index
                          ELSE g[level - 1] \div 2
    <3>1. CASE level = 0
      <4>1. 0 \in 0..m
        BY SMT
      <4>2. f[0] = index
        BY <2>1, <4>1, Zenon DEF IsAncestry
      <4>3. g[level] = f[0]
        BY <2>2, <3>1, <4>1, Zenon
      <4>. QED BY <3>1, <4>2, <4>3, Zenon
    <3>2. CASE level # 0 /\ level <= m
      <4>1. level \in 0..m /\ level - 1 \in 0..m
        BY <3>2, SMT
      <4>2. g[level] = f[level] /\ g[level - 1] = f[level - 1]
        BY <2>2, <4>1
      <4>3. f[level] = IF level = 0 THEN index
                       ELSE f[level - 1] \div 2
        BY <2>1, <4>1, Zenon DEF IsAncestry
      <4>. QED BY <3>2, <4>2, <4>3, Zenon
    <3>3. CASE level = m + 1
      <4>1. level - 1 = m /\ level # 0 /\ m \in 0..m
        BY <3>3, SMT
      <4>2. g[level - 1] = f[m]
        BY <2>2, <4>1
      <4>. QED BY <2>2, <3>3, <4>1, <4>2, Zenon
    <3>. QED BY <3>1, <3>2, <3>3, SMT
  <2>4. IsAncestry(g, m + 1, index)
    BY <2>2, <2>3, Zenon DEF IsAncestry
  <2>5. m + 1 \in 0..n
    BY <1>2, SMT
  <2>. QED BY <2>4, <2>5, Zenon
<1>. HIDE DEF B
<1>3. n \in B
  BY <1>1, <1>2, UpwardInduction, SMT
<1>. QED BY <1>3 DEF B

IsRows(f, n, appended) ==
    f = [level \in 0..n |->
            IF level = 0 THEN [i \in Nat |-> IF i < Len(appended) THEN appended[i + 1] ELSE ZeroValue]
            ELSE [i \in Nat |-> HashLeftRight(f[level - 1][2 * i], f[level - 1][2 * i + 1])]]

\* The levels of a tree.
LEMMA RowsExist ==
    ASSUME NEW appended, NEW n \in Nat
    PROVE  \E f : IsRows(f, n, appended)
<1>. DEFINE B == {m \in 0..n : \E f : IsRows(f, m, appended)}
<1>1. 0 \in B
  <2>. DEFINE f == [level \in 0..0 |-> [i \in Nat |-> IF i < Len(appended) THEN appended[i + 1] ELSE ZeroValue]]
  <2>1. IsRows(f, 0, appended)
    BY SMT DEF IsRows
  <2>. QED BY <2>1
<1>2. ASSUME NEW m \in 0..n, m \in B, m < n PROVE m + 1 \in B
  <2>1. PICK f : IsRows(f, m, appended)
    BY <1>2
  <2>. DEFINE g == [level \in 0..m + 1 |-> IF level <= m THEN f[level] ELSE [i \in Nat |-> HashLeftRight(f[m][2 * i], f[m][2 * i + 1])]]
  <2>2. /\ \A level \in 0..m : g[level] = f[level]
        /\ g[m + 1] = [i \in Nat |-> HashLeftRight(f[m][2 * i], f[m][2 * i + 1])]
        /\ g = [level \in 0..m + 1 |-> g[level]]
    BY SMT
  <2>. HIDE DEF g
  <2>3. ASSUME NEW level \in 0..m + 1
        PROVE  g[level] = IF level = 0 THEN [i \in Nat |-> IF i < Len(appended) THEN appended[i + 1] ELSE ZeroValue]
                          ELSE [i \in Nat |-> HashLeftRight(g[level - 1][2 * i], g[level - 1][2 * i + 1])]
    <3>1. CASE level = 0
      <4>1. 0 \in 0..m
        BY SMT
      <4>2. f[0] = [i \in Nat |-> IF i < Len(appended) THEN appended[i + 1] ELSE ZeroValue]
        BY <2>1, <4>1, Zenon DEF IsRows
      <4>3. g[level] = f[0]
        BY <2>2, <3>1, <4>1, Zenon
      <4>. QED BY <3>1, <4>2, <4>3, Zenon
    <3>2. CASE level # 0 /\ level <= m
      <4>1. level \in 0..m /\ level - 1 \in 0..m
        BY <3>2, SMT
      <4>2. g[level] = f[level] /\ g[level - 1] = f[level - 1]
        BY <2>2, <4>1
      <4>3. f[level] = IF level = 0 THEN [i \in Nat |-> IF i < Len(appended) THEN appended[i + 1] ELSE ZeroValue]
                       ELSE [i \in Nat |-> HashLeftRight(f[level - 1][2 * i], f[level - 1][2 * i + 1])]
        BY <2>1, <4>1, Zenon DEF IsRows
      <4>. QED BY <3>2, <4>2, <4>3, Zenon
    <3>3. CASE level = m + 1
      <4>1. level - 1 = m /\ level # 0 /\ m \in 0..m
        BY <3>3, SMT
      <4>2. g[level - 1] = f[m]
        BY <2>2, <4>1
      <4>. QED BY <2>2, <3>3, <4>1, <4>2, Zenon
    <3>. QED BY <3>1, <3>2, <3>3, SMT
  <2>4. IsRows(g, m + 1, appended)
    BY <2>2, <2>3, Zenon DEF IsRows
  <2>5. m + 1 \in 0..n
    BY <1>2, SMT
  <2>. QED BY <2>4, <2>5, Zenon
<1>. HIDE DEF B
<1>3. n \in B
  BY <1>1, <1>2, UpwardInduction, SMT
<1>. QED BY <1>3 DEF B

IsDescent(f, n, root, index) ==
    f = [level \in 0..n |->
            IF level = 0 THEN root
            ELSE f[level - 1][1 + (Above(index)[TreeDepth - level] % 2)]]

\* The way down from a root.
LEMMA DescentExist ==
    ASSUME NEW root, NEW index, NEW n \in Nat
    PROVE  \E f : IsDescent(f, n, root, index)
<1>. DEFINE B == {m \in 0..n : \E f : IsDescent(f, m, root, index)}
<1>1. 0 \in B
  <2>. DEFINE f == [level \in 0..0 |-> root]
  <2>1. IsDescent(f, 0, root, index)
    BY SMT DEF IsDescent
  <2>. QED BY <2>1
<1>2. ASSUME NEW m \in 0..n, m \in B, m < n PROVE m + 1 \in B
  <2>1. PICK f : IsDescent(f, m, root, index)
    BY <1>2
  <2>. DEFINE g == [level \in 0..m + 1 |-> IF level <= m THEN f[level] ELSE f[m][1 + (Above(index)[TreeDepth - (m + 1)] % 2)]]
  <2>2. /\ \A level \in 0..m : g[level] = f[level]
        /\ g[m + 1] = f[m][1 + (Above(index)[TreeDepth - (m + 1)] % 2)]
        /\ g = [level \in 0..m + 1 |-> g[level]]
    BY SMT
  <2>. HIDE DEF g
  <2>3. ASSUME NEW level \in 0..m + 1
        PROVE  g[level] = IF level = 0 THEN root
                          ELSE g[level - 1][1 + (Above(index)[TreeDepth - level] % 2)]
    <3>1. CASE level = 0
      <4>1. 0 \in 0..m
        BY SMT
      <4>2. f[0] = root
        BY <2>1, <4>1, Zenon DEF IsDescent
      <4>3. g[level] = f[0]
        BY <2>2, <3>1, <4>1, Zenon
      <4>. QED BY <3>1, <4>2, <4>3, Zenon
    <3>2. CASE level # 0 /\ level <= m
      <4>1. level \in 0..m /\ level - 1 \in 0..m
        BY <3>2, SMT
      <4>2. g[level] = f[level] /\ g[level - 1] = f[level - 1]
        BY <2>2, <4>1
      <4>3. f[level] = IF level = 0 THEN root
                       ELSE f[level - 1][1 + (Above(index)[TreeDepth - level] % 2)]
        BY <2>1, <4>1, Zenon DEF IsDescent
      <4>. QED BY <3>2, <4>2, <4>3, Zenon
    <3>3. CASE level = m + 1
      <4>1. level - 1 = m /\ level # 0 /\ m \in 0..m
        BY <3>3, SMT
      <4>2. g[level - 1] = f[m]
        BY <2>2, <4>1
      <4>. QED BY <2>2, <3>3, <4>1, <4>2, Zenon
    <3>. QED BY <3>1, <3>2, <3>3, SMT
  <2>4. IsDescent(g, m + 1, root, index)
    BY <2>2, <2>3, Zenon DEF IsDescent
  <2>5. m + 1 \in 0..n
    BY <1>2, SMT
  <2>. QED BY <2>4, <2>5, Zenon
<1>. HIDE DEF B
<1>3. n \in B
  BY <1>1, <1>2, UpwardInduction, SMT
<1>. QED BY <1>3 DEF B

\* Where an insertion starts.
Bottom(at, batch) ==
    [at |-> at, count |-> Len(batch),
     nodes |-> [i \in 0..Len(batch) - 1 |-> batch[i + 1]], filled |-> filledSubTrees]

IsClimb(f, n, at, batch) ==
    f = [level \in 0..n |->
            IF level = 0 THEN Bottom(at, batch)
            ELSE FoldLevel(f[level - 1], level - 1)]

\* The levels of an insertion.
LEMMA ClimbExist ==
    ASSUME NEW at, NEW batch, NEW n \in Nat
    PROVE  \E f : IsClimb(f, n, at, batch)
<1>. DEFINE B == {m \in 0..n : \E f : IsClimb(f, m, at, batch)}
<1>1. 0 \in B
  <2>. DEFINE f == [level \in 0..0 |-> Bottom(at, batch)]
  <2>1. IsClimb(f, 0, at, batch)
    BY SMT DEF IsClimb
  <2>. QED BY <2>1
<1>2. ASSUME NEW m \in 0..n, m \in B, m < n PROVE m + 1 \in B
  <2>1. PICK f : IsClimb(f, m, at, batch)
    BY <1>2
  <2>. DEFINE g == [level \in 0..m + 1 |-> IF level <= m THEN f[level] ELSE FoldLevel(f[m], m)]
  <2>2. /\ \A level \in 0..m : g[level] = f[level]
        /\ g[m + 1] = FoldLevel(f[m], m)
        /\ g = [level \in 0..m + 1 |-> g[level]]
    BY SMT
  <2>. HIDE DEF g
  <2>3. ASSUME NEW level \in 0..m + 1
        PROVE  g[level] = IF level = 0 THEN Bottom(at, batch)
                          ELSE FoldLevel(g[level - 1], level - 1)
    <3>1. CASE level = 0
      <4>1. 0 \in 0..m
        BY SMT
      <4>2. f[0] = Bottom(at, batch)
        BY <2>1, <4>1, Zenon DEF IsClimb
      <4>3. g[level] = f[0]
        BY <2>2, <3>1, <4>1, Zenon
      <4>. QED BY <3>1, <4>2, <4>3, Zenon
    <3>2. CASE level # 0 /\ level <= m
      <4>1. level \in 0..m /\ level - 1 \in 0..m
        BY <3>2, SMT
      <4>2. g[level] = f[level] /\ g[level - 1] = f[level - 1]
        BY <2>2, <4>1
      <4>3. f[level] = IF level = 0 THEN Bottom(at, batch)
                       ELSE FoldLevel(f[level - 1], level - 1)
        BY <2>1, <4>1, Zenon DEF IsClimb
      <4>. QED BY <3>2, <4>2, <4>3, Zenon
    <3>3. CASE level = m + 1
      <4>1. level - 1 = m /\ level # 0 /\ m \in 0..m
        BY <3>3, SMT
      <4>2. g[level - 1] = f[m]
        BY <2>2, <4>1
      <4>. QED BY <2>2, <3>3, <4>1, <4>2, Zenon
    <3>. QED BY <3>1, <3>2, <3>3, SMT
  <2>4. IsClimb(g, m + 1, at, batch)
    BY <2>2, <2>3, Zenon DEF IsClimb
  <2>5. m + 1 \in 0..n
    BY <1>2, SMT
  <2>. QED BY <2>4, <2>5, Zenon
<1>. HIDE DEF B
<1>3. n \in B
  BY <1>1, <1>2, UpwardInduction, SMT
<1>. QED BY <1>3 DEF B

\* Every choice for the inputs so far, with every transaction of the next.
Extended(B, ins) == {Append(b, t) : b \in B, t \in TransactionsOver(ins)}

IsChoices(f, n, inputs) ==
    f = [level \in 0..n |->
            IF level = 0 THEN {<<>>}
            ELSE Extended(f[level - 1], inputs[level])]

\* The transactions chosen for the first inputs.
LEMMA ChoicesExist ==
    ASSUME NEW inputs, NEW n \in Nat
    PROVE  \E f : IsChoices(f, n, inputs)
<1>. DEFINE B == {m \in 0..n : \E f : IsChoices(f, m, inputs)}
<1>1. 0 \in B
  <2>. DEFINE f == [level \in 0..0 |-> {<<>>}]
  <2>1. IsChoices(f, 0, inputs)
    BY SMT DEF IsChoices
  <2>. QED BY <2>1
<1>2. ASSUME NEW m \in 0..n, m \in B, m < n PROVE m + 1 \in B
  <2>1. PICK f : IsChoices(f, m, inputs)
    BY <1>2
  <2>. DEFINE g == [level \in 0..m + 1 |-> IF level <= m THEN f[level] ELSE Extended(f[m], inputs[(m + 1)])]
  <2>2. /\ \A level \in 0..m : g[level] = f[level]
        /\ g[m + 1] = Extended(f[m], inputs[(m + 1)])
        /\ g = [level \in 0..m + 1 |-> g[level]]
    BY SMT
  <2>. HIDE DEF g
  <2>3. ASSUME NEW level \in 0..m + 1
        PROVE  g[level] = IF level = 0 THEN {<<>>}
                          ELSE Extended(g[level - 1], inputs[level])
    <3>1. CASE level = 0
      <4>1. 0 \in 0..m
        BY SMT
      <4>2. f[0] = {<<>>}
        BY <2>1, <4>1, Zenon DEF IsChoices
      <4>3. g[level] = f[0]
        BY <2>2, <3>1, <4>1, Zenon
      <4>. QED BY <3>1, <4>2, <4>3, Zenon
    <3>2. CASE level # 0 /\ level <= m
      <4>1. level \in 0..m /\ level - 1 \in 0..m
        BY <3>2, SMT
      <4>2. g[level] = f[level] /\ g[level - 1] = f[level - 1]
        BY <2>2, <4>1
      <4>3. f[level] = IF level = 0 THEN {<<>>}
                       ELSE Extended(f[level - 1], inputs[level])
        BY <2>1, <4>1, Zenon DEF IsChoices
      <4>. QED BY <3>2, <4>2, <4>3, Zenon
    <3>3. CASE level = m + 1
      <4>1. level - 1 = m /\ level # 0 /\ m \in 0..m
        BY <3>3, SMT
      <4>2. g[level - 1] = f[m]
        BY <2>2, <4>1
      <4>. QED BY <2>2, <3>3, <4>1, <4>2, Zenon
    <3>. QED BY <3>1, <3>2, <3>3, SMT
  <2>4. IsChoices(g, m + 1, inputs)
    BY <2>2, <2>3, Zenon DEF IsChoices
  <2>5. m + 1 \in 0..n
    BY <1>2, SMT
  <2>. QED BY <2>4, <2>5, Zenon
<1>. HIDE DEF B
<1>3. n \in B
  BY <1>1, <1>2, UpwardInduction, SMT
<1>. QED BY <1>3 DEF B

IsJoint(f, n, seqs) ==
    f = [level \in 0..n |->
            IF level = 0 THEN <<>>
            ELSE f[level - 1] \o seqs[level]]

\* The first sequences, joined.
LEMMA JointExist ==
    ASSUME NEW seqs, NEW n \in Nat
    PROVE  \E f : IsJoint(f, n, seqs)
<1>. DEFINE B == {m \in 0..n : \E f : IsJoint(f, m, seqs)}
<1>1. 0 \in B
  <2>. DEFINE f == [level \in 0..0 |-> <<>>]
  <2>1. IsJoint(f, 0, seqs)
    BY SMT DEF IsJoint
  <2>. QED BY <2>1
<1>2. ASSUME NEW m \in 0..n, m \in B, m < n PROVE m + 1 \in B
  <2>1. PICK f : IsJoint(f, m, seqs)
    BY <1>2
  <2>. DEFINE g == [level \in 0..m + 1 |-> IF level <= m THEN f[level] ELSE f[m] \o seqs[(m + 1)]]
  <2>2. /\ \A level \in 0..m : g[level] = f[level]
        /\ g[m + 1] = f[m] \o seqs[(m + 1)]
        /\ g = [level \in 0..m + 1 |-> g[level]]
    BY SMT
  <2>. HIDE DEF g
  <2>3. ASSUME NEW level \in 0..m + 1
        PROVE  g[level] = IF level = 0 THEN <<>>
                          ELSE g[level - 1] \o seqs[level]
    <3>1. CASE level = 0
      <4>1. 0 \in 0..m
        BY SMT
      <4>2. f[0] = <<>>
        BY <2>1, <4>1, Zenon DEF IsJoint
      <4>3. g[level] = f[0]
        BY <2>2, <3>1, <4>1, Zenon
      <4>. QED BY <3>1, <4>2, <4>3, Zenon
    <3>2. CASE level # 0 /\ level <= m
      <4>1. level \in 0..m /\ level - 1 \in 0..m
        BY <3>2, SMT
      <4>2. g[level] = f[level] /\ g[level - 1] = f[level - 1]
        BY <2>2, <4>1
      <4>3. f[level] = IF level = 0 THEN <<>>
                       ELSE f[level - 1] \o seqs[level]
        BY <2>1, <4>1, Zenon DEF IsJoint
      <4>. QED BY <3>2, <4>2, <4>3, Zenon
    <3>3. CASE level = m + 1
      <4>1. level - 1 = m /\ level # 0 /\ m \in 0..m
        BY <3>3, SMT
      <4>2. g[level - 1] = f[m]
        BY <2>2, <4>1
      <4>. QED BY <2>2, <3>3, <4>1, <4>2, Zenon
    <3>. QED BY <3>1, <3>2, <3>3, SMT
  <2>4. IsJoint(g, m + 1, seqs)
    BY <2>2, <2>3, Zenon DEF IsJoint
  <2>5. m + 1 \in 0..n
    BY <1>2, SMT
  <2>. QED BY <2>4, <2>5, Zenon
<1>. HIDE DEF B
<1>3. n \in B
  BY <1>1, <1>2, UpwardInduction, SMT
<1>. QED BY <1>3 DEF B

-----------------------------------------------------------------------------
(* What the recursive functions of the tree compute.                        *)

Depths == 0..TreeDepth

\* The sizes of trees.
LEMMA PowerFacts ==
    ASSUME TreeAssumption
    PROVE  \E power \in [Depths -> Nat] :
              /\ power[0] = 1 /\ Capacity = power[TreeDepth]
              /\ \A level \in Levels : power[level + 1] = 2 * power[level]
<1>1. TreeDepth \in Nat
  BY DEF TreeAssumption
<1>. DEFINE f == CHOOSE power : IsPowers(power, TreeDepth)
<1>2. IsPowers(f, TreeDepth)
  BY <1>1, PowersExist
<1>3. Capacity = f[TreeDepth]
  BY DEF Capacity, IsPowers
<1>. HIDE DEF f
<1>4. \A level \in Depths : f[level] = IF level = 0 THEN 1 ELSE 2 * f[level - 1]
  BY <1>2, Zenon DEF IsPowers, Depths
<1>5. f[0] = 1
  <2>1. 0 \in Depths
    BY <1>1, SMT DEF Depths
  <2>. QED BY <1>4, <2>1
<1>6. ASSUME NEW level \in Levels
      PROVE  f[level + 1] = 2 * f[level]
  <2>1. level + 1 \in Depths
    BY <1>1, SMT DEF Levels, Depths
  <2>2. level + 1 # 0
    BY SMT DEF Levels
  <2>. DEFINE k == level + 1
  <2>3. k - 1 = level
    BY SMT DEF Levels
  <2>. HIDE DEF k
  <2>4. f[k] = 2 * f[k - 1]
    BY <1>4, <2>1, <2>2, Zenon DEF k
  <2>5. f[k] = 2 * f[level]
    BY <2>3, <2>4, Zenon
  <2>. QED BY <2>5 DEF k
<1>7. \A level \in Depths : f[level] \in Nat
  <2>. DEFINE B == {level \in Depths : f[level] \in Nat}
  <2>1. 0 \in B
    BY <1>1, <1>5, SMT DEF Depths
  <2>2. ASSUME NEW m \in 0..TreeDepth, m \in B, m < TreeDepth PROVE m + 1 \in B
    <3>1. m \in Levels /\ m + 1 \in Depths
      BY <1>1, <2>2, SMT DEF Levels, Depths
    <3>2. f[m + 1] = 2 * f[m] /\ f[m] \in Nat
      BY <1>6, <2>2, <3>1
    <3>3. f[m + 1] \in Nat
      BY <3>2, SMT
    <3>. QED BY <3>1, <3>3
  <2>. HIDE DEF B
  <2>3. 0..TreeDepth \subseteq B
    BY <1>1, <2>1, <2>2, UpwardInduction
  <2>. QED BY <2>3 DEF B, Depths
<1>8. f \in [Depths -> Nat]
  <2>1. f = [level \in Depths |-> f[level]]
    <3>1. f = [level \in 0..TreeDepth |-> IF level = 0 THEN 1 ELSE 2 * f[level - 1]]
      BY <1>2 DEF IsPowers
    <3>2. DOMAIN f = 0..TreeDepth
      BY <3>1, Zenon
    <3>. QED BY <3>1, <3>2, Zenon DEF Depths
  <2>. QED BY <1>7, <2>1, Zenon
<1>. QED BY <1>3, <1>5, <1>6, <1>8

\* The roots of empty trees.
LEMMA ZerosFacts ==
    ASSUME TreeAssumption
    PROVE  /\ zeros[0] = ZeroValue
           /\ \A level \in Levels : zeros[level + 1] = HashLeftRight(zeros[level], zeros[level])
<1>1. TreeDepth \in Nat
  BY DEF TreeAssumption
<1>. DEFINE f == CHOOSE zero : IsZeros(zero, TreeDepth)
<1>2. IsZeros(f, TreeDepth)
  BY <1>1, ZerosExist
<1>3. zeros = f
  BY DEF zeros, IsZeros
<1>. HIDE DEF f
<1>4. \A level \in Depths : f[level] =
          IF level = 0 THEN ZeroValue ELSE HashLeftRight(f[level - 1], f[level - 1])
  BY <1>2, Zenon DEF IsZeros, Depths
<1>5. f[0] = ZeroValue
  <2>1. 0 \in Depths
    BY <1>1, SMT DEF Depths
  <2>. QED BY <1>4, <2>1
<1>6. ASSUME NEW level \in Levels
      PROVE  f[level + 1] = HashLeftRight(f[level], f[level])
  <2>1. level + 1 \in Depths
    BY <1>1, SMT DEF Levels, Depths
  <2>2. level + 1 # 0
    BY SMT DEF Levels
  <2>. DEFINE k == level + 1
  <2>3. k - 1 = level
    BY SMT DEF Levels
  <2>. HIDE DEF k
  <2>4. f[k] = HashLeftRight(f[k - 1], f[k - 1])
    BY <1>4, <2>1, <2>2, Zenon DEF k
  <2>5. f[k] = HashLeftRight(f[level], f[level])
    BY <2>3, <2>4, Zenon
  <2>. QED BY <2>5 DEF k
<1>. QED BY <1>3, <1>5, <1>6

\* The levels of a tree.
LEMMA RowsFacts ==
    ASSUME TreeAssumption, NEW s
    PROVE  /\ \A i \in Nat : Rows(s)[0][i] = IF i < Len(s) THEN s[i + 1] ELSE ZeroValue
           /\ \A level \in Levels : \A i \in Nat :
                 Rows(s)[level + 1][i] = HashLeftRight(Rows(s)[level][2 * i], Rows(s)[level][2 * i + 1])
<1>1. TreeDepth \in Nat
  BY DEF TreeAssumption
<1>. DEFINE f == CHOOSE row : IsRows(row, TreeDepth, s)
<1>2. IsRows(f, TreeDepth, s)
  BY <1>1, RowsExist
<1>3. Rows(s) = f
  BY DEF Rows, IsRows
<1>. HIDE DEF f
<1>4. \A level \in Depths : f[level] =
          IF level = 0 THEN [i \in Nat |-> IF i < Len(s) THEN s[i + 1] ELSE ZeroValue]
          ELSE [i \in Nat |-> HashLeftRight(f[level - 1][2 * i], f[level - 1][2 * i + 1])]
  BY <1>2, Zenon DEF IsRows, Depths
<1>5. f[0] = [i \in Nat |-> IF i < Len(s) THEN s[i + 1] ELSE ZeroValue]
  <2>1. 0 \in Depths
    BY <1>1, SMT DEF Depths
  <2>. QED BY <1>4, <2>1, Zenon
<1>6. ASSUME NEW level \in Levels, NEW i \in Nat
      PROVE  f[level + 1][i] = HashLeftRight(f[level][2 * i], f[level][2 * i + 1])
  <2>1. level + 1 \in Depths
    BY <1>1, SMT DEF Levels, Depths
  <2>2. level + 1 # 0
    BY SMT DEF Levels
  <2>. DEFINE k == level + 1
  <2>3. k - 1 = level
    BY SMT DEF Levels
  <2>. HIDE DEF k
  <2>4. f[k] = [j \in Nat |-> HashLeftRight(f[k - 1][2 * j], f[k - 1][2 * j + 1])]
    BY <1>4, <2>1, <2>2, Zenon DEF k
  <2>5. f[k][i] = HashLeftRight(f[k - 1][2 * i], f[k - 1][2 * i + 1])
    BY <2>4, Zenon
  <2>6. f[k][i] = HashLeftRight(f[level][2 * i], f[level][2 * i + 1])
    BY <2>3, <2>5, Zenon
  <2>. QED BY <2>6 DEF k
<1>7. \A i \in Nat : f[0][i] = IF i < Len(s) THEN s[i + 1] ELSE ZeroValue
  BY <1>5, Zenon
<1>. QED BY <1>3, <1>6, <1>7, Zenon

\* The indices of the nodes above a leaf.
LEMMA AboveFacts ==
    ASSUME TreeAssumption, NEW index \in Nat
    PROVE  /\ Above(index)[0] = index
           /\ \A level \in Levels : Above(index)[level + 1] = Above(index)[level] \div 2
           /\ \A level \in Depths : Above(index)[level] \in Nat
<1>1. TreeDepth \in Nat
  BY DEF TreeAssumption
<1>. DEFINE f == CHOOSE up : IsAncestry(up, TreeDepth, index)
<1>2. IsAncestry(f, TreeDepth, index)
  BY <1>1, AncestryExist
<1>3. Above(index) = f
  BY DEF Above, IsAncestry
<1>. HIDE DEF f
<1>4. \A level \in Depths : f[level] = IF level = 0 THEN index ELSE f[level - 1] \div 2
  BY <1>2, Zenon DEF IsAncestry, Depths
<1>5. f[0] = index
  <2>1. 0 \in Depths
    BY <1>1, SMT DEF Depths
  <2>. QED BY <1>4, <2>1
<1>6. ASSUME NEW level \in Levels
      PROVE  f[level + 1] = f[level] \div 2
  <2>1. level + 1 \in Depths
    BY <1>1, SMT DEF Levels, Depths
  <2>2. level + 1 # 0
    BY SMT DEF Levels
  <2>. DEFINE k == level + 1
  <2>3. k - 1 = level
    BY SMT DEF Levels
  <2>. HIDE DEF k
  <2>4. f[k] = f[k - 1] \div 2
    BY <1>4, <2>1, <2>2, Zenon DEF k
  <2>5. f[k] = f[level] \div 2
    BY <2>3, <2>4, Zenon
  <2>. QED BY <2>5 DEF k
<1>7. \A level \in Depths : f[level] \in Nat
  <2>. DEFINE B == {level \in Depths : f[level] \in Nat}
  <2>1. 0 \in B
    BY <1>1, <1>5, SMT DEF Depths
  <2>2. ASSUME NEW m \in 0..TreeDepth, m \in B, m < TreeDepth PROVE m + 1 \in B
    <3>1. m \in Levels /\ m + 1 \in Depths
      BY <1>1, <2>2, SMT DEF Levels, Depths
    <3>2. f[m + 1] = f[m] \div 2 /\ f[m] \in Nat
      BY <1>6, <2>2, <3>1
    <3>3. f[m + 1] \in Nat
      BY <3>2, SMT
    <3>. QED BY <3>1, <3>3
  <2>. HIDE DEF B
  <2>3. 0..TreeDepth \subseteq B
    BY <1>1, <2>1, <2>2, UpwardInduction
  <2>. QED BY <2>3 DEF B, Depths
<1>. QED BY <1>3, <1>5, <1>6, <1>7

\* The leaves of one tree have the root above them.
LEMMA AboveTop ==
    ASSUME TreeAssumption, NEW index \in Nat, index < Capacity
    PROVE  Above(index)[TreeDepth] = 0
<1>1. TreeDepth \in Nat
  BY DEF TreeAssumption
<1>2. PICK power \in [Depths -> Nat] :
          /\ power[0] = 1 /\ Capacity = power[TreeDepth]
          /\ \A level \in Levels : power[level + 1] = 2 * power[level]
  BY PowerFacts
<1>. DEFINE up == Above(index)
<1>3. /\ up[0] = index
      /\ \A level \in Levels : up[level + 1] = up[level] \div 2
      /\ \A level \in Depths : up[level] \in Nat
  BY AboveFacts
<1>. HIDE DEF up
<1>. DEFINE B == {level \in Depths : up[level] < power[TreeDepth - level]}
<1>4. 0 \in B
  <2>1. 0 \in Depths /\ TreeDepth - 0 = TreeDepth
    BY <1>1, SMT DEF Depths
  <2>. QED BY <1>2, <1>3, <2>1
<1>5. ASSUME NEW m \in 0..TreeDepth, m \in B, m < TreeDepth PROVE m + 1 \in B
  <2>1. /\ m \in Levels /\ m + 1 \in Depths /\ m \in Depths
        /\ TreeDepth - (m + 1) \in Levels /\ TreeDepth - (m + 1) \in Depths
        /\ TreeDepth - (m + 1) + 1 = TreeDepth - m
    BY <1>1, <1>5, SMT DEF Levels, Depths
  <2>. DEFINE a == up[m]
              p == power[TreeDepth - (m + 1)]
  <2>2. /\ up[m + 1] = a \div 2 /\ a \in Nat
        /\ power[TreeDepth - m] = 2 * p /\ p \in Nat
        /\ a < power[TreeDepth - m]
    BY <1>2, <1>3, <1>5, <2>1
  <2>. HIDE DEF a, p
  <2>3. a \div 2 < p
    BY <2>2, SMT
  <2>4. up[m + 1] < power[TreeDepth - (m + 1)]
    BY <2>2, <2>3 DEF p
  <2>. QED BY <2>1, <2>4
<1>. HIDE DEF B
<1>6. 0..TreeDepth \subseteq B
  BY <1>1, <1>4, <1>5, UpwardInduction
<1>7. TreeDepth \in B /\ TreeDepth \in Depths /\ TreeDepth - TreeDepth = 0
  BY <1>1, <1>6, SMT DEF Depths
<1>8. up[TreeDepth] < 1 /\ up[TreeDepth] \in Nat
  BY <1>2, <1>3, <1>7 DEF B
<1>. QED BY <1>8, SMT DEF up

\* A proof under a tree's root shows every leaf of the tree.
LEMMA LeafUnderRoot ==
    ASSUME TreeAssumption, NEW s, NEW index \in Nat, index < Capacity
    PROVE  LeafAt(RootOf(s), index) = Rows(s)[0][index]
<1>1. TreeDepth \in Nat
  BY DEF TreeAssumption
<1>. DEFINE root == RootOf(s)
            f == CHOOSE node : IsDescent(node, TreeDepth, root, index)
            up == Above(index)
            row == Rows(s)
<1>2. IsDescent(f, TreeDepth, root, index)
  <2>. HIDE DEF root
  <2>. QED BY <1>1, DescentExist
<1>3. LeafAt(root, index) = f[TreeDepth]
  <2>. HIDE DEF root
  <2>. QED BY DEF LeafAt, IsDescent
<1>. HIDE DEF f
<1>4. \A level \in Depths : f[level] =
          IF level = 0 THEN root ELSE f[level - 1][1 + (up[TreeDepth - level] % 2)]
  BY <1>2, Zenon DEF IsDescent, Depths
<1>5. /\ up[0] = index /\ up[TreeDepth] = 0
      /\ \A level \in Levels : up[level + 1] = up[level] \div 2
      /\ \A level \in Depths : up[level] \in Nat
  BY AboveFacts, AboveTop
<1>6. root = row[TreeDepth][0]
  BY DEF RootOf
<1>7. \A level \in Levels : \A i \in Nat : row[level + 1][i] = HashLeftRight(row[level][2 * i], row[level][2 * i + 1])
  BY RowsFacts
<1>. HIDE DEF root, up, row
<1>. DEFINE B == {depth \in Depths : f[depth] = row[TreeDepth - depth][up[TreeDepth - depth]]}
<1>8. 0 \in B
  <2>1. 0 \in Depths /\ TreeDepth - 0 = TreeDepth
    BY <1>1, SMT DEF Depths
  <2>. QED BY <1>4, <1>5, <1>6, <2>1
<1>9. ASSUME NEW m \in 0..TreeDepth, m \in B, m < TreeDepth PROVE m + 1 \in B
  <2>. DEFINE l == TreeDepth - (m + 1)
              a == up[l]
              h == up[l + 1]
  <2>1. l \in Levels /\ l \in Depths /\ l + 1 \in Depths /\ l + 1 = TreeDepth - m /\ m + 1 \in Depths
        /\ m + 1 # 0 /\ m + 1 - 1 = m
    BY <1>1, <1>9, SMT DEF Levels, Depths
  <2>. DEFINE k == m + 1
  <2>. HIDE DEF k
  <2>10. k \in Depths /\ k # 0 /\ k - 1 = m
    BY <2>1 DEF k
  <2>11. f[k] = f[k - 1][1 + (up[TreeDepth - k] % 2)]
    BY <1>4, <2>10, Zenon
  <2>12. f[k] = f[m][1 + (up[TreeDepth - k] % 2)]
    BY <2>10, <2>11, Zenon
  <2>2. f[m + 1] = f[m][1 + (up[TreeDepth - (m + 1)] % 2)]
    BY <2>12 DEF k
  <2>. HIDE DEF l
  <2>3. f[m] = row[l + 1][h]
    BY <1>9, <2>1 DEF l
  <2>4. h = a \div 2 /\ a \in Nat /\ h \in Nat
    BY <1>5, <2>1
  <2>5. f[m + 1] = f[m][1 + (a % 2)]
    BY <2>2 DEF l
  <2>. HIDE DEF a, h
  <2>6. f[m] = <<row[l][2 * h], row[l][2 * h + 1]>>
    BY <1>7, <2>1, <2>3, <2>4 DEF HashLeftRight
  <2>7. (a % 2 = 0 /\ 2 * h = a) \/ (a % 2 = 1 /\ 2 * h + 1 = a)
    BY <2>4, SMT
  <2>8. f[m + 1] = row[l][a]
    <3>1. CASE a % 2 = 0 /\ 2 * h = a
      <4>1. 1 + (a % 2) = 1
        BY <3>1, SMT
      <4>2. f[m + 1] = row[l][2 * h]
        BY <2>5, <2>6, <4>1
      <4>. QED BY <3>1, <4>2
    <3>2. CASE a % 2 = 1 /\ 2 * h + 1 = a
      <4>1. 1 + (a % 2) = 2
        BY <3>2, SMT
      <4>2. f[m + 1] = row[l][2 * h + 1]
        BY <2>5, <2>6, <4>1
      <4>. QED BY <3>2, <4>2
    <3>. QED BY <2>7, <3>1, <3>2
  <2>9. f[m + 1] = row[TreeDepth - (m + 1)][up[TreeDepth - (m + 1)]]
    BY <2>8 DEF l, a
  <2>. QED BY <2>1, <2>9
<1>. HIDE DEF B
<1>10. 0..TreeDepth \subseteq B
  BY <1>1, <1>8, <1>9, UpwardInduction
<1>11. TreeDepth \in B /\ TreeDepth - TreeDepth = 0
  BY <1>1, <1>10, SMT
<1>12. f[TreeDepth] = row[0][index]
  BY <1>5, <1>11 DEF B
<1>. QED BY <1>3, <1>12 DEF root, row

-----------------------------------------------------------------------------
(* One level of an insertion.                                               *)

IsHashed(f, n, s, level) ==
    f = [i \in 0..n |->
            IF i = 0 THEN s.nodes
            ELSE IF i = 1 THEN CompletePair(s, level)
            ELSE HashPair(s, level, f[i - 2], i - 2)]

\* The arrays of a level.
LEMMA HashedExist ==
    ASSUME NEW s, NEW level, NEW n \in Nat
    PROVE  \E f : IsHashed(f, n, s, level)
<1>. DEFINE B == {m \in 0..n : \E f : IsHashed(f, m, s, level)}
<1>1. 0 \in B
  <2>. DEFINE f == [i \in 0..0 |-> s.nodes]
  <2>1. IsHashed(f, 0, s, level)
    BY SMT DEF IsHashed
  <2>. QED BY <2>1
<1>2. ASSUME NEW m \in 0..n, m \in B, m < n PROVE m + 1 \in B
  <2>1. PICK f : IsHashed(f, m, s, level)
    BY <1>2
  <2>. DEFINE g == [i \in 0..m + 1 |-> IF i <= m THEN f[i]
                                       ELSE IF m = 0 THEN CompletePair(s, level)
                                       ELSE HashPair(s, level, f[m - 1], m - 1)]
  <2>2. /\ \A i \in 0..m : g[i] = f[i]
        /\ g[m + 1] = IF m = 0 THEN CompletePair(s, level) ELSE HashPair(s, level, f[m - 1], m - 1)
        /\ g = [i \in 0..m + 1 |-> g[i]]
    BY SMT
  <2>. HIDE DEF g
  <2>3. ASSUME NEW i \in 0..m + 1
        PROVE  g[i] = IF i = 0 THEN s.nodes
                      ELSE IF i = 1 THEN CompletePair(s, level)
                      ELSE HashPair(s, level, g[i - 2], i - 2)
    <3>1. CASE i = 0
      <4>1. 0 \in 0..m
        BY SMT
      <4>2. f[0] = s.nodes
        BY <2>1, <4>1, Zenon DEF IsHashed
      <4>3. g[i] = f[0]
        BY <2>2, <3>1, <4>1, Zenon
      <4>. QED BY <3>1, <4>2, <4>3, Zenon
    <3>2. CASE i # 0 /\ i <= m
      <4>1. i \in 0..m
        BY <3>2, SMT
      <4>2. f[i] = IF i = 0 THEN s.nodes
                   ELSE IF i = 1 THEN CompletePair(s, level)
                   ELSE HashPair(s, level, f[i - 2], i - 2)
        BY <2>1, <4>1, Zenon DEF IsHashed
      <4>3. i # 1 => g[i - 2] = f[i - 2]
        <5>1. i # 1 => i - 2 \in 0..m
          BY <3>2, <4>1, SMT
        <5>. QED BY <2>2, <5>1
      <4>4. g[i] = f[i]
        BY <2>2, <4>1
      <4>. QED BY <3>2, <4>2, <4>3, <4>4, Zenon
    <3>3. CASE i = m + 1
      <4>1. i # 0 /\ (m = 0 <=> i = 1) /\ i - 2 = m - 1 /\ (m # 0 => m - 1 \in 0..m)
        BY <3>3, SMT
      <4>2. m # 0 => g[m - 1] = f[m - 1]
        BY <2>2, <4>1
      <4>3. g[i] = IF i = 1 THEN CompletePair(s, level) ELSE HashPair(s, level, f[m - 1], m - 1)
        BY <2>2, <3>3, <4>1, Zenon
      <4>4. i # 1 => g[i - 2] = f[m - 1]
        BY <4>1, <4>2, Zenon
      <4>. QED BY <4>1, <4>3, <4>4, Zenon
    <3>. QED BY <3>1, <3>2, <3>3, SMT
  <2>4. IsHashed(g, m + 1, s, level)
    BY <2>2, <2>3, Zenon DEF IsHashed
  <2>5. m + 1 \in 0..n
    BY <1>2, SMT
  <2>. QED BY <2>4, <2>5, Zenon
<1>. HIDE DEF B
<1>3. n \in B
  BY <1>1, <1>2, UpwardInduction, SMT
<1>. QED BY <1>3 DEF B

\* The arrays of a level.
LEMMA HashedFacts ==
    ASSUME NEW s, s.count \in Nat \ {0}, NEW level
    PROVE  LET A == HashedUpTo(s, level) IN
           /\ A[0] = s.nodes /\ A[1] = CompletePair(s, level)
           /\ \A i \in 0..s.count - 1 : A[i + 2] = HashPair(s, level, A[i], i)
<1>1. s.count + 1 \in Nat
  BY SMT
<1>. DEFINE f == CHOOSE array : IsHashed(array, s.count + 1, s, level)
<1>2. IsHashed(f, s.count + 1, s, level)
  BY <1>1, HashedExist
<1>3. HashedUpTo(s, level) = f
  BY DEF HashedUpTo, IsHashed
<1>. HIDE DEF f
<1>4. \A i \in 0..s.count + 1 : f[i] =
         IF i = 0 THEN s.nodes
         ELSE IF i = 1 THEN CompletePair(s, level)
         ELSE HashPair(s, level, f[i - 2], i - 2)
  BY <1>2, Zenon DEF IsHashed
<1>5. 0 \in 0..s.count + 1 /\ 1 \in 0..s.count + 1 /\ 1 # 0
  BY SMT
<1>6. f[0] = s.nodes /\ f[1] = CompletePair(s, level)
  BY <1>4, <1>5, Zenon
<1>7. ASSUME NEW i \in 0..s.count - 1
      PROVE  f[i + 2] = HashPair(s, level, f[i], i)
  <2>. DEFINE k == i + 2
  <2>1. k \in 0..s.count + 1 /\ k # 0 /\ k # 1 /\ k - 2 = i
    BY SMT
  <2>. HIDE DEF k
  <2>2. f[k] = HashPair(s, level, f[k - 2], k - 2)
    BY <1>4, <2>1, Zenon
  <2>3. f[k] = HashPair(s, level, f[i], i)
    BY <2>1, <2>2, Zenon
  <2>. QED BY <2>3 DEF k
<1>. QED BY <1>3, <1>6, <1>7, Zenon

\* The last element that starts a pair is the last or the last but one.
LEMMA LastLeftFacts ==
    ASSUME NEW s, s.count \in Nat \ {0}, s.at \in Nat
    PROVE  /\ Odd(s) \in {0, 1}
           /\ Lefts(s) = {} <=> s.count = 1 /\ Odd(s) = 1
           /\ Lefts(s) # {} =>
                 /\ LastLeft(s) \in s.count - 2..s.count - 1 /\ LastLeft(s) >= Odd(s)
                 /\ (LastLeft(s) - Odd(s)) % 2 = 0
<1>1. Odd(s) \in {0, 1}
  BY SMT DEF Odd
<1>. DEFINE o == Odd(s)
            c == s.count
            w == o + 2 * ((c - 1 - o) \div 2)
<1>2. o \in {0, 1} /\ c \in Nat \ {0}
  BY <1>1
<1>3. Lefts(s) = {i \in o..c - 1 : (i - o) % 2 = 0}
  BY DEF Lefts
<1>4. LastLeft(s) = CHOOSE i \in Lefts(s) : \A j \in Lefts(s) : j <= i
  BY DEF LastLeft
<1>. HIDE DEF o, c
<1>5. c = 1 /\ o = 1 => Lefts(s) = {}
  BY <1>2, <1>3, SMT
<1>6. ASSUME ~(c = 1 /\ o = 1)
      PROVE  /\ w \in Lefts(s) /\ \A j \in Lefts(s) : j <= w
             /\ w \in c - 2..c - 1
  <2>1. w \in o..c - 1 /\ (w - o) % 2 = 0 /\ w \in c - 2..c - 1
    BY <1>2, <1>6, SMT
  <2>2. ASSUME NEW j \in Lefts(s) PROVE j <= w
    BY <1>2, <1>3, SMT
  <2>. QED BY <1>3, <2>1, <2>2
<1>. HIDE DEF w
<1>7. ASSUME Lefts(s) # {}
      PROVE  LastLeft(s) \in c - 2..c - 1 /\ LastLeft(s) >= o /\ (LastLeft(s) - o) % 2 = 0
  <2>1. w \in Lefts(s) /\ (\A j \in Lefts(s) : j <= w) /\ w \in c - 2..c - 1
    BY <1>5, <1>6, <1>7
  <2>2. LastLeft(s) \in Lefts(s) /\ \A j \in Lefts(s) : j <= LastLeft(s)
    BY <1>4, <2>1, Zenon
  <2>. DEFINE l == LastLeft(s)
  <2>3. l \in o..c - 1 /\ (l - o) % 2 = 0 /\ w <= l /\ l <= w /\ w \in o..c - 1
    BY <1>3, <2>1, <2>2
  <2>. HIDE DEF l
  <2>4. l \in c - 2..c - 1 /\ l >= o /\ (l - o) % 2 = 0
    BY <1>2, <2>1, <2>3, SMT
  <2>. QED BY <2>4 DEF l
<1>. QED BY <1>1, <1>5, <1>6, <1>7 DEF o, c

\* What the loop of an insertion holds of a level of the tree it builds: the nodes from
\* index s.at on that are not roots of empty trees, in an array of a given size.
OnLevel(s, size, level, row) ==
    /\ s.at \in Nat /\ s.count \in 1..size
    /\ s.nodes = [j \in 0..size - 1 |-> s.nodes[j]]
    /\ \A j \in 0..s.count - 1 : s.nodes[j] = row[s.at + j]
    /\ \A i \in Nat : i >= s.at + s.count => row[i] = zeros[level]

\* The array when the elements before index i are hashed.
HashedTo(s, size, up, array, i) ==
    /\ array = [j \in 0..size - 1 |-> array[j]]
    /\ \A j \in 0..size - 1 : j < Slot(s, i) => array[j] = up[s.at \div 2 + j]
    /\ \A j \in 0..size - 1 : j >= i => array[j] = s.nodes[j]

\* The numbers of a level.
LEMMA LevelNumbers ==
    ASSUME NEW size \in Nat \ {0}, NEW level, NEW row, NEW s, OnLevel(s, size, level, row)
    PROVE  /\ s.at \in Nat /\ s.count \in 1..size /\ s.count \in Nat \ {0}
           /\ Odd(s) = s.at % 2 /\ Odd(s) \in {0, 1}
<1>. DEFINE at == s.at
            c == s.count
<1>1. at \in Nat /\ c \in 1..size
  BY DEF OnLevel
<1>2. Odd(s) = at % 2
  BY DEF Odd
<1>. HIDE DEF at, c
<1>3. c \in Nat \ {0} /\ at % 2 \in {0, 1}
  BY <1>1, SMT
<1>. QED BY <1>1, <1>2, <1>3 DEF at, c

\* The numbers of a pair.
LEMMA PairNumbers ==
    ASSUME NEW at \in Nat, NEW size \in Nat \ {0}, NEW c \in 1..size, NEW i \in 0..c - 1
    PROVE  /\ i \in 0..size - 1 /\ i >= i
           /\ i < c - 1 => /\ i + 1 \in 0..size - 1 /\ i + 1 >= i /\ i + 1 \in 0..c - 1
                           /\ at + (i + 1) = at + i + 1
  BY SMT

\* Hashing one pair.
LEMMA PairIsHashed ==
    ASSUME NEW size \in Nat \ {0}, NEW level, NEW row, NEW up, NEW s, OnLevel(s, size, level, row),
           \A i \in Nat : up[i] = HashLeftRight(row[2 * i], row[2 * i + 1]),
           NEW i \in 0..s.count - 1, (s.at + i) % 2 = 0, NEW a, HashedTo(s, size, up, a, i)
    PROVE  HashedTo(s, size, up, HashPair(s, level, a, i), i + 2)
<1>. DEFINE at == s.at
            c == s.count
            t == Slot(s, i)
            right == IF i < c - 1 THEN a[i + 1] ELSE zeros[level]
            b == HashPair(s, level, a, i)
<1>1. at \in Nat /\ c \in 1..size /\ i \in 0..c - 1 /\ (at + i) % 2 = 0
  BY DEF OnLevel
<1>2. b = [a EXCEPT ![t] = HashLeftRight(a[i], right)]
  BY DEF HashPair
<1>3. t = (at + i) \div 2 - at \div 2 /\ Slot(s, i + 2) = (at + (i + 2)) \div 2 - at \div 2
  BY DEF Slot
<1>4. a[i] = row[at + i]
  <2>1. i \in 0..size - 1 /\ i >= i
    <3>. HIDE DEF at, c
    <3>. QED BY <1>1, PairNumbers
  <2>2. a[i] = s.nodes[i]
    BY <1>1, <2>1 DEF HashedTo
  <2>3. s.nodes[i] = row[at + i]
    BY <1>1 DEF OnLevel
  <2>. QED BY <2>2, <2>3
<1>5. right = row[at + i + 1]
  <2>1. CASE i < c - 1
    <3>1. i + 1 \in 0..size - 1 /\ i + 1 >= i /\ i + 1 \in 0..c - 1 /\ at + (i + 1) = at + i + 1
      <4>. HIDE DEF at, c
      <4>. QED BY <1>1, <2>1, PairNumbers
    <3>2. a[i + 1] = s.nodes[i + 1]
      BY <3>1 DEF HashedTo
    <3>3. s.nodes[i + 1] = row[at + (i + 1)]
      BY <3>1 DEF OnLevel
    <3>. QED BY <2>1, <3>1, <3>2, <3>3
  <2>2. CASE ~(i < c - 1)
    <3>1. at + i + 1 \in Nat /\ at + i + 1 >= at + c
      BY <1>1, <2>2, SMT
    <3>2. row[at + i + 1] = zeros[level]
      BY <3>1 DEF OnLevel
    <3>. QED BY <2>2, <3>2
  <2>. QED BY <2>1, <2>2
<1>6. /\ t \in 0..size - 1 /\ t <= i /\ Slot(s, i + 2) = t + 1
      /\ at \div 2 + t \in Nat /\ 2 * (at \div 2 + t) = at + i
  <2>. HIDE DEF at, c, t
  <2>. QED BY <1>1, <1>3, SMT
<1>7. HashLeftRight(a[i], right) = up[at \div 2 + t]
  <2>1. up[at \div 2 + t] = HashLeftRight(row[2 * (at \div 2 + t)], row[2 * (at \div 2 + t) + 1])
    BY <1>6
  <2>2. up[at \div 2 + t] = HashLeftRight(row[at + i], row[at + i + 1])
    BY <1>6, <2>1, Zenon
  <2>. QED BY <1>4, <1>5, <2>2, Zenon
<1>8. a = [j \in 0..size - 1 |-> a[j]]
  BY DEF HashedTo
<1>9. b = [j \in 0..size - 1 |-> IF j = t THEN up[at \div 2 + t] ELSE a[j]]
  <2>. HIDE DEF b, t, right, at
  <2>1. DOMAIN a = 0..size - 1
    BY <1>8, Zenon
  <2>. QED BY <1>2, <1>7, <2>1
<1>. HIDE DEF b, t, right, at, c
<1>10. b = [j \in 0..size - 1 |-> b[j]]
  BY <1>9
<1>11. ASSUME NEW j \in 0..size - 1, j < Slot(s, i + 2)
       PROVE  b[j] = up[at \div 2 + j]
  <2>1. CASE j = t
    BY <1>9, <2>1
  <2>2. CASE j # t
    <3>1. j < t
      BY <1>6, <1>11, <2>2, SMT
    <3>2. a[j] = up[at \div 2 + j]
      BY <3>1 DEF HashedTo, t, at
    <3>. QED BY <1>9, <2>2, <3>2
  <2>. QED BY <2>1, <2>2
<1>12. ASSUME NEW j \in 0..size - 1, j >= i + 2
       PROVE  b[j] = s.nodes[j]
  <2>1. j # t /\ j >= i
    BY <1>1, <1>6, <1>12, SMT
  <2>2. a[j] = s.nodes[j]
    BY <2>1 DEF HashedTo
  <2>. QED BY <1>9, <2>1, <2>2
<1>. QED BY <1>10, <1>11, <1>12, Zenon DEF HashedTo, b, at

\* Completing the pair of an earlier batch.
LEMMA FirstIsHashed ==
    ASSUME NEW size \in Nat \ {0}, NEW level, NEW row, NEW up, NEW s, OnLevel(s, size, level, row),
           \A i \in Nat : up[i] = HashLeftRight(row[2 * i], row[2 * i + 1]),
           Odd(s) = 1 => s.filled[level] = row[s.at - 1]
    PROVE  HashedTo(s, size, up, HashedUpTo(s, level)[Odd(s)], Odd(s))
<1>. DEFINE at == s.at
            A == HashedUpTo(s, level)
<1>1. at \in Nat /\ s.count \in 1..size /\ s.count \in Nat \ {0} /\ Odd(s) = at % 2 /\ Odd(s) \in {0, 1}
  BY LevelNumbers
<1>2. A[0] = s.nodes /\ A[1] = CompletePair(s, level)
  BY <1>1, HashedFacts
<1>3. s.nodes = [j \in 0..size - 1 |-> s.nodes[j]]
  BY DEF OnLevel
<1>4. Slot(s, 0) = (at + 0) \div 2 - at \div 2 /\ Slot(s, 1) = (at + 1) \div 2 - at \div 2
  BY DEF Slot
<1>. HIDE DEF A
<1>5. CASE Odd(s) = 0
  <2>1. Slot(s, 0) = 0
    <3>. HIDE DEF at
    <3>. QED BY <1>1, <1>4, SMT
  <2>2. \A j \in 0..size - 1 : ~(j < 0)
    BY SMT
  <2>3. HashedTo(s, size, up, s.nodes, 0)
    BY <1>3, <2>1, <2>2, Zenon DEF HashedTo
  <2>. QED BY <1>2, <1>5, <2>3, Zenon DEF A
<1>6. CASE Odd(s) = 1
  <2>. DEFINE b == CompletePair(s, level)
  <2>1. /\ Slot(s, 1) = 1 /\ 0 \in 0..size - 1 /\ 0 \in 0..s.count - 1
        /\ at \div 2 \in Nat /\ 2 * (at \div 2) = at - 1 /\ 2 * (at \div 2) + 1 = at + 0
    <3>. HIDE DEF at
    <3>. QED BY <1>1, <1>4, <1>6, SMT
  <2>2. b = [s.nodes EXCEPT ![0] = HashLeftRight(s.filled[level], s.nodes[0])]
    BY <1>6 DEF CompletePair
  <2>3. s.nodes[0] = row[at + 0] /\ s.filled[level] = row[at - 1]
    BY <1>6, <2>1 DEF OnLevel
  <2>4. up[at \div 2] = HashLeftRight(row[2 * (at \div 2)], row[2 * (at \div 2) + 1])
    BY <2>1
  <2>5. up[at \div 2] = HashLeftRight(s.filled[level], s.nodes[0])
    BY <2>1, <2>3, <2>4, Zenon
  <2>6. DOMAIN s.nodes = 0..size - 1
    BY <1>3, Zenon
  <2>. HIDE DEF b
  <2>7. b = [j \in 0..size - 1 |-> IF j = 0 THEN up[at \div 2] ELSE s.nodes[j]]
    BY <2>2, <2>5, <2>6
  <2>8. b = [j \in 0..size - 1 |-> b[j]]
    BY <2>7
  <2>9. ASSUME NEW j \in 0..size - 1, j < 1
        PROVE  b[j] = up[at \div 2 + j]
    <3>. HIDE DEF at
    <3>1. j = 0 /\ at \div 2 + j = at \div 2
      BY <2>1, <2>9, SMT
    <3>. QED BY <2>7, <3>1
  <2>10. ASSUME NEW j \in 0..size - 1, j >= 1
         PROVE  b[j] = s.nodes[j]
    <3>1. j # 0
      BY <2>10, SMT
    <3>. QED BY <2>7, <3>1
  <2>11. HashedTo(s, size, up, b, 1)
    BY <2>1, <2>8, <2>9, <2>10, Zenon DEF HashedTo
  <2>. QED BY <1>2, <1>6, <2>11, Zenon DEF A, b
<1>. QED BY <1>1, <1>5, <1>6

\* Counting in twos.
LEMMA StepsOfTwo ==
    ASSUME NEW n \in Nat, NEW o \in {0, 1}, NEW i \in 0..n, i >= o, (i - o) % 2 = 0
    PROVE  \E p \in 0..n : o + 2 * p = i
<1>. DEFINE p == (i - o) \div 2
<1>1. p \in 0..n /\ o + 2 * p = i
  BY SMT
<1>. QED BY <1>1

\* Hashing the pairs one after the other, from the left.
LEMMA LevelIsHashed ==
    ASSUME NEW size \in Nat \ {0}, NEW level, NEW row, NEW up, NEW s, OnLevel(s, size, level, row),
           \A i \in Nat : up[i] = HashLeftRight(row[2 * i], row[2 * i + 1]),
           Odd(s) = 1 => s.filled[level] = row[s.at - 1],
           NEW i \in 0..s.count + 1, i >= Odd(s), (i - Odd(s)) % 2 = 0
    PROVE  HashedTo(s, size, up, HashedUpTo(s, level)[i], i)
<1>. DEFINE A == HashedUpTo(s, level)
            o == Odd(s)
            n == s.count + 1
            B == {p \in 0..n : o + 2 * p <= n => HashedTo(s, size, up, A[o + 2 * p], o + 2 * p)}
<1>1. /\ s.count \in Nat \ {0} /\ s.at \in Nat /\ n \in Nat /\ n = s.count + 1
      /\ o = s.at % 2 /\ o \in {0, 1}
  <2>1. s.count \in Nat \ {0} /\ s.at \in Nat /\ o = s.at % 2 /\ o \in {0, 1}
    BY LevelNumbers
  <2>2. n \in Nat
    BY <2>1, SMT
  <2>. QED BY <2>1, <2>2
<1>2. \A j \in 0..s.count - 1 : A[j + 2] = HashPair(s, level, A[j], j)
  BY <1>1, HashedFacts
<1>3. HashedTo(s, size, up, A[o], o)
  BY FirstIsHashed
<1>. HIDE DEF A, o, n
<1>4. 0 \in B
  <2>1. o + 2 * 0 = o /\ 0 \in 0..n
    BY <1>1, SMT
  <2>. QED BY <1>3, <2>1
<1>5. ASSUME NEW m \in 0..n, m \in B, m < n PROVE m + 1 \in B
  <2>. SUFFICES ASSUME o + 2 * (m + 1) <= n
                PROVE  HashedTo(s, size, up, A[o + 2 * (m + 1)], o + 2 * (m + 1))
    BY <1>1, <1>5, SMT
  <2>. DEFINE j == o + 2 * m
              c == s.count
              at == s.at
  <2>1. j \in 0..c - 1 /\ o + 2 * (m + 1) = j + 2 /\ (at + j) % 2 = 0 /\ j <= n
    <3>1. c \in Nat \ {0} /\ at \in Nat /\ n = c + 1 /\ o = at % 2 /\ o \in {0, 1}
      BY <1>1
    <3>. HIDE DEF c, at
    <3>. QED BY <3>1, SMT
  <2>2. HashedTo(s, size, up, A[j], j)
    BY <1>5, <2>1
  <2>. HIDE DEF j
  <2>3. HashedTo(s, size, up, HashPair(s, level, A[j], j), j + 2)
    BY <2>1, <2>2, PairIsHashed
  <2>4. A[j + 2] = HashPair(s, level, A[j], j)
    BY <1>2, <2>1
  <2>. QED BY <2>1, <2>3, <2>4, Zenon
<1>6. PICK p \in 0..n : o + 2 * p = i
  <2>1. i \in 0..n /\ i >= o /\ (i - o) % 2 = 0 /\ n \in Nat /\ o \in {0, 1}
    BY <1>1 DEF n, o
  <2>. HIDE DEF n, o
  <2>. QED BY ONLY <2>1, StepsOfTwo
<1>. HIDE DEF B
<1>7. 0..n \subseteq B
  BY <1>1, <1>4, <1>5, UpwardInduction
<1>8. p \in B
  BY <1>7
<1>9. i <= n
  BY <1>1, SMT DEF n
<1>10. HashedTo(s, size, up, A[i], i)
  BY <1>6, <1>8, <1>9, Zenon DEF B
<1>. QED BY <1>10 DEF A

\* Up to where the nodes of the level above are hashed.
LEMMA FoldNumbers ==
    ASSUME NEW size \in Nat \ {0}, NEW level, NEW row, NEW s, OnLevel(s, size, level, row)
    PROVE  LET t == FoldLevel(s, level)
               k == IF Lefts(s) = {} THEN 1 ELSE LastLeft(s) + 2
           IN /\ t.at = s.at \div 2 /\ t.at \in Nat
              /\ t.count \in 1..size /\ t.count = Slot(s, k)
              /\ t.at + t.count = (s.at + s.count + 1) \div 2
              /\ k \in 0..s.count + 1 /\ k >= Odd(s) /\ (k - Odd(s)) % 2 = 0
              /\ t.nodes = HashedUpTo(s, level)[k] /\ t.filled = Remember(s, level)
<1>. DEFINE at == s.at
            c == s.count
            o == Odd(s)
            l == LastLeft(s)
            t == FoldLevel(s, level)
            k == IF Lefts(s) = {} THEN 1 ELSE l + 2
<1>1. at \in Nat /\ c \in 1..size /\ o = at % 2 /\ o \in {0, 1}
  BY LevelNumbers
<1>2. /\ Lefts(s) = {} <=> c = 1 /\ o = 1
      /\ Lefts(s) # {} => l \in c - 2..c - 1 /\ l >= o /\ (l - o) % 2 = 0
  <2>1. s.count \in Nat \ {0} /\ s.at \in Nat
    BY LevelNumbers
  <2>. QED BY <2>1, LastLeftFacts
<1>3. /\ t.at = at \div 2
      /\ t.count = IF Lefts(s) = {} THEN 1 ELSE (at + l) \div 2 - at \div 2 + 1
      /\ t.nodes = HashedUpTo(s, level)[k] /\ t.filled = Remember(s, level)
  BY DEF FoldLevel, Slot
<1>4. Slot(s, k) = (at + k) \div 2 - at \div 2
  BY DEF Slot
<1>. HIDE DEF at, c, o, l, t
<1>5. CASE Lefts(s) = {}
  <2>1. c = 1 /\ o = 1 /\ k = 1 /\ t.count = 1
    BY <1>2, <1>3, <1>5
  <2>2. /\ at \div 2 \in Nat /\ 1 = (at + 1) \div 2 - at \div 2
        /\ at \div 2 + 1 = (at + 1 + 1) \div 2
        /\ 1 \in 0..1 + 1 /\ 1 \in 1..size /\ (1 - 1) % 2 = 0 /\ 1 >= 1
    BY <1>1, <2>1, SMT
  <2>. QED BY <1>3, <1>4, <2>1, <2>2, Zenon DEF at, c, o, t, l, k
<1>6. CASE Lefts(s) # {}
  <2>1. /\ k = l + 2 /\ t.count = (at + l) \div 2 - at \div 2 + 1
        /\ l \in c - 2..c - 1 /\ l >= o /\ (l - o) % 2 = 0
    BY <1>2, <1>3, <1>6
  <2>2. /\ at \div 2 \in Nat
        /\ (at + l) \div 2 - at \div 2 + 1 = (at + (l + 2)) \div 2 - at \div 2
        /\ (at + l) \div 2 - at \div 2 + 1 \in 1..size
        /\ l + 2 \in 0..c + 1 /\ l + 2 >= o
    BY <1>1, <2>1, SMT
  <2>3. (l + 2 - o) % 2 = 0
    BY <1>1, <2>1, SMT
  <2>4. at \div 2 + ((at + l) \div 2 - at \div 2 + 1) = (at + c + 1) \div 2
    BY <1>1, <2>1, SMT
  <2>. HIDE DEF k
  <2>5. /\ t.at = at \div 2 /\ t.at \in Nat
        /\ t.count \in 1..size /\ t.count = Slot(s, k)
        /\ t.at + t.count = (at + c + 1) \div 2
    BY <1>3, <1>4, <2>1, <2>2, <2>4, Zenon
  <2>6. k \in 0..c + 1 /\ k >= o /\ (k - o) % 2 = 0
    <3>1. k = l + 2
      BY <2>1
    <3>2. k \in 0..c + 1 /\ k >= o
      BY <2>2, <3>1
    <3>3. (k - o) % 2 = 0
      BY <1>1, <2>1, SMT
    <3>. QED BY <3>2, <3>3
  <2>. QED BY <1>3, <2>5, <2>6, Zenon DEF at, c, o, t, l, k
<1>. QED BY <1>5, <1>6

\* What is remembered of a level: its last node that starts a pair.
LEMMA Remembered ==
    ASSUME NEW size \in Nat \ {0}, NEW level \in Levels, NEW row, NEW up, NEW s,
           OnLevel(s, size, level, row),
           \A i \in Nat : up[i] = HashLeftRight(row[2 * i], row[2 * i + 1]),
           Odd(s) = 1 => s.filled[level] = row[s.at - 1],
           s.filled = [m \in Levels |-> s.filled[m]]
    PROVE  LET filled == Remember(s, level) IN
           /\ filled = [m \in Levels |-> filled[m]]
           /\ \A m \in Levels : m # level => filled[m] = s.filled[m]
           /\ \A e \in {s.at + s.count, s.at + s.count - 1} : e % 2 = 1 => filled[level] = row[e - 1]
<1>. DEFINE at == s.at
            c == s.count
            o == Odd(s)
            l == LastLeft(s)
            filled == Remember(s, level)
<1>1. at \in Nat /\ c \in 1..size /\ o = at % 2 /\ o \in {0, 1}
  BY LevelNumbers
<1>2. /\ Lefts(s) = {} <=> c = 1 /\ o = 1
      /\ Lefts(s) # {} => l \in c - 2..c - 1 /\ l >= o /\ (l - o) % 2 = 0
  <2>1. s.count \in Nat \ {0} /\ s.at \in Nat
    BY LevelNumbers
  <2>. QED BY <2>1, LastLeftFacts
<1>3. CASE Lefts(s) = {}
  <2>1. filled = s.filled
    BY <1>3 DEF Remember
  <2>2. c = 1 /\ o = 1 /\ s.filled[level] = row[at - 1]
    BY <1>2, <1>3
  <2>3. ASSUME NEW e \in {at + c, at + c - 1}, e % 2 = 1
        PROVE  s.filled[level] = row[e - 1]
    <3>. HIDE DEF at, c, o
    <3>1. e = at
      BY <1>1, <2>2, <2>3, SMT
    <3>. QED BY <2>2, <3>1
  <2>. QED BY <2>1, <2>3
<1>4. CASE Lefts(s) # {}
  <2>1. l \in c - 2..c - 1 /\ l >= o /\ (l - o) % 2 = 0
    BY <1>2, <1>4
  <2>. DEFINE v == HashedUpTo(s, level)[l][l]
  <2>2. filled = [s.filled EXCEPT ![level] = v]
    BY <1>4 DEF Remember
  <2>. HIDE DEF l
  <2>3. v = row[at + l]
    <3>1. l \in 0..c - 1 /\ l \in 0..c + 1 /\ l \in 0..size - 1 /\ l >= l
      <4>. HIDE DEF at, c, o
      <4>. QED BY <1>1, <2>1, SMT
    <3>2. HashedTo(s, size, up, HashedUpTo(s, level)[l], l)
      BY <2>1, <3>1, LevelIsHashed
    <3>3. v = s.nodes[l]
      BY <3>1, <3>2 DEF HashedTo
    <3>4. s.nodes[l] = row[at + l]
      BY <3>1 DEF OnLevel
    <3>. QED BY <3>3, <3>4
  <2>. HIDE DEF v, filled
  <2>4. filled = [m \in Levels |-> IF m = level THEN v ELSE s.filled[m]]
    BY <2>2
  <2>5. ASSUME NEW e \in {at + c, at + c - 1}, e % 2 = 1
        PROVE  filled[level] = row[e - 1]
    <3>1. e - 1 = at + l
      <4>. HIDE DEF at, c, o
      <4>1. /\ e \in {at + c, at + c - 1} /\ e % 2 = 1
        BY <2>5
      <4>. QED BY <1>1, <2>1, <4>1, SMT
    <3>. QED BY <2>3, <2>4, <3>1
  <2>6. filled = [m \in Levels |-> filled[m]] /\ \A m \in Levels : m # level => filled[m] = s.filled[m]
    BY <2>4
  <2>. QED BY <2>5, <2>6 DEF filled
<1>. QED BY <1>3, <1>4

\* Above a level is the next one.
LEMMA LevelIsFolded ==
    ASSUME TreeAssumption, NEW size \in Nat \ {0}, NEW level \in Levels, NEW row, NEW up, NEW s,
           OnLevel(s, size, level, row),
           \A i \in Nat : up[i] = HashLeftRight(row[2 * i], row[2 * i + 1]),
           Odd(s) = 1 => s.filled[level] = row[s.at - 1]
    PROVE  OnLevel(FoldLevel(s, level), size, level + 1, up)
<1>. DEFINE t == FoldLevel(s, level)
            k == IF Lefts(s) = {} THEN 1 ELSE LastLeft(s) + 2
<1>0. OnLevel(s, size, level, row)
  OBVIOUS
<1>1. /\ t.at = s.at \div 2 /\ t.at \in Nat
      /\ t.count \in 1..size /\ t.count = Slot(s, k)
      /\ t.at + t.count = (s.at + s.count + 1) \div 2
      /\ k \in 0..s.count + 1 /\ k >= Odd(s) /\ (k - Odd(s)) % 2 = 0
      /\ t.nodes = HashedUpTo(s, level)[k]
  BY ONLY <1>0, FoldNumbers
<1>. HIDE DEF t, k
<1>2. HashedTo(s, size, up, t.nodes, k)
  <2>1. HashedTo(s, size, up, HashedUpTo(s, level)[k], k)
    BY <1>1, LevelIsHashed
  <2>. QED BY <1>1, <2>1, Zenon
<1>3. t.nodes = [j \in 0..size - 1 |-> t.nodes[j]]
  BY <1>2 DEF HashedTo
<1>4. ASSUME NEW j \in 0..t.count - 1
      PROVE  t.nodes[j] = up[t.at + j]
  <2>1. j \in 0..size - 1 /\ j < t.count
    BY <1>1, SMT
  <2>2. t.nodes[j] = up[s.at \div 2 + j]
    BY <1>1, <1>2, <2>1 DEF HashedTo
  <2>. QED BY <1>1, <2>2
<1>5. ASSUME NEW i \in Nat, i >= t.at + t.count
      PROVE  up[i] = zeros[level + 1]
  <2>. DEFINE x == s.at + s.count
  <2>1. x \in Nat
    <3>1. s.at \in Nat /\ s.count \in Nat \ {0}
      BY LevelNumbers
    <3>. QED BY <3>1, SMT
  <2>2. i >= (x + 1) \div 2
    BY <1>1, <1>5
  <2>. HIDE DEF x
  <2>3. 2 * i \in Nat /\ 2 * i + 1 \in Nat /\ 2 * i >= x /\ 2 * i + 1 >= x
    BY <2>1, <2>2, SMT
  <2>4. row[2 * i] = zeros[level] /\ row[2 * i + 1] = zeros[level]
    BY <2>3 DEF OnLevel, x
  <2>5. up[i] = HashLeftRight(zeros[level], zeros[level])
    BY <2>4
  <2>. QED BY <2>5, ZerosFacts
<1>. QED BY <1>1, <1>3, <1>4, <1>5, Zenon DEF OnLevel, t

-----------------------------------------------------------------------------
(* A whole insertion.                                                       *)

\* What must be remembered of the leaves s: wherever the next node of a level is a right
\* one, the left one beside it.
Frontier(s, filled) ==
    /\ filled = [level \in Levels |-> filled[level]]
    /\ \A level \in Levels : Above(Len(s))[level] % 2 = 1 =>
          filled[level] = Rows(s)[level][Above(Len(s))[level] - 1]

\* Later leaves leave the full nodes as they are.
LEMMA RowsAgree ==
    ASSUME TreeAssumption, NEW X, NEW s \in Seq(X), NEW batch \in Seq(X)
    PROVE  \A level \in Depths : \A i \in Nat :
              i < Above(Len(s))[level] => Rows(s \o batch)[level][i] = Rows(s)[level][i]
<1>. DEFINE a == Above(Len(s))
            r == Rows(s)
            q == Rows(s \o batch)
            B == {level \in Depths : \A i \in Nat : i < a[level] => q[level][i] = r[level][i]}
<1>1. TreeDepth \in Nat /\ Len(s) \in Nat
  BY DEF TreeAssumption
<1>2. /\ a[0] = Len(s)
      /\ \A level \in Levels : a[level + 1] = a[level] \div 2
      /\ \A level \in Depths : a[level] \in Nat
  BY <1>1, AboveFacts
<1>3. /\ \A i \in Nat : r[0][i] = IF i < Len(s) THEN s[i + 1] ELSE ZeroValue
      /\ \A level \in Levels : \A i \in Nat : r[level + 1][i] = HashLeftRight(r[level][2 * i], r[level][2 * i + 1])
  BY RowsFacts
<1>4. /\ \A i \in Nat : q[0][i] = IF i < Len(s \o batch) THEN (s \o batch)[i + 1] ELSE ZeroValue
      /\ \A level \in Levels : \A i \in Nat : q[level + 1][i] = HashLeftRight(q[level][2 * i], q[level][2 * i + 1])
  BY RowsFacts
<1>5. 0 \in B
  <2>1. 0 \in Depths
    BY <1>1, SMT DEF Depths
  <2>2. ASSUME NEW i \in Nat, i < a[0]
        PROVE  q[0][i] = r[0][i]
    <3>. HIDE DEF q, r
    <3>1. i < Len(s) /\ i < Len(s \o batch) /\ (s \o batch)[i + 1] = s[i + 1]
      BY <1>1, <1>2, <2>2, SMT
    <3>. QED BY <1>3, <1>4, <3>1
  <2>. QED BY <2>1, <2>2
<1>. HIDE DEF a, r, q
<1>6. ASSUME NEW m \in 0..TreeDepth, m \in B, m < TreeDepth PROVE m + 1 \in B
  <2>1. m \in Levels /\ m \in Depths /\ m + 1 \in Depths
    BY <1>1, <1>6, SMT DEF Levels, Depths
  <2>2. ASSUME NEW i \in Nat, i < a[m + 1]
        PROVE  q[m + 1][i] = r[m + 1][i]
    <3>. DEFINE h == a[m]
    <3>1. h \in Nat /\ i < h \div 2
      BY <1>2, <2>1, <2>2
    <3>. HIDE DEF h
    <3>2. 2 * i \in Nat /\ 2 * i + 1 \in Nat /\ 2 * i < h /\ 2 * i + 1 < h
      BY <3>1, SMT
    <3>3. q[m][2 * i] = r[m][2 * i] /\ q[m][2 * i + 1] = r[m][2 * i + 1]
      BY <1>6, <3>2 DEF h
    <3>4. q[m + 1][i] = HashLeftRight(q[m][2 * i], q[m][2 * i + 1])
      BY <1>4, <2>1
    <3>5. r[m + 1][i] = HashLeftRight(r[m][2 * i], r[m][2 * i + 1])
      BY <1>3, <2>1
    <3>. QED BY <3>3, <3>4, <3>5, Zenon
  <2>. QED BY <2>1, <2>2
<1>. HIDE DEF B
<1>7. 0..TreeDepth \subseteq B
  BY <1>1, <1>5, <1>6, UpwardInduction
<1>8. \A level \in Depths : \A i \in Nat : i < a[level] => q[level][i] = r[level][i]
  BY <1>7 DEF B, Depths
<1>. QED BY <1>8 DEF a, r, q

\* The levels of an insertion.
LEMMA FoldedFacts ==
    ASSUME TreeAssumption, NEW at, NEW batch
    PROVE  LET f == Folded(at, batch) IN
           /\ f[0] = Bottom(at, batch)
           /\ \A level \in Levels : f[level + 1] = FoldLevel(f[level], level)
<1>1. TreeDepth \in Nat
  BY DEF TreeAssumption
<1>. DEFINE f == CHOOSE climb : IsClimb(climb, TreeDepth, at, batch)
<1>2. IsClimb(f, TreeDepth, at, batch)
  BY <1>1, ClimbExist
<1>3. Folded(at, batch) = f
  BY DEF Folded, IsClimb, Bottom
<1>. HIDE DEF f
<1>4. \A level \in Depths : f[level] =
          IF level = 0 THEN Bottom(at, batch) ELSE FoldLevel(f[level - 1], level - 1)
  BY <1>2, Zenon DEF IsClimb, Depths
<1>5. f[0] = Bottom(at, batch)
  <2>1. 0 \in Depths
    BY <1>1, SMT DEF Depths
  <2>. QED BY <1>4, <2>1
<1>6. ASSUME NEW level \in Levels
      PROVE  f[level + 1] = FoldLevel(f[level], level)
  <2>1. level + 1 \in Depths
    BY <1>1, SMT DEF Levels, Depths
  <2>2. level + 1 # 0
    BY SMT DEF Levels
  <2>. DEFINE k == level + 1
  <2>3. k - 1 = level
    BY SMT DEF Levels
  <2>. HIDE DEF k
  <2>4. f[k] = FoldLevel(f[k - 1], k - 1)
    BY <1>4, <2>1, <2>2, Zenon DEF k
  <2>5. f[k] = FoldLevel(f[level], level)
    BY <2>3, <2>4, Zenon
  <2>. QED BY <2>5 DEF k
<1>. QED BY <1>3, <1>5, <1>6, Zenon

\* What an insertion has done below a level, and what it has of the level.
FoldedTo(f, level, size, s, t) ==
    /\ OnLevel(f, size, level, Rows(t)[level])
    /\ f.at = Above(Len(s))[level]
    /\ f.at + f.count \in {Above(Len(t))[level], Above(Len(t))[level] + 1}
    /\ f.filled = [m \in Levels |-> f.filled[m]]
    /\ \A m \in Levels : m < level /\ Above(Len(t))[m] % 2 = 1 =>
          f.filled[m] = Rows(t)[m][Above(Len(t))[m] - 1]
    /\ \A m \in Levels : m >= level => f.filled[m] = filledSubTrees[m]

\* An insertion starts with the new leaves.
LEMMA FoldStarts ==
    ASSUME TreeAssumption, NEW X, NEW s \in Seq(X), NEW batch \in Seq(X), batch # <<>>,
           Frontier(s, filledSubTrees)
    PROVE  FoldedTo(Bottom(Len(s), batch), 0, Len(batch), s, s \o batch)
<1>. DEFINE f == Bottom(Len(s), batch)
            t == s \o batch
            n == Len(batch)
<1>1. /\ Len(s) \in Nat /\ n \in Nat \ {0} /\ Len(t) = Len(s) + n /\ Len(t) \in Nat
      /\ \A i \in 1..n : t[Len(s) + i] = batch[i]
  BY SMT
<1>2. f.at = Len(s) /\ f.count = n /\ f.nodes = [i \in 0..n - 1 |-> batch[i + 1]] /\ f.filled = filledSubTrees
  BY DEF Bottom
<1>3. Above(Len(s))[0] = Len(s) /\ Above(Len(t))[0] = Len(t)
  BY <1>1, AboveFacts
<1>4. \A i \in Nat : Rows(t)[0][i] = IF i < Len(t) THEN t[i + 1] ELSE ZeroValue
  BY RowsFacts
<1>5. zeros[0] = ZeroValue
  BY ZerosFacts
<1>. HIDE DEF f, t, n
<1>6. ASSUME NEW j \in 0..n - 1
      PROVE  f.nodes[j] = Rows(t)[0][Len(s) + j]
  <2>1. /\ j + 1 \in 1..n /\ Len(s) + j \in Nat /\ Len(s) + j < Len(t)
        /\ Len(s) + j + 1 = Len(s) + (j + 1)
    BY <1>1, SMT
  <2>2. Rows(t)[0][Len(s) + j] = t[Len(s) + j + 1]
    BY <1>4, <2>1
  <2>3. t[Len(s) + (j + 1)] = batch[j + 1]
    BY <1>1, <2>1
  <2>4. f.nodes[j] = batch[j + 1]
    BY <1>2
  <2>. QED BY <2>1, <2>2, <2>3, <2>4
<1>7. ASSUME NEW i \in Nat, i >= Len(s) + n
      PROVE  Rows(t)[0][i] = zeros[0]
  <2>1. ~(i < Len(t))
    BY <1>1, <1>7, SMT
  <2>. QED BY <1>4, <1>5, <2>1
<1>8. OnLevel(f, n, 0, Rows(t)[0])
  <2>1. n \in 1..n
    BY <1>1, SMT
  <2>2. f.nodes = [j \in 0..n - 1 |-> f.nodes[j]]
    BY <1>2
  <2>. QED BY <1>1, <1>2, <1>6, <1>7, <2>1, <2>2, Zenon DEF OnLevel
<1>9. /\ f.at + f.count \in {Above(Len(t))[0], Above(Len(t))[0] + 1}
      /\ f.filled = [m \in Levels |-> f.filled[m]]
      /\ \A m \in Levels : ~(m < 0)
  <2>1. f.filled = [m \in Levels |-> f.filled[m]]
    BY <1>2, Zenon DEF Frontier
  <2>2. \A m \in Levels : ~(m < 0)
    BY SMT DEF Levels
  <2>. QED BY <1>1, <1>2, <1>3, <2>1, <2>2
<1>. QED BY <1>2, <1>3, <1>8, <1>9, Zenon DEF FoldedTo, f, t, n

\* One level of an insertion.
LEMMA FoldSteps ==
    ASSUME TreeAssumption, NEW X, NEW s \in Seq(X), NEW batch \in Seq(X), batch # <<>>,
           Frontier(s, filledSubTrees),
           NEW level \in Levels, NEW f, FoldedTo(f, level, Len(batch), s, s \o batch)
    PROVE  FoldedTo(FoldLevel(f, level), level + 1, Len(batch), s, s \o batch)
<1>. DEFINE t == s \o batch
            n == Len(batch)
            g == FoldLevel(f, level)
            row == Rows(t)[level]
            up == Rows(t)[level + 1]
            a == Above(Len(s))
            b == Above(Len(t))
<1>1. Len(s) \in Nat /\ n \in Nat \ {0} /\ Len(t) \in Nat
  BY SMT
<1>2. level \in Depths /\ level + 1 \in Depths /\ level \in Nat
  BY SMT DEF Levels, Depths, TreeAssumption
<1>3. /\ a[level + 1] = a[level] \div 2 /\ a[level] \in Nat
      /\ b[level + 1] = b[level] \div 2 /\ b[level] \in Nat
  BY <1>1, <1>2, AboveFacts
<1>4. \A i \in Nat : up[i] = HashLeftRight(row[2 * i], row[2 * i + 1])
  BY RowsFacts
<1>5. /\ OnLevel(f, n, level, row)
      /\ f.at = a[level] /\ f.at + f.count \in {b[level], b[level] + 1}
      /\ f.filled = [m \in Levels |-> f.filled[m]]
      /\ \A m \in Levels : m < level /\ b[m] % 2 = 1 => f.filled[m] = Rows(t)[m][b[m] - 1]
      /\ \A m \in Levels : m >= level => f.filled[m] = filledSubTrees[m]
  BY DEF FoldedTo
<1>6. \A i \in Nat : i < a[level] => row[i] = Rows(s)[level][i]
  BY <1>2, RowsAgree
<1>7. a[level] % 2 = 1 => filledSubTrees[level] = Rows(s)[level][a[level] - 1]
  BY DEF Frontier
<1>. HIDE DEF t, n, g, row, up, a, b
<1>8. Odd(f) = 1 => f.filled[level] = row[f.at - 1]
  <2>. SUFFICES ASSUME Odd(f) = 1 PROVE f.filled[level] = row[f.at - 1]
    OBVIOUS
  <2>1. a[level] % 2 = 1
    BY <1>5 DEF Odd
  <2>2. a[level] - 1 \in Nat /\ a[level] - 1 < a[level] /\ level >= level
    <3>. DEFINE x == a[level]
    <3>1. x \in Nat /\ x % 2 = 1
      BY <1>3, <2>1
    <3>. HIDE DEF x
    <3>2. x - 1 \in Nat /\ x - 1 < x
      BY <3>1, SMT
    <3>. QED BY <1>2, <3>2, SMT DEF x
  <2>. QED BY <1>5, <1>6, <1>7, <2>1, <2>2
<1>9. /\ g.at = f.at \div 2 /\ g.at + g.count = (f.at + f.count + 1) \div 2
      /\ g.filled = Remember(f, level)
  BY <1>1, <1>5, FoldNumbers DEF g
<1>10. OnLevel(g, n, level + 1, up)
  BY <1>1, <1>4, <1>5, <1>8, LevelIsFolded DEF g
<1>11. /\ g.filled = [m \in Levels |-> g.filled[m]]
       /\ \A m \in Levels : m # level => g.filled[m] = f.filled[m]
       /\ \A e \in {f.at + f.count, f.at + f.count - 1} : e % 2 = 1 => g.filled[level] = row[e - 1]
  <2>. DEFINE r == Remember(f, level)
  <2>1. /\ r = [m \in Levels |-> r[m]]
        /\ \A m \in Levels : m # level => r[m] = f.filled[m]
        /\ \A e \in {f.at + f.count, f.at + f.count - 1} : e % 2 = 1 => r[level] = row[e - 1]
    <3>1. /\ OnLevel(f, n, level, row) /\ n \in Nat \ {0}
          /\ \A i \in Nat : up[i] = HashLeftRight(row[2 * i], row[2 * i + 1])
          /\ Odd(f) = 1 => f.filled[level] = row[f.at - 1]
          /\ f.filled = [m \in Levels |-> f.filled[m]]
      BY <1>1, <1>4, <1>5, <1>8, Zenon
    <3>. QED BY ONLY TreeAssumption, <3>1, level \in Levels, Remembered DEF r
  <2>. HIDE DEF r
  <2>2. g.filled = r
    BY <1>9 DEF r
  <2>. QED BY <2>1, <2>2, Zenon
<1>12. g.at + g.count \in {b[level + 1], b[level + 1] + 1}
  <2>. DEFINE x == f.at + f.count
              y == b[level]
  <2>1. x \in {y, y + 1} /\ y \in Nat
    BY <1>3, <1>5
  <2>. HIDE DEF x, y
  <2>2. (x + 1) \div 2 \in {y \div 2, y \div 2 + 1}
    BY <2>1, SMT
  <2>. QED BY <1>3, <1>9, <2>2 DEF x, y
<1>13. ASSUME NEW m \in Levels, m < level + 1, b[m] % 2 = 1
       PROVE  g.filled[m] = Rows(t)[m][b[m] - 1]
  <2>1. CASE m = level
    <3>1. b[level] \in {f.at + f.count, f.at + f.count - 1}
      <4>1. PICK p : p = f.at
        OBVIOUS
      <4>2. PICK c : c = f.count
        OBVIOUS
      <4>3. PICK y : y = b[level]
        OBVIOUS
      <4>4. f.at \in Nat /\ f.count \in Nat \ {0}
        BY <1>1, <1>5, LevelNumbers
      <4>5. p \in Nat /\ c \in Nat /\ p + c \in {y, y + 1} /\ y \in Nat
        BY <1>3, <1>5, <4>1, <4>2, <4>3, <4>4
      <4>6. y \in {p + c, p + c - 1}
        BY <4>5, SMT
      <4>. QED BY <4>1, <4>2, <4>3, <4>6, Zenon
    <3>2. g.filled[level] = row[b[level] - 1]
      BY <1>11, <1>13, <2>1, <3>1
    <3>. QED BY <2>1, <3>2 DEF row
  <2>2. CASE m # level
    <3>1. m < level
      BY <1>2, <1>13, <2>2, SMT DEF Levels
    <3>. QED BY <1>5, <1>11, <1>13, <2>2, <3>1
  <2>. QED BY <2>1, <2>2
<1>14. ASSUME NEW m \in Levels, m >= level + 1
       PROVE  g.filled[m] = filledSubTrees[m]
  <2>1. m >= level /\ m # level
    BY <1>2, <1>14, SMT DEF Levels
  <2>. QED BY <1>5, <1>11, <2>1
<1>15. g.at = a[level + 1]
  BY <1>3, <1>5, <1>9
<1>. QED BY <1>10, <1>11, <1>12, <1>13, <1>14, <1>15, Zenon DEF FoldedTo, g, n, t, up, a, b

\* A batch of any size makes the root of all the leaves, and remembers what the next needs.
LEMMA BatchIsFolded ==
    ASSUME TreeAssumption, NEW X, NEW s \in Seq(X), NEW batch \in Seq(X), batch # <<>>,
           Len(s) + Len(batch) <= Capacity, Frontier(s, filledSubTrees)
    PROVE  LET top == Folded(Len(s), batch)[TreeDepth] IN
           /\ top.nodes[0] = RootOf(s \o batch)
           /\ Frontier(s \o batch, top.filled)
<1>. DEFINE f == Folded(Len(s), batch)
            t == s \o batch
            B == {level \in Depths : FoldedTo(f[level], level, Len(batch), s, t)}
<1>1. TreeDepth \in Nat /\ 0 \in Depths /\ TreeDepth \in Depths
  BY SMT DEF TreeAssumption, Depths
<1>2. /\ f[0] = Bottom(Len(s), batch)
      /\ \A level \in Levels : f[level + 1] = FoldLevel(f[level], level)
  BY FoldedFacts
<1>. HIDE DEF f
<1>3. 0 \in B
  BY <1>1, <1>2, FoldStarts
<1>4. ASSUME NEW m \in 0..TreeDepth, m \in B, m < TreeDepth PROVE m + 1 \in B
  <2>1. m \in Levels /\ m + 1 \in Depths
    BY <1>1, <1>4, SMT DEF Levels, Depths
  <2>2. FoldedTo(FoldLevel(f[m], m), m + 1, Len(batch), s, t)
    BY <1>4, <2>1, FoldSteps
  <2>. QED BY <1>2, <2>1, <2>2
<1>. HIDE DEF B
<1>5. 0..TreeDepth \subseteq B
  BY <1>1, <1>3, <1>4, UpwardInduction
<1>. DEFINE top == f[TreeDepth]
<1>6. FoldedTo(top, TreeDepth, Len(batch), s, t)
  BY <1>1, <1>5 DEF B, Depths
<1>. HIDE DEF top, t
<1>7. Len(s) \in Nat /\ Len(s) < Capacity /\ Len(batch) \in Nat \ {0}
  <2>1. Len(s) \in Nat /\ Len(batch) \in Nat \ {0}
    BY SMT
  <2>2. Capacity \in Nat
    BY <1>1, PowerFacts
  <2>. QED BY <2>1, <2>2, SMT
<1>8. top.at = 0
  <2>1. Above(Len(s))[TreeDepth] = 0
    BY <1>7, AboveTop
  <2>. QED BY <1>6, <2>1 DEF FoldedTo
<1>9. OnLevel(top, Len(batch), TreeDepth, Rows(t)[TreeDepth])
  BY <1>6 DEF FoldedTo
<1>10. top.nodes[0] = Rows(t)[TreeDepth][0]
  <2>1. 0 \in 0..top.count - 1 /\ 0 + 0 = 0
    <3>1. top.count \in Nat \ {0}
      BY <1>7, <1>9, LevelNumbers
    <3>. QED BY <3>1, SMT
  <2>2. top.nodes[0] = Rows(t)[TreeDepth][top.at + 0]
    BY <1>9, <2>1 DEF OnLevel
  <2>. QED BY <1>8, <2>1, <2>2
<1>11. Frontier(t, top.filled)
  <2>1. \A m \in Levels : m < TreeDepth
    BY <1>1, SMT DEF Levels
  <2>. QED BY <1>6, <2>1 DEF FoldedTo, Frontier
<1>12. top.nodes[0] = RootOf(t)
  BY <1>10 DEF RootOf
<1>. QED BY <1>11, <1>12 DEF top, t, f

-----------------------------------------------------------------------------
(* The trees, from call to call.                                            *)

Leaf == Seq(Nat)

TreeInv ==
    /\ treeNumber \in Trees
    /\ leaves \in [Trees -> Seq(Leaf)]
    /\ \A t \in Trees : /\ Len(leaves[t]) <= Capacity
                        /\ t > treeNumber => leaves[t] = <<>>
                        /\ leaves[t] # <<>> => <<t, RootOf(leaves[t])>> \in rootHistory
    /\ nextLeafIndex = Len(leaves[treeNumber])
    /\ merkleRoot = RootOf(leaves[treeNumber])
    /\ Frontier(leaves[treeNumber], filledSubTrees)
    /\ \A h \in rootHistory :
          /\ h[1] \in Trees
          /\ \E n \in 0..Len(leaves[h[1]]) : h[2] = RootOf(SubSeq(leaves[h[1]], 1, n))

\* Without leaves a tree is all zeros.
LEMMA EmptyRoot ==
    ASSUME TreeAssumption
    PROVE  RootOf(<<>>) = zeros[TreeDepth]
<1>. DEFINE r == Rows(<<>>)
            B == {level \in Depths : \A i \in Nat : r[level][i] = zeros[level]}
<1>1. TreeDepth \in Nat
  BY DEF TreeAssumption
<1>2. /\ \A i \in Nat : r[0][i] = IF i < Len(<<>>) THEN <<>>[i + 1] ELSE ZeroValue
      /\ \A level \in Levels : \A i \in Nat :
            r[level + 1][i] = HashLeftRight(r[level][2 * i], r[level][2 * i + 1])
  BY RowsFacts
<1>. HIDE DEF r
<1>3. 0 \in B
  <2>1. 0 \in Depths
    BY <1>1, SMT DEF Depths
  <2>2. \A i \in Nat : ~(i < Len(<<>>))
    BY SMT
  <2>. QED BY <1>2, <2>1, <2>2, ZerosFacts
<1>4. ASSUME NEW m \in 0..TreeDepth, m \in B, m < TreeDepth PROVE m + 1 \in B
  <2>1. m \in Levels /\ m + 1 \in Depths
    BY <1>1, <1>4, SMT DEF Levels, Depths
  <2>2. ASSUME NEW i \in Nat
        PROVE  r[m + 1][i] = zeros[m + 1]
    <3>1. 2 * i \in Nat /\ 2 * i + 1 \in Nat
      BY SMT
    <3>2. r[m][2 * i] = zeros[m] /\ r[m][2 * i + 1] = zeros[m]
      BY <1>4, <3>1
    <3>3. zeros[m + 1] = HashLeftRight(zeros[m], zeros[m])
      BY <2>1, ZerosFacts
    <3>4. r[m + 1][i] = HashLeftRight(r[m][2 * i], r[m][2 * i + 1])
      BY <1>2, <2>1
    <3>. QED BY <3>2, <3>3, <3>4, Zenon
  <2>. QED BY <2>1, <2>2
<1>. HIDE DEF B
<1>5. 0..TreeDepth \subseteq B
  BY <1>1, <1>3, <1>4, UpwardInduction
<1>6. TreeDepth \in 0..TreeDepth /\ 0 \in Nat
  BY <1>1, SMT
<1>. QED BY <1>5, <1>6 DEF B, RootOf, r

\* With no leaf in the tree, whatever is remembered will do.
LEMMA EmptyFrontier ==
    ASSUME TreeAssumption, NEW filled, filled = [level \in Levels |-> filled[level]]
    PROVE  Frontier(<<>>, filled)
<1>. DEFINE a == Above(0)
            B == {level \in Depths : a[level] = 0}
<1>1. TreeDepth \in Nat /\ Len(<<>>) = 0
  BY SMT DEF TreeAssumption
<1>2. a[0] = 0 /\ \A level \in Levels : a[level + 1] = a[level] \div 2
  BY AboveFacts
<1>. HIDE DEF a
<1>3. 0 \in B
  BY <1>1, <1>2, SMT DEF Depths
<1>4. ASSUME NEW m \in 0..TreeDepth, m \in B, m < TreeDepth PROVE m + 1 \in B
  <2>1. m \in Levels /\ m + 1 \in Depths
    BY <1>1, <1>4, SMT DEF Levels, Depths
  <2>2. a[m + 1] = 0 \div 2
    BY <1>2, <1>4, <2>1
  <2>3. 0 \div 2 = 0
    BY SMT
  <2>. QED BY <2>1, <2>2, <2>3
<1>. HIDE DEF B
<1>5. 0..TreeDepth \subseteq B
  BY <1>1, <1>3, <1>4, UpwardInduction
<1>6. ASSUME NEW level \in Levels PROVE ~(Above(Len(<<>>))[level] % 2 = 1)
  <2>1. level \in 0..TreeDepth
    BY <1>1, SMT DEF Levels
  <2>2. a[level] = 0
    BY <1>5, <2>1 DEF B
  <2>3. ~(0 % 2 = 1)
    BY SMT
  <2>. QED BY <1>1, <2>2, <2>3 DEF a
<1>. QED BY <1>6 DEF Frontier

\* A tree has a number of leaves.
LEMMA CapacityType ==
    ASSUME TreeAssumption
    PROVE  Capacity \in Nat
<1>1. TreeDepth \in Depths
  BY SMT DEF TreeAssumption, Depths
<1>. QED BY <1>1, PowerFacts

\* What a longer sequence begins with.
LEMMA PrefixOfConcat ==
    ASSUME NEW X, NEW u \in Seq(X), NEW v \in Seq(X), NEW n \in 0..Len(u)
    PROVE  SubSeq(u \o v, 1, n) = SubSeq(u, 1, n)
  BY SMT

\* The stretch from the first element to the last is all of a sequence.
LEMMA WholeSeq ==
    ASSUME NEW X, NEW u \in Seq(X)
    PROVE  SubSeq(u, 1, Len(u)) = u
  BY SMT

\* A tree without leaves, nothing remembered but zeros: the pool when it is initialised.
LEMMA TreeStarts ==
    ASSUME TreeAssumption, InitializeMerkle
    PROVE  TreeInv
<1>1. 0 \in Trees
  BY SMT DEF Trees, TreeAssumption
<1>2. Capacity \in Nat /\ Len(<<>>) = 0 /\ <<>> \in Seq(Leaf)
  <2>1. Capacity \in Nat
    BY CapacityType
  <2>. QED BY <2>1, SMT
<1>3. leaves = [t \in Trees |-> <<>>] /\ treeNumber = 0 /\ nextLeafIndex = 0
  BY DEF InitializeMerkle
<1>4. merkleRoot = RootOf(<<>>) /\ rootHistory = {<<0, RootOf(<<>>)>>}
  BY EmptyRoot DEF InitializeMerkle
<1>5. Frontier(<<>>, filledSubTrees)
  <2>1. filledSubTrees = [level \in Levels |-> filledSubTrees[level]]
    BY DEF InitializeMerkle
  <2>. QED BY <2>1, EmptyFrontier
<1>6. ASSUME NEW h \in rootHistory
      PROVE  /\ h[1] \in Trees
             /\ \E n \in 0..Len(leaves[h[1]]) : h[2] = RootOf(SubSeq(leaves[h[1]], 1, n))
  <2>1. h[1] = 0 /\ h[2] = RootOf(<<>>)
    BY <1>4
  <2>2. leaves[0] = <<>> /\ 0 \in 0..Len(leaves[0])
    BY <1>1, <1>2, <1>3, SMT
  <2>3. SubSeq(leaves[0], 1, 0) = <<>>
    BY <1>2, <2>2, SubSeqEmpty
  <2>. QED BY <1>1, <2>1, <2>2, <2>3
<1>7. leaves[treeNumber] = <<>>
  BY <1>1, <1>3
<1>8. \A t \in Trees : Len(leaves[t]) <= Capacity /\ leaves[t] = <<>>
  BY <1>2, <1>3, SMT
<1>. QED BY <1>1, <1>2, <1>3, <1>4, <1>5, <1>6, <1>7, <1>8 DEF TreeInv

\* A call appends its leaves where it said it would, and the trees stay as they should be.
LEMMA TreeSteps ==
    ASSUME TreeAssumption, TreeInv, NEW batch \in Seq(Leaf), batch # <<>>,
           Len(batch) <= Capacity, InsertLeaves(batch)
    PROVE  LET at == GetInsertionTreeNumberAndStartingIndex(Len(batch)) IN
           /\ TreeInv'
           /\ at[1] \in Trees /\ at[2] = Len(leaves[at[1]])
           /\ leaves' = [leaves EXCEPT ![at[1]] = leaves[at[1]] \o batch]
<1>. DEFINE rolls == nextLeafIndex + Len(batch) > Capacity
<1>1. PICK tree : tree = IF rolls THEN treeNumber + 1 ELSE treeNumber
  OBVIOUS
<1>2. PICK at : at = IF rolls THEN 0 ELSE nextLeafIndex
  OBVIOUS
<1>3. PICK top : top = Folded(at, batch)[TreeDepth]
  OBVIOUS
<1>4. /\ tree \in Trees
      /\ treeNumber' = tree /\ nextLeafIndex' = at + Len(batch)
      /\ merkleRoot' = top.nodes[0] /\ filledSubTrees' = top.filled
      /\ rootHistory' = rootHistory \cup {<<tree, top.nodes[0]>>}
      /\ leaves' = [leaves EXCEPT ![tree] = leaves[tree] \o batch]
  BY <1>1, <1>2, <1>3 DEF InsertLeaves
<1>5. /\ GetInsertionTreeNumberAndStartingIndex(Len(batch))[1] = tree
      /\ GetInsertionTreeNumberAndStartingIndex(Len(batch))[2] = at
  BY <1>1, <1>2 DEF GetInsertionTreeNumberAndStartingIndex
<1>6. PICK s : s = leaves[tree]
  OBVIOUS
<1>7. /\ treeNumber \in Nat /\ tree \in Nat /\ Capacity \in Nat
      /\ s \in Seq(Leaf) /\ Len(s) \in Nat /\ Len(batch) \in Nat \ {0}
  <2>1. treeNumber \in Nat /\ tree \in Nat
    BY <1>4, SMT DEF TreeInv, Trees
  <2>2. Capacity \in Nat
    BY CapacityType
  <2>3. s \in Seq(Leaf)
    BY <1>4, <1>6 DEF TreeInv
  <2>. QED BY <2>1, <2>2, <2>3, SMT
<1>8. at = Len(s) /\ Len(s) + Len(batch) <= Capacity /\ Frontier(s, filledSubTrees) /\ tree >= treeNumber
  <2>1. CASE rolls
    <3>1. tree = treeNumber + 1 /\ at = 0
      BY <1>1, <1>2, <2>1
    <3>2. tree > treeNumber
      BY <1>7, <3>1, SMT
    <3>3. s = <<>>
      BY <1>4, <1>6, <3>2 DEF TreeInv
    <3>4. filledSubTrees = [level \in Levels |-> filledSubTrees[level]]
      BY DEF TreeInv, Frontier
    <3>5. Frontier(s, filledSubTrees)
      BY <3>3, <3>4, EmptyFrontier
    <3>6. Len(s) = 0
      BY <3>3, SMT
    <3>. QED BY <1>7, <3>1, <3>2, <3>5, <3>6, SMT
  <2>2. CASE ~rolls
    <3>1. tree = treeNumber /\ at = nextLeafIndex
      BY <1>1, <1>2, <2>2
    <3>2. at = Len(s) /\ Frontier(s, filledSubTrees)
      BY <1>6, <3>1 DEF TreeInv
    <3>. QED BY <1>7, <2>2, <3>1, <3>2, SMT
  <2>. QED BY <2>1, <2>2
<1>9. PICK t : t = s \o batch
  OBVIOUS
<1>10. top.nodes[0] = RootOf(t) /\ Frontier(t, top.filled)
  BY <1>3, <1>7, <1>8, <1>9, BatchIsFolded
<1>11. t \in Seq(Leaf) /\ Len(t) = Len(s) + Len(batch) /\ t # <<>> /\ Len(t) <= Capacity
  <2>1. t \in Seq(Leaf) /\ Len(t) = Len(s) + Len(batch)
    BY <1>7, <1>9, SMT
  <2>2. Len(t) # 0
    BY <1>7, <2>1, SMT
  <2>. QED BY <1>8, <2>1, <2>2, EmptySeq
<1>12. /\ leaves' \in [Trees -> Seq(Leaf)] /\ leaves'[tree] = t
       /\ \A r \in Trees : r # tree => leaves'[r] = leaves[r]
  BY <1>4, <1>6, <1>9, <1>11 DEF TreeInv
<1>13. ASSUME NEW r \in Trees
       PROVE  /\ Len(leaves'[r]) <= Capacity
              /\ r > tree => leaves'[r] = <<>>
              /\ leaves'[r] # <<>> => <<r, RootOf(leaves'[r])>> \in rootHistory'
  <2>1. CASE r = tree
    <3>1. ~(r > tree)
      BY <1>7, <2>1, SMT
    <3>. QED BY <1>4, <1>10, <1>11, <1>12, <2>1, <3>1, Zenon
  <2>2. CASE r # tree
    <3>1. leaves'[r] = leaves[r]
      BY <1>12, <2>2
    <3>2. r > tree => r > treeNumber
      BY <1>7, <1>8, SMT DEF Trees
    <3>. QED BY <1>4, <3>1, <3>2, Zenon DEF TreeInv
  <2>. QED BY <2>1, <2>2
<1>14. ASSUME NEW h \in rootHistory'
       PROVE  /\ h[1] \in Trees
              /\ \E n \in 0..Len(leaves'[h[1]]) : h[2] = RootOf(SubSeq(leaves'[h[1]], 1, n))
  <2>1. CASE h \in rootHistory
    <3>1. h[1] \in Trees
      BY <2>1 DEF TreeInv
    <3>2. PICK n \in 0..Len(leaves[h[1]]) : h[2] = RootOf(SubSeq(leaves[h[1]], 1, n))
      BY <2>1 DEF TreeInv
    <3>3. CASE h[1] = tree
      <4>1. leaves[h[1]] = s /\ leaves'[h[1]] = t
        BY <1>6, <1>12, <3>3
      <4>2. n \in 0..Len(s) /\ n \in 0..Len(t)
        BY <1>7, <1>11, <3>2, <4>1, SMT
      <4>3. SubSeq(t, 1, n) = SubSeq(s, 1, n)
        BY <1>7, <1>9, <4>2, PrefixOfConcat
      <4>. QED BY <3>1, <3>2, <4>1, <4>2, <4>3
    <3>4. CASE h[1] # tree
      BY <1>12, <3>1, <3>2, <3>4
    <3>. QED BY <3>3, <3>4
  <2>2. CASE h = <<tree, top.nodes[0]>>
    <3>1. h[1] = tree /\ h[2] = RootOf(t)
      BY <1>10, <2>2
    <3>2. leaves'[h[1]] = t
      BY <1>12, <3>1
    <3>3. SubSeq(t, 1, Len(t)) = t
      BY <1>11, WholeSeq
    <3>4. Len(t) \in 0..Len(t)
      BY <1>7, <1>11, SMT
    <3>. QED BY <1>4, <3>1, <3>2, <3>3, <3>4
  <2>. QED BY <1>4, <1>14, <2>1, <2>2
<1>15. TreeInv'
  <2>1. treeNumber' \in Trees /\ leaves'[treeNumber'] = t
    BY <1>4, <1>12
  <2>2. nextLeafIndex' = Len(leaves'[treeNumber']) /\ merkleRoot' = RootOf(leaves'[treeNumber'])
    BY <1>4, <1>8, <1>10, <1>11, <2>1
  <2>3. Frontier(leaves'[treeNumber'], filledSubTrees')
    BY <1>4, <1>10, <2>1
  <2>. QED BY <1>4, <1>12, <1>13, <1>14, <2>1, <2>2, <2>3 DEF TreeInv
<1>16. leaves' = [leaves EXCEPT ![tree] = leaves[tree] \o batch] /\ at = Len(leaves[tree])
  BY <1>4, <1>6, <1>8
<1>. QED BY <1>4, <1>5, <1>15, <1>16

\* The roots are those of the leaves.
LEMMA TreesAreCanonical ==
    ASSUME TreeInv
    PROVE  RootsAreCanonical
  BY DEF TreeInv, RootsAreCanonical

-----------------------------------------------------------------------------
(* Sums of values.                                                          *)

\* From m + 1 on, f has the values that g has from 1 on.
Repeats(f, g, m, n) == \A i \in 1..n : f[m + i] = g[i] /\ g[i] \in Nat

\* A stretch of a function adds up to what the sequence of its values does.
LEMMA SumShifted ==
    ASSUME NEW f, NEW g, NEW m \in Nat, NEW n \in Nat, Repeats(f, g, m, n)
    PROVE  SumOver(f, m + 1..m + n) = SumOver(g, 1..n)
<1>0. \A i \in 1..n : f[m + i] = g[i] /\ g[i] \in Nat
  BY DEF Repeats
<1>. DEFINE B == {k \in 0..n : SumOver(f, m + 1..m + k) = SumOver(g, 1..k)}
<1>1. 0 \in B
  <2>1. m + 1..m + 0 = {} /\ 1..0 = {} /\ 0 \in 0..n
    BY SMT
  <2>. QED BY <2>1, SumOfNone
<1>2. ASSUME NEW k \in 0..n, k \in B, k < n PROVE k + 1 \in B
  <2>1. /\ m + 1..m + (k + 1) = (m + 1..m + k) \cup {m + (k + 1)}
        /\ 1..k + 1 = (1..k) \cup {k + 1}
        /\ m + (k + 1) \notin m + 1..m + k /\ k + 1 \notin 1..k
        /\ k + 1 \in 1..n /\ k + 1 \in 0..n /\ 1..k \subseteq 1..n
        /\ \A y \in m + 1..m + k : y - m \in 1..n /\ m + (y - m) = y
    BY <1>2, SMT
  <2>2. IsFiniteSet(m + 1..m + k) /\ IsFiniteSet(1..k)
    BY FS_Interval, SMT
  <2>3. \A y \in 1..k : g[y] \in Nat
    BY <1>0, <2>1
  <2>4. \A y \in m + 1..m + k : f[y] \in Nat
    <3>. TAKE y \in m + 1..m + k
    <3>1. f[m + (y - m)] \in Nat
      BY <1>0, <2>1
    <3>. QED BY <2>1, <3>1
  <2>5. f[m + (k + 1)] = g[k + 1] /\ g[k + 1] \in Nat
    BY <1>0, <2>1
  <2>6. SumOver(f, (m + 1..m + k) \cup {m + (k + 1)}) = SumOver(f, m + 1..m + k) + f[m + (k + 1)]
    <3>1. PICK P : P = m + 1..m + k
      OBVIOUS
    <3>2. PICK x : x = m + (k + 1)
      OBVIOUS
    <3>3. IsFiniteSet(P) /\ x \notin P /\ (\A y \in P : f[y] \in Nat) /\ f[x] \in Nat
      BY <2>1, <2>2, <2>4, <2>5, <3>1, <3>2, Zenon
    <3>4. SumOver(f, P \cup {x}) = SumOver(f, P) + f[x]
      BY ONLY <3>3, SumInsert
    <3>. QED BY <3>1, <3>2, <3>4, Zenon
  <2>7. SumOver(g, (1..k) \cup {k + 1}) = SumOver(g, 1..k) + g[k + 1]
    <3>1. PICK P : P = 1..k
      OBVIOUS
    <3>2. PICK x : x = k + 1
      OBVIOUS
    <3>3. IsFiniteSet(P) /\ x \notin P /\ (\A y \in P : g[y] \in Nat) /\ g[x] \in Nat
      BY <2>1, <2>2, <2>3, <2>5, <3>1, <3>2, Zenon
    <3>4. SumOver(g, P \cup {x}) = SumOver(g, P) + g[x]
      BY ONLY <3>3, SumInsert
    <3>. QED BY <3>1, <3>2, <3>4, Zenon
  <2>8. SumOver(f, m + 1..m + k) = SumOver(g, 1..k)
    BY <1>2
  <2>9. SumOver(f, m + 1..m + (k + 1)) = SumOver(g, 1..k + 1)
    BY <2>1, <2>5, <2>6, <2>7, <2>8, Zenon
  <2>. QED BY <2>1, <2>9
<1>. HIDE DEF B
<1>3. 0..n \subseteq B
  BY <1>1, <1>2, UpwardInduction
<1>4. n \in 0..n
  BY SMT
<1>. QED BY <1>3, <1>4 DEF B

\* Naturals add up to a natural.
LEMMA TotalType ==
    ASSUME NEW u \in Seq(Nat)
    PROVE  Total(u) \in Nat
<1>1. DOMAIN u = 1..Len(u) /\ Len(u) \in Nat /\ u \in [1..Len(u) -> Nat]
  BY LenProperties
<1>2. IsFiniteSet(1..Len(u))
  BY <1>1, FS_Interval, SMT
<1>. QED BY <1>1, <1>2, SumType DEF Total

\* A stretch from 1, and the stretch after it.
LEMMA SumInTwo ==
    ASSUME NEW p \in Nat, NEW q \in Nat, NEW T, T = 1..p + q, NEW w \in [T -> Nat], NEW u, NEW v,
           Repeats(w, u, 0, p), Repeats(w, v, p, q)
    PROVE  SumOver(w, T) = SumOver(u, 1..p) + SumOver(v, 1..q)
<1>1. PICK R : R = 1..p
  OBVIOUS
<1>2. PICK S : S = p + 1..p + q
  OBVIOUS
<1>3. T = 1..p + q
  OBVIOUS
<1>4. T = R \cup S /\ R \cap S = {} /\ R \in SUBSET T /\ S \in SUBSET T
  BY <1>1, <1>2, <1>3, SMT
<1>5. IsFiniteSet(R) /\ IsFiniteSet(S)
  BY <1>1, <1>2, FS_Interval, SMT
<1>7. SumOver(w, R \cup S) = SumOver(w, R) + SumOver(w, S)
  BY <1>4, <1>5, SumOfDisjoint
<1>8. SumOver(w, R) = SumOver(u, R)
  <2>1. \A i \in 1..p : w[i] = u[i]
    BY SMT DEF Repeats
  <2>. QED BY <1>1, <2>1, SumCongruence
<1>9. SumOver(w, p + 1..p + q) = SumOver(v, 1..q)
  BY SumShifted
<1>. QED BY <1>1, <1>2, <1>3, <1>4, <1>7, <1>8, <1>9, Zenon

\* The values of one sequence after another.
LEMMA TotalOfConcat ==
    ASSUME NEW u, NEW v, u \in Seq(Nat), v \in Seq(Nat)
    PROVE  Total(u \o v) = Total(u) + Total(v)
<1>1. PICK w : w = u \o v
  OBVIOUS
<1>2. PICK p : p = Len(u)
  OBVIOUS
<1>3. PICK q : q = Len(v)
  OBVIOUS
<1>4. PICK T : T = 1..p + q
  OBVIOUS
<1>5. /\ p \in Nat /\ q \in Nat /\ DOMAIN u = 1..p /\ DOMAIN v = 1..q /\ DOMAIN w = T
      /\ w \in [T -> Nat]
  <2>1. w \in Seq(Nat) /\ Len(w) = p + q
    BY <1>1, <1>2, <1>3, ConcatProperties
  <2>. QED BY <1>2, <1>3, <1>4, <2>1, LenProperties
<1>6. Repeats(w, u, 0, p)
  BY <1>1, <1>2, SMT DEF Repeats
<1>7. Repeats(w, v, p, q)
  BY <1>1, <1>2, <1>3, SMT DEF Repeats
<1>8. SumOver(w, T) = SumOver(u, 1..p) + SumOver(v, 1..q)
  BY ONLY <1>4, <1>5, <1>6, <1>7, SumInTwo
<1>. QED BY <1>1, <1>5, <1>8, Zenon DEF Total

\* One value is its own total.
LEMMA TotalOfOne ==
    ASSUME NEW x \in Nat
    PROVE  Total(<<x>>) = x
<1>1. DOMAIN <<x>> = {1} /\ <<x>>[1] = x
  BY SMT
<1>. QED BY <1>1, SumOfOne DEF Total

\* The first value and the others.
LEMMA TotalOfHead ==
    ASSUME NEW u \in Seq(Nat), u # <<>>
    PROVE  /\ Total(u) = u[1] + Total(Tail(u))
           /\ u[1] \in Nat /\ Tail(u) \in Seq(Nat) /\ Total(Tail(u)) \in Nat
<1>1. u[1] \in Nat /\ Tail(u) \in Seq(Nat) /\ <<u[1]>> \in Seq(Nat)
  BY SMT
<1>2. u = <<u[1]>> \o Tail(u)
  BY SMT
<1>3. Total(<<u[1]>> \o Tail(u)) = Total(<<u[1]>>) + Total(Tail(u))
  BY <1>1, TotalOfConcat
<1>. QED BY <1>1, <1>2, <1>3, TotalOfOne, TotalType, Zenon

\* FlattenSeq joins, and adds what each sequence adds up to.
LEMMA FlattenFacts ==
    ASSUME NEW X \in SUBSET Nat, NEW seqs \in Seq(Seq(X)), seqs # <<>>
    PROVE  /\ FlattenSeq(seqs) \in Seq(X)
           /\ Total(FlattenSeq(seqs)) = SumOver([i \in 1..Len(seqs) |-> Total(seqs[i])], 1..Len(seqs))
<1>1. PICK n : n = Len(seqs)
  OBVIOUS
<1>2. n \in Nat /\ n # 0
  BY <1>1, EmptySeq, SMT
<1>3. PICK f : IsJoint(f, n, seqs)
  BY <1>2, JointExist
<1>4. f[0] = <<>> /\ \A k \in 0..n : k < n => f[k + 1] = f[k] \o seqs[k + 1]
  <2>1. \A level \in 0..n : f[level] = IF level = 0 THEN <<>> ELSE f[level - 1] \o seqs[level]
    BY <1>3, Zenon DEF IsJoint
  <2>2. 0 \in 0..n
    BY <1>2, SMT
  <2>3. ASSUME NEW k \in 0..n, k < n PROVE f[k + 1] = f[k] \o seqs[k + 1]
    <3>1. PICK j : j = k + 1
      OBVIOUS
    <3>2. j \in 0..n /\ j # 0 /\ j - 1 = k
      BY <1>2, <2>3, <3>1, SMT
    <3>. QED BY <2>1, <3>1, <3>2, Zenon
  <2>. QED BY <2>1, <2>2, <2>3
<1>5. \A i \in 1..n : seqs[i] \in Seq(X) /\ seqs[i] \in Seq(Nat)
  <2>. SUFFICES ASSUME NEW i \in 1..n PROVE seqs[i] \in Seq(X) /\ seqs[i] \in Seq(Nat)
    OBVIOUS
  <2>1. seqs[i] \in Seq(X)
    BY <1>1, ElementOfSeq
  <2>. QED BY <2>1, SeqMonotonic
<1>. DEFINE t == [i \in 1..n |-> Total(seqs[i])]
            B == {k \in 0..n : /\ f[k] \in Seq(X) /\ f[k] \in Seq(Nat)
                               /\ Total(f[k]) = SumOver(t, 1..k)}
<1>6. \A i \in 1..n : t[i] \in Nat /\ t[i] = Total(seqs[i])
  BY <1>5, TotalType
<1>. HIDE DEF t
<1>7. 0 \in B
  <2>1. 0 \in 0..n /\ 1..0 = {} /\ DOMAIN <<>> = {}
    BY <1>2, SMT
  <2>2. <<>> \in Seq(X) /\ <<>> \in Seq(Nat)
    BY SMT
  <2>. QED BY <1>4, <2>1, <2>2, SumOfNone DEF Total
<1>8. ASSUME NEW k \in 0..n, k \in B, k < n PROVE k + 1 \in B
  <2>1. /\ k + 1 \in 0..n /\ k + 1 \in 1..n
        /\ 1..k + 1 = (1..k) \cup {k + 1} /\ k + 1 \notin 1..k /\ 1..k \subseteq 1..n
    BY <1>2, <1>8, SMT
  <2>2. PICK a : a = f[k]
    OBVIOUS
  <2>3. PICK b : b = seqs[k + 1]
    OBVIOUS
  <2>4. /\ a \in Seq(X) /\ a \in Seq(Nat) /\ b \in Seq(X) /\ b \in Seq(Nat)
        /\ Total(a) = SumOver(t, 1..k) /\ f[k + 1] = a \o b /\ Total(b) = t[k + 1]
    BY <1>4, <1>5, <1>6, <1>8, <2>1, <2>2, <2>3
  <2>5. f[k + 1] \in Seq(X) /\ f[k + 1] \in Seq(Nat)
    BY <2>4, ConcatProperties
  <2>6. Total(f[k + 1]) = Total(a) + Total(b)
    BY <2>4, TotalOfConcat
  <2>7. SumOver(t, (1..k) \cup {k + 1}) = SumOver(t, 1..k) + t[k + 1]
    <3>1. IsFiniteSet(1..k) /\ (\A y \in 1..k : t[y] \in Nat) /\ t[k + 1] \in Nat
      BY <1>6, <2>1, FS_Interval, SMT
    <3>. HIDE DEF B
    <3>2. PICK P : P = 1..k
      OBVIOUS
    <3>3. PICK x : x = k + 1
      OBVIOUS
    <3>4. IsFiniteSet(P) /\ x \notin P /\ (\A y \in P : t[y] \in Nat) /\ t[x] \in Nat
      BY <2>1, <3>1, <3>2, <3>3, Zenon
    <3>5. SumOver(t, P \cup {x}) = SumOver(t, P) + t[x]
      BY ONLY <3>4, SumInsert
    <3>. QED BY <3>2, <3>3, <3>5, Zenon
  <2>. QED BY <2>1, <2>4, <2>5, <2>6, <2>7
<1>. HIDE DEF B
<1>9. n \in B
  <2>1. 0..n \subseteq B
    BY <1>2, <1>7, <1>8, UpwardInduction
  <2>2. n \in 0..n
    BY <1>2, SMT
  <2>. QED BY <2>1, <2>2
<1>10. FlattenSeq(seqs) = f[n]
  <2>. DEFINE IsFlat(g) == g = [i \in 1..n |-> IF i = 1 THEN seqs[i] ELSE g[i - 1] \o seqs[i]]
              h == CHOOSE g : IsFlat(g)
  <2>1. FlattenSeq(seqs) = h[n]
    BY <1>1, <1>2 DEF FlattenSeq
  <2>2. \E g : IsFlat(g)
    <3>. DEFINE g == [i \in 1..n |-> f[i]]
    <3>1. ASSUME NEW i \in 1..n
          PROVE  f[i] = IF i = 1 THEN seqs[i] ELSE g[i - 1] \o seqs[i]
      <4>1. PICK k : k = i - 1
        OBVIOUS
      <4>2. k \in 0..n /\ k < n /\ k + 1 = i /\ (i # 1 => k \in 1..n) /\ (i = 1 => k = 0)
        BY <1>2, <4>1, SMT
      <4>3. f[i] = f[k] \o seqs[i]
        BY <1>4, <4>2
      <4>4. CASE i = 1
        <5>1. f[k] = <<>> /\ seqs[i] \in Seq(X)
          BY <1>4, <1>5, <4>2, <4>4
        <5>2. <<>> \o seqs[i] = seqs[i]
          BY <5>1, ConcatEmptySeq
        <5>. QED BY <4>3, <4>4, <5>1, <5>2
      <4>5. CASE i # 1
        BY <4>1, <4>2, <4>3, <4>5
      <4>. QED BY <4>4, <4>5
    <3>2. IsFlat(g)
      BY <3>1
    <3>. QED BY <3>2
  <2>3. IsFlat(h)
    BY <2>2
  <2>. HIDE DEF h
  <2>4. \A i \in 1..n : h[i] = IF i = 1 THEN seqs[i] ELSE h[i - 1] \o seqs[i]
    BY <2>3, Zenon
  <2>. DEFINE C == {k \in 0..n : k # 0 => h[k] = f[k]}
  <2>5. 0 \in C
    BY <1>2, SMT
  <2>6. ASSUME NEW k \in 0..n, k \in C, k < n PROVE k + 1 \in C
    <3>1. PICK j : j = k + 1
      OBVIOUS
    <3>2. j \in 1..n /\ j \in 0..n /\ j - 1 = k /\ (j = 1 <=> k = 0)
      BY <1>2, <2>6, <3>1, SMT
    <3>3. f[j] = f[k] \o seqs[j]
      BY <1>4, <2>6, <3>1
    <3>4. h[j] = IF j = 1 THEN seqs[j] ELSE h[k] \o seqs[j]
      BY <2>4, <3>2, Zenon
    <3>5. CASE k = 0
      <4>1. f[k] = <<>> /\ seqs[j] \in Seq(X)
        BY <1>4, <1>5, <3>2, <3>5
      <4>2. <<>> \o seqs[j] = seqs[j]
        BY <4>1, ConcatEmptySeq
      <4>. QED BY <3>1, <3>2, <3>3, <3>4, <3>5, <4>1, <4>2
    <3>6. CASE k # 0
      <4>1. h[k] = f[k]
        BY <2>6, <3>6
      <4>. QED BY <3>1, <3>2, <3>3, <3>4, <3>6, <4>1
    <3>. QED BY <3>5, <3>6
  <2>. HIDE DEF C
  <2>7. n \in C
    <3>1. 0..n \subseteq C
      BY <1>2, <2>5, <2>6, UpwardInduction
    <3>2. n \in 0..n
      BY <1>2, SMT
    <3>. QED BY <3>1, <3>2
  <2>. QED BY <1>2, <2>1, <2>7 DEF C
<1>. QED BY <1>1, <1>9, <1>10 DEF B, t

-----------------------------------------------------------------------------
(* What a transaction may be.                                               *)

Value == Nat \ {0}

\* What a user asks for is a sequence that is not empty.
LEMMA UpToFacts ==
    ASSUME NEW S, NEW n \in Nat, NEW v \in UpTo(S, n)
    PROVE  v \in Seq(S) /\ v # <<>> /\ v[1] \in S /\ Len(v) \in 1..n
<1>1. PICK k \in 1..n : v \in [1..k -> S]
  BY DEF UpTo
<1>2. v \in Seq(S) /\ Len(v) = k
  <2>1. k \in Nat
    BY SMT
  <2>2. v \in Seq(S)
    BY <1>1, <2>1, SeqDef
  <2>3. 1..Len(v) = 1..k /\ Len(v) \in Nat
    BY <1>1, <2>2, LenProperties
  <2>. QED BY <2>1, <2>2, <2>3, SMT
<1>3. 1 \in 1..k
  BY SMT
<1>. QED BY <1>1, <1>2, <1>3, EmptySeq, SMT

\* A sequence of values is one of naturals.
LEMMA ValuesAreNat ==
    ASSUME NEW v \in Seq(Value)
    PROVE  v \in Seq(Nat) /\ Total(v) \in Nat
<1>1. Value \subseteq Nat
  BY DEF Value
<1>2. v \in Seq(Nat)
  BY <1>1, SeqMonotonic
<1>. QED BY <1>2, TotalType

\* Whatever a transaction takes in goes to its outputs or leaves.
LEMMA TransactionFacts ==
    ASSUME MaxBatch \in Nat, NEW ins, Worth(ins) \in Nat, NEW t \in TransactionsOver(ins)
    PROVE  /\ t.outs \in Seq(Value) /\ t.leaving \in Nat
           /\ Total(t.outs) + t.leaving = Worth(ins)
           /\ t.payee \in Accounts \cup {Pool}
<1>1. PICK w : w = Worth(ins)
  OBVIOUS
<1>2. PICK o \in {<<>>} \cup UpTo(1..w, MaxBatch), p \in Accounts \cup {Pool} :
          Total(o) <= w /\ t = [outs |-> o, leaving |-> w - Total(o), payee |-> p]
  BY <1>1 DEF TransactionsOver
<1>3. o \in Seq(Value)
  <2>1. CASE o = <<>>
    BY <2>1
  <2>2. CASE o \in UpTo(1..w, MaxBatch)
    <3>1. o \in Seq(1..w)
      BY <2>2, UpToFacts
    <3>2. 1..w \subseteq Value
      BY <1>1, SMT DEF Value
    <3>. QED BY <3>1, <3>2, SeqMonotonic
  <2>. QED BY <1>2, <2>1, <2>2
<1>4. PICK s : s = Total(o)
  OBVIOUS
<1>5. s \in Nat /\ w \in Nat /\ s <= w
  BY <1>1, <1>2, <1>3, <1>4, ValuesAreNat
<1>6. w - s \in Nat /\ s + (w - s) = w
  BY <1>5, SMT
<1>7. t.outs = o /\ t.leaving = w - s /\ t.payee = p
  BY <1>2, <1>4
<1>. QED BY <1>1, <1>2, <1>3, <1>4, <1>6, <1>7

\* A batch has one transaction over each of its input sets.
LEMMA BatchFacts ==
    ASSUME NEW n \in Nat, NEW inputs, Len(inputs) = n, NEW batch \in BatchesOver(inputs)
    PROVE  /\ batch = [i \in 1..n |-> batch[i]]
           /\ \A i \in 1..n : batch[i] \in TransactionsOver(inputs[i])
<1>. DEFINE All == UNION {TransactionsOver(inputs[i]) : i \in 1..n}
            f == CHOOSE upTo : IsChoices(upTo, n, inputs)
            B == {k \in 0..n : \A b \in f[k] : /\ b \in Seq(All) /\ Len(b) = k
                                               /\ \A i \in 1..k : b[i] \in TransactionsOver(inputs[i])}
<1>1. IsChoices(f, n, inputs)
  BY ChoicesExist
<1>2. BatchesOver(inputs) = f[n]
  BY DEF BatchesOver, IsChoices, Extended
<1>. HIDE DEF f
<1>3. f[0] = {<<>>} /\ \A k \in 0..n : k < n => f[k + 1] = Extended(f[k], inputs[k + 1])
  <2>1. \A level \in 0..n : f[level] = IF level = 0 THEN {<<>>}
                                       ELSE Extended(f[level - 1], inputs[level])
    BY <1>1, Zenon DEF IsChoices
  <2>2. 0 \in 0..n
    BY SMT
  <2>3. ASSUME NEW k \in 0..n, k < n PROVE f[k + 1] = Extended(f[k], inputs[k + 1])
    <3>1. PICK j : j = k + 1
      OBVIOUS
    <3>2. j \in 0..n /\ j # 0 /\ j - 1 = k
      BY <2>3, <3>1, SMT
    <3>. QED BY <2>1, <3>1, <3>2, Zenon
  <2>. QED BY <2>1, <2>2, <2>3
<1>4. 0 \in B
  <2>1. 0 \in 0..n /\ 1..0 = {}
    BY SMT
  <2>2. <<>> \in Seq(All) /\ Len(<<>>) = 0
    BY SMT
  <2>. QED BY <1>3, <2>1, <2>2
<1>5. ASSUME NEW k \in 0..n, k \in B, k < n PROVE k + 1 \in B
  <2>1. k + 1 \in 0..n /\ k + 1 \in 1..n
    BY <1>5, SMT
  <2>2. ASSUME NEW c \in f[k + 1]
        PROVE  /\ c \in Seq(All) /\ Len(c) = k + 1
               /\ \A i \in 1..k + 1 : c[i] \in TransactionsOver(inputs[i])
    <3>1. PICK b \in f[k], t \in TransactionsOver(inputs[k + 1]) : c = Append(b, t)
      BY <1>3, <1>5 DEF Extended
    <3>2. b \in Seq(All) /\ Len(b) = k /\ \A i \in 1..k : b[i] \in TransactionsOver(inputs[i])
      BY <1>5, <3>1
    <3>3. t \in All
      BY <2>1, <3>1
    <3>. HIDE DEF All
    <3>4. c \in Seq(All) /\ Len(c) = k + 1 /\ c[k + 1] = t /\ \A i \in 1..k : c[i] = b[i]
      BY <3>1, <3>2, <3>3, SMT
    <3>5. \A i \in 1..k + 1 : i \in 1..k \/ i = k + 1
      BY SMT
    <3>. QED BY <3>1, <3>2, <3>4, <3>5
  <2>. QED BY <2>1, <2>2
<1>. HIDE DEF B
<1>6. 0..n \subseteq B
  BY <1>4, <1>5, UpwardInduction
<1>7. n \in 0..n
  BY SMT
<1>8. /\ batch \in Seq(All) /\ Len(batch) = n
      /\ \A i \in 1..n : batch[i] \in TransactionsOver(inputs[i])
  BY <1>2, <1>6, <1>7 DEF B
<1>9. batch = [i \in 1..n |-> batch[i]]
  <2>. HIDE DEF All
  <2>1. batch \in [1..n -> All]
    BY <1>8, LenProperties
  <2>. QED BY <2>1
<1>. QED BY <1>8, <1>9

\* Finite subsets of D that have nothing in common, and what f adds up to over each.
Apart(inputs, n, D) ==
    /\ \A i \in 1..n : inputs[i] \in SUBSET D /\ IsFiniteSet(inputs[i])
    /\ \A i, j \in 1..n : i # j => inputs[i] \cap inputs[j] = {}
SumsOf(t, f, inputs, n) == \A i \in 1..n : t[i] = SumOver(f, inputs[i])

\* The sum over sets that have nothing in common is the sum of the sums over each.
LEMMA SumOfUnion ==
    ASSUME NEW D, NEW f \in [D -> Nat], NEW n \in Nat, NEW inputs, NEW t,
           Apart(inputs, n, D), SumsOf(t, f, inputs, n),
           NEW all, all = UNION {inputs[i] : i \in 1..n}
    PROVE  SumOver(f, all) = SumOver(t, 1..n)
<1>. DEFINE U(k) == UNION {inputs[i] : i \in 1..k}
            B == {k \in 0..n : /\ IsFiniteSet(U(k)) /\ U(k) \in SUBSET D
                               /\ SumOver(f, U(k)) = SumOver(t, 1..k)}
<1>0. /\ \A i \in 1..n : inputs[i] \in SUBSET D /\ IsFiniteSet(inputs[i])
      /\ \A i, j \in 1..n : i # j => inputs[i] \cap inputs[j] = {}
      /\ \A i \in 1..n : t[i] = SumOver(f, inputs[i])
  BY DEF Apart, SumsOf
<1>1. 0 \in B
  <2>1. 1..0 = {} /\ 0 \in 0..n
    BY SMT
  <2>2. U(0) = {}
    BY <2>1
  <2>. QED BY <2>1, <2>2, SumOfNone, FS_EmptySet
<1>2. ASSUME NEW k \in 0..n, k \in B, k < n PROVE k + 1 \in B
  <2>1. /\ k + 1 \in 0..n /\ k + 1 \in 1..n /\ 1..k \subseteq 1..n
        /\ 1..k + 1 = (1..k) \cup {k + 1} /\ k + 1 \notin 1..k
    BY <1>2, SMT
  <2>2. PICK A : A = U(k)
    OBVIOUS
  <2>3. PICK S : S = inputs[k + 1]
    OBVIOUS
  <2>4. U(k + 1) = A \cup S
    BY <2>1, <2>2, <2>3
  <2>5. A \cap S = {}
    <3>1. \A i \in 1..k : inputs[i] \cap S = {}
      BY <1>0, <2>1, <2>3
    <3>. QED BY <2>2, <3>1
  <2>6. IsFiniteSet(A) /\ IsFiniteSet(S) /\ A \in SUBSET D /\ S \in SUBSET D
    BY <1>0, <1>2, <2>1, <2>2, <2>3
  <2>7. IsFiniteSet(A \cup S) /\ SumOver(f, A \cup S) = SumOver(f, A) + SumOver(f, S)
    <3>. HIDE DEF B, U
    <3>1. IsFiniteSet(A \cup S)
      BY <2>6, FS_Union
    <3>. QED BY <2>5, <2>6, <3>1, SumOfDisjoint
  <2>8. \A i \in 1..n : t[i] \in Nat
    BY <1>0, SumType
  <2>9. SumOver(t, (1..k) \cup {k + 1}) = SumOver(t, 1..k) + t[k + 1]
    <3>1. IsFiniteSet(1..k)
      BY FS_Interval, SMT
    <3>2. PICK P : P = 1..k
      OBVIOUS
    <3>3. PICK x : x = k + 1
      OBVIOUS
    <3>4. IsFiniteSet(P) /\ x \notin P /\ (\A y \in P : t[y] \in Nat) /\ t[x] \in Nat
      BY <2>1, <2>8, <3>1, <3>2, <3>3, Zenon
    <3>5. SumOver(t, P \cup {x}) = SumOver(t, P) + t[x]
      BY ONLY <3>4, SumInsert
    <3>. QED BY <3>2, <3>3, <3>5, Zenon
  <2>10. t[k + 1] = SumOver(f, S)
    BY <1>0, <2>1, <2>3
  <2>11. SumOver(f, A) = SumOver(t, 1..k)
    BY <1>2, <2>2
  <2>12. SumOver(f, U(k + 1)) = SumOver(t, 1..k + 1)
    <3>. HIDE DEF U
    <3>. QED BY <2>1, <2>4, <2>7, <2>9, <2>10, <2>11, Zenon
  <2>. QED BY <2>1, <2>4, <2>6, <2>7, <2>12
<1>. HIDE DEF B
<1>3. 0..n \subseteq B
  BY <1>1, <1>2, UpwardInduction
<1>4. n \in 0..n
  BY SMT
<1>. QED BY <1>3, <1>4 DEF B

-----------------------------------------------------------------------------
(* Notes, and the messages between the chains.                              *)

Note == [tree : Trees, index : Nat, value : Value]
ValuesOf(ns) == [k \in DOMAIN ns |-> ns[k].value]

\* Every note is the leaf where its event announced it.
NotesInv ==
    /\ TreeInv
    /\ notes \in Seq(Note)
    /\ \A k \in DOMAIN notes :
          /\ notes[k].index < Len(leaves[notes[k].tree])
          /\ leaves[notes[k].tree][notes[k].index + 1] = <<k>>

Message == [kind : {"shield", "unshield"}, values : Seq(Value), maxFee : Nat]

\* Every message has a first note that can bear any fee it accepts.
MessagesInv ==
    /\ sent \in Seq(Message)
    /\ \A nonce \in DOMAIN sent :
          sent[nonce].values # <<>> /\ FeeIsBearable(sent[nonce].values, sent[nonce].maxFee)

PoolInv ==
    /\ NotesInv
    /\ spent \subseteq DOMAIN notes
    /\ nullifiers = {NullifierOf(k) : k \in spent}
    /\ balance = Worth(DOMAIN notes \ spent)
    /\ MessagesInv

\* Notes are numbered, and each has a place.
LEMMA NoteTypes ==
    ASSUME NotesInv
    PROVE  /\ Len(notes) \in Nat /\ DOMAIN notes = 1..Len(notes)
           /\ \A k \in DOMAIN notes :
                 /\ notes[k] = [tree |-> notes[k].tree, index |-> notes[k].index, value |-> notes[k].value]
                 /\ notes[k].tree \in Trees /\ notes[k].index \in Nat /\ notes[k].value \in Value
<1>1. notes \in Seq(Note)
  BY DEF NotesInv
<1>2. Len(notes) \in Nat /\ DOMAIN notes = 1..Len(notes)
  BY <1>1, LenProperties
<1>3. \A k \in DOMAIN notes : notes[k] \in Note
  BY <1>1, <1>2, ElementOfSeq
<1>. QED BY <1>2, <1>3 DEF Note

\* No two notes have one nullifier.
LEMMA NullifiersDiffer ==
    ASSUME NotesInv, NEW j \in DOMAIN notes, NEW k \in DOMAIN notes, NullifierOf(j) = NullifierOf(k)
    PROVE  j = k
<1>1. notes[j].tree = notes[k].tree /\ notes[j].index = notes[k].index
  BY DEF NullifierOf
<1>2. <<j>> = <<k>>
  BY <1>1 DEF NotesInv
<1>. QED BY <1>2

\* Any set of notes is worth a number.
LEMMA WorthType ==
    ASSUME NotesInv
    PROVE  /\ ValuesOf(notes) \in [DOMAIN notes -> Nat]
           /\ \A ks \in SUBSET DOMAIN notes :
                 /\ IsFiniteSet(ks) /\ Worth(ks) \in Nat
                 /\ Worth(ks) = SumOver(ValuesOf(notes), ks)
<1>1. DOMAIN notes = 1..Len(notes) /\ Len(notes) \in Nat /\ \A k \in DOMAIN notes : notes[k].value \in Nat
  BY NoteTypes DEF Value
<1>2. ValuesOf(notes) \in [DOMAIN notes -> Nat]
  BY <1>1 DEF ValuesOf
<1>3. IsFiniteSet(DOMAIN notes)
  <2>1. PICK m : m = Len(notes)
    OBVIOUS
  <2>2. m \in Nat
    BY <1>1, <2>1
  <2>3. IsFiniteSet(1..m)
    BY <2>2, FS_Interval, SMT
  <2>. QED BY <1>1, <2>1, <2>3, Zenon
<1>4. ASSUME NEW ks \in SUBSET DOMAIN notes
      PROVE  /\ IsFiniteSet(ks) /\ Worth(ks) \in Nat
             /\ Worth(ks) = SumOver(ValuesOf(notes), ks)
  <2>1. IsFiniteSet(ks)
    BY <1>3, <1>4, FS_Subset
  <2>2. SumOver(ValuesOf(notes), ks) \in Nat
    BY <1>2, <2>1, SumType
  <2>. QED BY <2>1, <2>2 DEF Worth, ValuesOf
<1>. QED BY <1>2, <1>4

\* New notes take the places announced for them, and are worth their values.
LEMMA NotesAreAdded ==
    ASSUME TreeAssumption, NotesInv, NEW values \in Seq(Value), AddNotes(values)
    PROVE  /\ NotesInv'
           /\ DOMAIN notes \subseteq DOMAIN notes'
           /\ \A k \in DOMAIN notes : notes'[k] = notes[k]
           /\ \A gone \in SUBSET DOMAIN notes :
                 SumOver(ValuesOf(notes'), DOMAIN notes' \ gone) = Worth(DOMAIN notes \ gone) + Total(values)
<1>1. PICK m : m = Len(notes)
  OBVIOUS
<1>2. PICK n : n = Len(values)
  OBVIOUS
<1>3. /\ m \in Nat /\ DOMAIN notes = 1..m /\ n \in Nat /\ DOMAIN values = 1..n
      /\ \A i \in 1..n : values[i] \in Value /\ values[i] \in Nat
  <2>1. n \in Nat /\ DOMAIN values = 1..n /\ values \in [1..n -> Value]
    BY <1>2, LenProperties
  <2>. QED BY <1>1, <2>1, NoteTypes DEF Value
<1>4. PICK at : at = GetInsertionTreeNumberAndStartingIndex(n)
  OBVIOUS
<1>5. PICK new : new = [i \in 1..n |-> [tree |-> at[1], index |-> at[2] + i - 1, value |-> values[i]]]
  OBVIOUS
<1>6. PICK batch : batch = [i \in 1..n |-> <<m + i>>]
  OBVIOUS
<1>7. /\ Len(values) <= Capacity /\ notes' = notes \o new /\ InsertLeaves(batch)
  BY <1>1, <1>2, <1>3, <1>4, <1>5, <1>6 DEF AddNotes
<1>8. batch \in Seq(Leaf) /\ Len(batch) = n /\ \A i \in 1..n : batch[i] = <<m + i>>
  <2>1. \A i \in 1..n : m + i \in Nat
    BY <1>3, SMT
  <2>2. batch \in [1..n -> Leaf]
    BY <1>6, <2>1 DEF Leaf
  <2>3. batch \in Seq(Leaf)
    BY <1>3, <2>2, SeqDef
  <2>4. 1..Len(batch) = 1..n /\ Len(batch) \in Nat
    BY <2>2, <2>3, LenProperties
  <2>5. Len(batch) = n
    BY <1>3, <2>4, SMT
  <2>6. \A i \in 1..n : batch[i] = <<m + i>>
    BY <1>6
  <2>. QED BY <2>3, <2>5, <2>6
<1>9. /\ TreeInv'
      /\ \A t \in Trees : /\ Len(leaves[t]) <= Len(leaves'[t])
                          /\ \A i \in 1..Len(leaves[t]) : leaves'[t][i] = leaves[t][i]
      /\ \A i \in 1..n : /\ at[1] \in Trees /\ at[2] + i - 1 \in Nat
                         /\ at[2] + i - 1 < Len(leaves'[at[1]])
                         /\ leaves'[at[1]][at[2] + i - 1 + 1] = <<m + i>>
  <2>1. TreeInv /\ leaves \in [Trees -> Seq(Leaf)]
    BY DEF NotesInv, TreeInv
  <2>2. CASE n = 0
    <3>1. batch = <<>> /\ 1..n = {}
      BY <1>8, <2>2, EmptySeq, SMT
    <3>2. UNCHANGED treeVars
      BY <1>7, <3>1 DEF InsertLeaves
    <3>3. TreeInv' /\ leaves' = leaves
      BY <2>1, <3>2 DEF treeVars, TreeInv
    <3>4. \A t \in Trees : Len(leaves[t]) <= Len(leaves'[t])
      <4>1. \A t \in Trees : Len(leaves[t]) \in Nat
        BY <2>1, LenProperties
      <4>. QED BY <3>3, <4>1, SMT
    <3>. QED BY <3>1, <3>3, <3>4
  <2>3. CASE n # 0
    <3>1. batch # <<>>
      BY <1>8, <2>3, EmptySeq
    <3>2. /\ TreeInv'
          /\ at[1] \in Trees /\ at[2] = Len(leaves[at[1]])
          /\ leaves' = [leaves EXCEPT ![at[1]] = leaves[at[1]] \o batch]
      BY <1>2, <1>4, <1>7, <1>8, <2>1, <3>1, TreeSteps
    <3>3. PICK t : t = at[1]
      OBVIOUS
    <3>4. PICK s : s = leaves[t]
      OBVIOUS
    <3>5. PICK u : u = s \o batch
      OBVIOUS
    <3>6. s \in Seq(Leaf) /\ at[2] = Len(s) /\ leaves'[t] = u /\ \A r \in Trees : r # t => leaves'[r] = leaves[r]
      BY <2>1, <3>2, <3>3, <3>4, <3>5
    <3>7. /\ Len(s) \in Nat /\ Len(u) = Len(s) + n
          /\ \A i \in 1..Len(s) : u[i] = s[i]
          /\ \A i \in 1..n : u[Len(s) + i] = batch[i]
      <4>1. Len(s) \in Nat /\ Len(u) = Len(s) + n
        <5>1. Len(s) \in Nat
          BY <3>6, LenProperties
        <5>2. Len(u) = Len(s) + Len(batch)
          BY <1>8, <3>5, <3>6, ConcatProperties
        <5>. QED BY <1>8, <5>1, <5>2
      <4>2. \A i \in 1..Len(s) : u[i] = s[i]
        BY <1>8, <3>5, <3>6, <4>1, SMT
      <4>3. \A i \in 1..n : u[Len(s) + i] = batch[i]
        BY <1>8, <3>5, <3>6, <4>1, SMT
      <4>. QED BY <4>1, <4>2, <4>3
    <3>8. ASSUME NEW r \in Trees
          PROVE  /\ Len(leaves[r]) <= Len(leaves'[r])
                 /\ \A i \in 1..Len(leaves[r]) : leaves'[r][i] = leaves[r][i]
      <4>1. Len(leaves[r]) \in Nat
        BY <2>1, LenProperties
      <4>2. Len(s) <= Len(u)
        BY <1>3, <3>7, SMT
      <4>3. CASE r = t
        BY <3>4, <3>6, <3>7, <4>2, <4>3
      <4>4. CASE r # t
        BY <3>6, <4>1, <4>4, SMT
      <4>. QED BY <4>3, <4>4
    <3>9. ASSUME NEW i \in 1..n
          PROVE  /\ at[2] + i - 1 \in Nat
                 /\ at[2] + i - 1 < Len(u)
                 /\ u[at[2] + i - 1 + 1] = <<m + i>>
      <4>1. PICK p : p = Len(s)
        OBVIOUS
      <4>2. p + i - 1 \in Nat /\ p + i - 1 < p + n /\ p + i - 1 + 1 = p + i
        BY <1>3, <3>7, <3>9, <4>1, SMT
      <4>3. u[p + i] = <<m + i>>
        BY <1>8, <3>7, <3>9, <4>1
      <4>. QED BY <3>6, <3>7, <4>1, <4>2, <4>3
    <3>. QED BY <3>2, <3>3, <3>6, <3>8, <3>9
  <2>. QED BY <2>2, <2>3
<1>10. /\ new \in Seq(Note) /\ Len(new) = n
  <2>1. \A i \in 1..n : new[i] \in Note
    BY <1>3, <1>5, <1>9 DEF Note
  <2>2. new \in [1..n -> Note]
    BY <1>5, <2>1
  <2>3. new \in Seq(Note)
    BY <1>3, <2>2, SeqDef
  <2>4. 1..Len(new) = 1..n /\ Len(new) \in Nat
    BY <2>2, <2>3, LenProperties
  <2>. QED BY <1>3, <2>3, <2>4, SMT
<1>11. /\ notes' \in Seq(Note) /\ DOMAIN notes' = 1..m + n /\ DOMAIN notes \subseteq DOMAIN notes'
       /\ \A k \in 1..m : notes'[k] = notes[k]
       /\ \A i \in 1..n : notes'[m + i] = new[i]
  <2>1. notes \in Seq(Note)
    BY DEF NotesInv
  <2>2. notes' \in Seq(Note) /\ Len(notes') = m + n
    BY <1>1, <1>7, <1>10, <2>1, ConcatProperties
  <2>3. /\ \A k \in 1..m : notes'[k] = notes[k]
        /\ \A i \in 1..n : notes'[m + i] = new[i]
    BY <1>1, <1>3, <1>7, <1>10, <2>1, SMT
  <2>4. DOMAIN notes' = 1..m + n
    BY <2>2, LenProperties
  <2>5. 1..m \subseteq 1..m + n
    BY <1>3, SMT
  <2>. QED BY <1>3, <2>2, <2>3, <2>4, <2>5
<1>12. \A k \in DOMAIN notes' : k \in 1..m \/ \E i \in 1..n : k = m + i
  <2>1. \A k \in 1..m + n : k \in 1..m \/ (k - m \in 1..n /\ k = m + (k - m))
    BY <1>3, SMT
  <2>. QED BY <1>11, <2>1
<1>13. NotesInv'
  <2>1. ASSUME NEW k \in DOMAIN notes'
        PROVE  /\ notes'[k].index < Len(leaves'[notes'[k].tree])
               /\ leaves'[notes'[k].tree][notes'[k].index + 1] = <<k>>
    <3>1. CASE k \in 1..m
      <4>1. PICK t : t = notes[k].tree
        OBVIOUS
      <4>2. PICK x : x = notes[k].index
        OBVIOUS
      <4>3. t \in Trees /\ x \in Nat /\ x < Len(leaves[t]) /\ leaves[t][x + 1] = <<k>>
        BY <1>3, <3>1, <4>1, <4>2, NoteTypes DEF NotesInv
      <4>4. Len(leaves[t]) \in Nat /\ Len(leaves'[t]) \in Nat
        <5>1. leaves[t] \in Seq(Leaf) /\ leaves'[t] \in Seq(Leaf)
          BY <1>9, <4>3 DEF NotesInv, TreeInv
        <5>. QED BY <5>1, LenProperties
      <4>5. x + 1 \in 1..Len(leaves[t]) /\ x < Len(leaves'[t])
        BY <1>9, <4>3, <4>4, SMT
      <4>6. leaves'[t][x + 1] = <<k>>
        BY <1>9, <4>3, <4>5
      <4>. QED BY <1>11, <3>1, <4>1, <4>2, <4>5, <4>6
    <3>2. CASE \E i \in 1..n : k = m + i
      <4>1. PICK i \in 1..n : k = m + i
        BY <3>2
      <4>2. notes'[k].tree = at[1] /\ notes'[k].index = at[2] + i - 1
        BY <1>5, <1>11, <4>1
      <4>. QED BY <1>9, <4>1, <4>2
    <3>. QED BY <1>12, <3>1, <3>2
  <2>. QED BY <1>9, <1>11, <2>1 DEF NotesInv
<1>14. ASSUME NEW gone \in SUBSET DOMAIN notes
       PROVE  SumOver(ValuesOf(notes'), DOMAIN notes' \ gone) = Worth(DOMAIN notes \ gone) + Total(values)
  <2>1. PICK W : W = ValuesOf(notes')
    OBVIOUS
  <2>2. PICK D : D = DOMAIN notes'
    OBVIOUS
  <2>3. PICK R : R = DOMAIN notes \ gone
    OBVIOUS
  <2>4. PICK S : S = m + 1..m + n
    OBVIOUS
  <2>5. D \ gone = R \cup S /\ R \cap S = {} /\ R \in SUBSET D /\ S \in SUBSET D
    <3>1. D = (1..m) \cup S /\ (1..m) \cap S = {}
      BY <1>3, <1>11, <2>2, <2>4, SMT
    <3>. QED BY <1>3, <2>3, <3>1
  <2>6. IsFiniteSet(R) /\ IsFiniteSet(S) /\ Worth(R) \in Nat /\ Worth(R) = SumOver(ValuesOf(notes), R)
    <3>1. IsFiniteSet(S)
      BY <1>3, <2>4, FS_Interval, SMT
    <3>. QED BY <2>3, <3>1, WorthType
  <2>7. W \in [D -> Nat]
    <3>1. \A k \in DOMAIN notes' : notes'[k].value \in Nat
      <4>1. \A k \in DOMAIN notes' : notes'[k] \in Note
        BY <1>11, ElementOfSeq, LenProperties
      <4>. QED BY <4>1 DEF Note, Value
    <3>. QED BY <2>1, <2>2, <3>1 DEF ValuesOf
  <2>8. SumOver(W, R \cup S) = SumOver(W, R) + SumOver(W, S)
    BY <2>5, <2>6, <2>7, SumOfDisjoint
  <2>9. SumOver(W, R) = SumOver(ValuesOf(notes), R)
    <3>1. \A k \in R : W[k] = ValuesOf(notes)[k]
      BY <1>3, <1>11, <2>1, <2>3 DEF ValuesOf
    <3>. QED BY <3>1, SumCongruence
  <2>10. SumOver(W, m + 1..m + n) = SumOver(values, 1..n)
    <3>1. ASSUME NEW i \in 1..n
          PROVE  W[m + i] = values[i] /\ values[i] \in Nat
      <4>1. m + i \in DOMAIN notes'
        BY <1>3, <1>11, SMT
      <4>2. notes'[m + i].value = values[i]
        BY <1>5, <1>11
      <4>. QED BY <1>3, <2>1, <4>1, <4>2 DEF ValuesOf
    <3>2. Repeats(W, values, m, n)
      BY <3>1 DEF Repeats
    <3>. QED BY <1>3, <3>2, SumShifted
  <2>11. Total(values) = SumOver(values, 1..n)
    BY <1>3 DEF Total
  <2>. QED BY <2>1, <2>2, <2>3, <2>4, <2>5, <2>6, <2>8, <2>9, <2>10, <2>11, Zenon
<1>. QED BY <1>3, <1>11, <1>13, <1>14

-----------------------------------------------------------------------------
(* Each operation keeps the invariant.                                      *)

\* initialize(): no notes, no money, a tree of zeros.
LEMMA PoolStarts ==
    ASSUME PoolAssumption, Init
    PROVE  PoolInv
<1>1. /\ InitializeMerkle /\ notes = <<>> /\ spent = {} /\ nullifiers = {} /\ balance = 0 /\ sent = <<>>
  BY DEF Init
<1>2. TreeInv
  BY <1>1, TreeStarts DEF PoolAssumption
<1>3. DOMAIN notes = {} /\ DOMAIN sent = {} /\ notes \in Seq(Note) /\ sent \in Seq(Message)
  BY <1>1, SMT
<1>4. NotesInv
  BY <1>2, <1>3 DEF NotesInv
<1>5. DOMAIN notes \ spent = {}
  BY <1>3
<1>6. balance = Worth(DOMAIN notes \ spent)
  BY <1>1, <1>5, SumOfNone DEF Worth
<1>. QED BY <1>1, <1>3, <1>4, <1>6 DEF PoolInv, MessagesInv

\* Notes are spent, and notes are added, and the pool pays the difference.
LEMMA NotesChange ==
    ASSUME PoolAssumption, PoolInv, MessagesInv',
           NEW values \in Seq(Value), AddNotes(values),
           NEW gone \in SUBSET (DOMAIN notes \ spent),
           spent' = spent \cup gone,
           nullifiers' = nullifiers \cup {NullifierOf(k) : k \in gone},
           balance' + Worth(gone) = balance + Total(values), balance' \in Int
    PROVE  PoolInv'
<1>1. NotesInv /\ TreeAssumption /\ spent \in SUBSET DOMAIN notes /\ gone \in SUBSET DOMAIN notes
  BY DEF PoolInv, PoolAssumption
<1>2. /\ NotesInv'
      /\ DOMAIN notes \subseteq DOMAIN notes'
      /\ \A k \in DOMAIN notes : notes'[k] = notes[k]
      /\ \A out \in SUBSET DOMAIN notes :
            SumOver(ValuesOf(notes'), DOMAIN notes' \ out) = Worth(DOMAIN notes \ out) + Total(values)
  BY <1>1, NotesAreAdded
<1>3. spent' \in SUBSET DOMAIN notes /\ spent' \subseteq DOMAIN notes'
  BY <1>1, <1>2
<1>4. nullifiers' = {NullifierOf(k)' : k \in spent'}
  <2>1. \A k \in DOMAIN notes : NullifierOf(k)' = NullifierOf(k)
    BY <1>2 DEF NullifierOf
  <2>2. nullifiers = {NullifierOf(k) : k \in spent}
    BY DEF PoolInv
  <2>3. nullifiers' = {NullifierOf(k) : k \in spent'}
    BY <2>2
  <2>. QED BY <1>3, <2>1, <2>3
<1>5. balance' = Worth(DOMAIN notes \ spent)'
  <2>1. PICK A : A = DOMAIN notes \ spent'
    OBVIOUS
  <2>2. PICK F : F = ValuesOf(notes)
    OBVIOUS
  <2>3. A \in SUBSET DOMAIN notes /\ DOMAIN notes \ spent = A \cup gone /\ A \cap gone = {}
    BY <1>1, <2>1
  <2>4. /\ F \in [DOMAIN notes -> Nat]
        /\ IsFiniteSet(A) /\ IsFiniteSet(gone)
        /\ Worth(A) = SumOver(F, A) /\ Worth(gone) = SumOver(F, gone)
        /\ Worth(A \cup gone) = SumOver(F, A \cup gone)
        /\ Worth(A) \in Nat /\ Worth(gone) \in Nat
    BY <1>1, <2>2, <2>3, WorthType
  <2>5. SumOver(F, A \cup gone) = SumOver(F, A) + SumOver(F, gone)
    BY <1>1, <2>3, <2>4, SumOfDisjoint
  <2>6. balance = Worth(A) + Worth(gone)
    BY <2>3, <2>4, <2>5 DEF PoolInv
  <2>7. SumOver(ValuesOf(notes'), DOMAIN notes' \ spent') = Worth(A) + Total(values)
    BY <1>2, <1>3, <2>1
  <2>8. Worth(DOMAIN notes \ spent)' = SumOver(ValuesOf(notes'), DOMAIN notes' \ spent')
    BY DEF Worth, ValuesOf
  <2>9. balance' = Worth(A) + Total(values)
    <3>1. PICK b : b = balance'
      OBVIOUS
    <3>2. PICK a : a = Worth(A)
      OBVIOUS
    <3>3. PICK g : g = Worth(gone)
      OBVIOUS
    <3>4. PICK t : t = Total(values)
      OBVIOUS
    <3>5. b \in Int /\ a \in Nat /\ g \in Nat /\ t \in Nat
      BY <2>4, <3>1, <3>2, <3>3, <3>4, ValuesAreNat
    <3>6. b + g = a + g + t
      BY <2>6, <3>1, <3>2, <3>3, <3>4
    <3>7. b = a + t
      BY <3>5, <3>6, SMT
    <3>. QED BY <3>1, <3>2, <3>4, <3>7
  <2>. QED BY <2>7, <2>8, <2>9
<1>. QED BY <1>2, <1>3, <1>4, <1>5 DEF PoolInv

\* The pool's balance never underflows: it is a sum of values.
LEMMA BalanceType ==
    ASSUME PoolInv
    PROVE  balance \in Nat
<1>1. NotesInv /\ DOMAIN notes \ spent \in SUBSET DOMAIN notes
  BY DEF PoolInv
<1>. QED BY <1>1, WorthType DEF PoolInv

\* Notes are added, and none spent, for as much as came in.
LEMMA NotesComeIn ==
    ASSUME PoolAssumption, PoolInv, MessagesInv',
           NEW values \in Seq(Value), AddNotes(values),
           UNCHANGED <<spent, nullifiers>>, balance' = balance + Total(values)
    PROVE  PoolInv'
<1>1. {} \in SUBSET (DOMAIN notes \ spent) /\ spent' = spent \cup {}
  OBVIOUS
<1>2. nullifiers' = nullifiers \cup {NullifierOf(k) : k \in {}}
  OBVIOUS
<1>3. Worth({}) = 0
  BY SumOfNone DEF Worth
<1>4. balance \in Nat /\ Total(values) \in Nat
  BY BalanceType, ValuesAreNat
<1>5. balance' \in Int /\ balance' + 0 = balance + Total(values)
  BY <1>4, SMT
<1>. QED BY <1>1, <1>2, <1>3, <1>5, NotesChange

\* The fee never takes all of a value.
LEMMA FeeTakesLess ==
    ASSUME NEW v \in Nat \ {0}, NEW f \in Nat, NEW c \in Nat, NEW d \in Nat, c < d, f * d <= v * c
    PROVE  f < v
<1>. SUFFICES ASSUME f >= v PROVE FALSE
  OBVIOUS
<1>1. PICK e \in Nat : f = v + e
  <2>1. f - v \in Nat /\ f = v + (f - v)
    BY SMT
  <2>. QED BY <2>1
<1>2. PICK b \in Nat : d = c + 1 + b
  <2>1. d - c - 1 \in Nat /\ d = c + 1 + (d - c - 1)
    BY SMT
  <2>. QED BY <2>1
<1>3. f * d = (v + e) * d /\ (v + e) * d = v * d + e * d
  BY <1>1, SMT
<1>4. v * d = v * c + v + v * b
  BY <1>2, SMT
<1>5. e * d \in Nat /\ v * b \in Nat /\ v * c \in Nat
  BY SMT
<1>. QED BY <1>3, <1>4, <1>5, SMT

\* What is left of values after the fee.
LEMMA NetFacts ==
    ASSUME PoolAssumption, NEW values \in Seq(Value), NEW net \in NetOf(values)
    PROVE  net \in Seq(Value)
<1>1. /\ DOMAIN values = 1..Len(values) /\ Len(values) \in Nat
      /\ \A i \in DOMAIN values : values[i] \in Value
  BY LenProperties
<1>2. /\ net = [i \in DOMAIN values |-> net[i]]
      /\ \A i \in DOMAIN values : net[i] \in Nat /\ values[i] - net[i] \in ShieldFees(values[i])
  BY DEF NetOf
<1>3. ASSUME NEW i \in DOMAIN values
      PROVE  net[i] \in Value
  <2>1. PICK v : v = values[i]
    OBVIOUS
  <2>2. PICK x : x = net[i]
    OBVIOUS
  <2>3. PICK f : f = v - x
    OBVIOUS
  <2>4. v \in Nat \ {0} /\ x \in Nat
    BY <1>1, <1>2, <2>1, <2>2 DEF Value
  <2>5. f \in 0..v /\ f * FeeScale <= v * FeeCap
    BY <1>2, <2>1, <2>2, <2>3 DEF ShieldFees
  <2>6. f \in Nat
    BY <2>4, <2>5, SMT
  <2>7. FeeCap \in Nat /\ FeeScale \in Nat /\ FeeCap < FeeScale
    BY DEF PoolAssumption
  <2>8. f < v
    BY <2>4, <2>5, <2>6, <2>7, FeeTakesLess
  <2>9. x # 0
    BY <2>3, <2>4, <2>8, SMT
  <2>. QED BY <2>2, <2>4, <2>9 DEF Value
<1>4. net \in [1..Len(values) -> Value]
  BY <1>1, <1>2, <1>3
<1>. QED BY <1>1, <1>4, SeqDef

\* shield(): the notes are worth what was paid in, less the fee.
LEMMA ShieldKeeps ==
    ASSUME PoolAssumption, PoolInv, NEW values \in Seq(Value), Shield(values)
    PROVE  PoolInv'
<1>1. PICK net \in NetOf(values) : balance' = balance + Total(net) /\ AddNotes(net)
  BY DEF Shield
<1>2. UNCHANGED <<spent, nullifiers, sent>>
  BY DEF Shield
<1>3. MessagesInv'
  BY <1>2 DEF PoolInv, MessagesInv
<1>4. net \in Seq(Value)
  BY NetFacts
<1>. QED BY <1>1, <1>2, <1>3, <1>4, NotesComeIn

\* What a message carries.
LEMMA MessageFacts ==
    ASSUME MessagesInv, NEW nonce \in DOMAIN sent
    PROVE  /\ sent[nonce].values \in Seq(Value) /\ sent[nonce].values # <<>>
           /\ sent[nonce].maxFee \in Nat /\ sent[nonce].maxFee < sent[nonce].values[1]
<1>1. sent[nonce] \in Message
  BY ElementOfSeq, LenProperties DEF MessagesInv
<1>. QED BY <1>1 DEF MessagesInv, Message, FeeIsBearable

\* Whatever fee a message accepts, its notes can still be added.
LEMMA FeeIsCovered ==
    ASSUME NEW values \in Seq(Value), values # <<>>, NEW fee \in Nat, fee < values[1]
    PROVE  /\ Total(values) - fee > Total(Tail(values)) /\ Total(values) - fee <= Total(values)
<1>1. /\ Total(values) = values[1] + Total(Tail(values))
      /\ values[1] \in Nat /\ Total(Tail(values)) \in Nat
  BY ValuesAreNat, TotalOfHead
<1>2. PICK v : v = values[1]
  OBVIOUS
<1>3. PICK t : t = Total(Tail(values))
  OBVIOUS
<1>4. v + t - fee > t /\ v + t - fee <= v + t
  BY <1>1, <1>2, <1>3, SMT
<1>. QED BY <1>1, <1>2, <1>3, <1>4

\* The first note absorbs the fee and stays worth something.
LEMMA ReceivedFacts ==
    ASSUME NEW values \in Seq(Value), values # <<>>, NEW amount \in Int, amount > Total(Tail(values))
    PROVE  Received(values, amount) \in Seq(Value)
<1>1. Total(Tail(values)) \in Nat
  BY ValuesAreNat, TotalOfHead
<1>2. PICK t : t = Total(Tail(values))
  OBVIOUS
<1>3. amount - t \in Value
  BY <1>1, <1>2, SMT DEF Value
<1>4. 1 \in 1..Len(values)
  <2>1. Len(values) \in Nat /\ Len(values) # 0
    BY EmptySeq, LenProperties
  <2>. QED BY <2>1, SMT
<1>. QED BY <1>2, <1>3, <1>4, ExceptSeq DEF Received

\* processIncomingShield(): the notes are worth what the router minted, less the fee.
LEMMA IncomingKeeps ==
    ASSUME PoolAssumption, PoolInv, NEW nonce \in DOMAIN sent, NEW fee \in 0..sent[nonce].maxFee,
           ProcessIncomingShield(nonce, fee)
    PROVE  PoolInv'
<1>1. PICK values : values = sent[nonce].values
  OBVIOUS
<1>2. PICK amount : amount = Total(values) - fee
  OBVIOUS
<1>3. /\ Accepts(values, amount)
      /\ \E net \in NetOf(Received(values, amount)) : balance' = balance + Total(net) /\ AddNotes(net)
      /\ UNCHANGED <<spent, nullifiers, sent>>
  BY <1>1, <1>2 DEF ProcessIncomingShield
<1>4. PICK net \in NetOf(Received(values, amount)) : balance' = balance + Total(net) /\ AddNotes(net)
  BY <1>3
<1>5. values \in Seq(Value) /\ values # <<>> /\ fee \in Nat
  <2>1. sent[nonce].maxFee \in Nat
    BY MessageFacts DEF PoolInv
  <2>2. fee \in Nat
    BY <2>1, SMT
  <2>. QED BY <1>1, <2>2, MessageFacts DEF PoolInv
<1>6. amount \in Int /\ amount > Total(Tail(values))
  <2>1. Total(values) \in Nat
    BY <1>5, ValuesAreNat
  <2>2. amount \in Int
    BY <1>2, <1>5, <2>1, SMT
  <2>. QED BY <1>3, <2>2 DEF Accepts
<1>7. Received(values, amount) \in Seq(Value)
  BY <1>5, <1>6, ReceivedFacts
<1>8. net \in Seq(Value)
  BY <1>7, NetFacts
<1>9. MessagesInv'
  BY <1>3 DEF PoolInv, MessagesInv
<1>. QED BY <1>3, <1>4, <1>8, <1>9, NotesComeIn

\* Where nothing happens to the notes or the pool's USDC.
LEMMA NothingMoves ==
    ASSUME PoolInv, MessagesInv', UNCHANGED <<treeVars, notes, spent, nullifiers, balance>>
    PROVE  PoolInv'
<1>1. NotesInv'
  BY DEF PoolInv, NotesInv, TreeInv, treeVars
<1>2. \A k : NullifierOf(k)' = NullifierOf(k)
  BY DEF NullifierOf
<1>3. Worth(DOMAIN notes \ spent)' = Worth(DOMAIN notes \ spent)
  BY DEF Worth
<1>. QED BY <1>1, <1>2, <1>3 DEF PoolInv

\* A message whose first note can bear its fee may be sent.
LEMMA MessageIsSent ==
    ASSUME MessagesInv, NEW kind \in {"shield", "unshield"}, NEW values \in Seq(Value), values # <<>>,
           NEW maxFee \in Nat, maxFee < values[1],
           Send([kind |-> kind, values |-> values, maxFee |-> maxFee])
    PROVE  MessagesInv'
<1>1. PICK m : m = [kind |-> kind, values |-> values, maxFee |-> maxFee]
  OBVIOUS
<1>2. m \in Message /\ m.values # <<>> /\ FeeIsBearable(m.values, m.maxFee)
  BY <1>1 DEF Message, FeeIsBearable
<1>3. sent' = Append(sent, m) /\ sent \in Seq(Message)
  BY <1>1 DEF Send, MessagesInv
<1>4. /\ sent' \in Seq(Message) /\ DOMAIN sent' = DOMAIN sent \cup {Len(sent) + 1}
      /\ sent'[Len(sent) + 1] = m /\ \A n \in DOMAIN sent : sent'[n] = sent[n]
  BY <1>2, <1>3, SMT
<1>5. ASSUME NEW n \in DOMAIN sent'
      PROVE  sent'[n].values # <<>> /\ FeeIsBearable(sent'[n].values, sent'[n].maxFee)
  <2>1. CASE n \in DOMAIN sent
    BY <1>4, <2>1 DEF MessagesInv
  <2>2. CASE n = Len(sent) + 1
    BY <1>2, <1>4, <2>2
  <2>. QED BY <1>4, <2>1, <2>2
<1>. QED BY <1>4, <1>5 DEF MessagesInv, FeeIsBearable

\* A proof shows notes there are.
LEMMA InputFacts ==
    ASSUME NEW ins \in InputSets
    PROVE  ins \in SUBSET DOMAIN notes
  BY DEF InputSets, ShownUnder

\* What a call nullifies was not spent.
LEMMA NullifyFacts ==
    ASSUME PoolInv, NEW inputs, \A i \in DOMAIN inputs : inputs[i] \in InputSets, Nullify(inputs)
    PROVE  LET gone == UNION {inputs[i] : i \in DOMAIN inputs} IN
           /\ gone \in SUBSET (DOMAIN notes \ spent)
           /\ spent' = spent \cup gone
           /\ nullifiers' = nullifiers \cup {NullifierOf(k) : k \in gone}
           /\ \A i, j \in DOMAIN inputs : i # j => inputs[i] \cap inputs[j] = {}
<1>1. PICK gone : gone = UNION {inputs[i] : i \in DOMAIN inputs}
  OBVIOUS
<1>2. UNION Range(inputs) = gone
  BY <1>1 DEF Range
<1>3. /\ \A i, j \in DOMAIN inputs : i # j => inputs[i] \cap inputs[j] = {}
      /\ \A k \in gone : NullifierOf(k) \notin nullifiers
      /\ nullifiers' = nullifiers \cup {NullifierOf(k) : k \in gone}
      /\ spent' = spent \cup gone
  BY <1>2 DEF Nullify
<1>4. gone \in SUBSET DOMAIN notes
  BY <1>1, InputFacts
<1>5. \A k \in gone : k \notin spent
  BY <1>3 DEF PoolInv
<1>. QED BY <1>1, <1>3, <1>4, <1>5

\* transact(): what the new notes are worth and what is paid out is what the spent ones were worth.
LEMMA TransactKeeps ==
    ASSUME PoolAssumption, PoolInv, Transact
    PROVE  PoolInv'
<1>1. PICK n \in 1..MaxBatch : \E inputs \in [1..n -> InputSets] :
          /\ Nullify(inputs)
          /\ \E batch \in BatchesOver(inputs) :
                /\ \A i \in 1..n : MayBePaid(batch[i])
                /\ balance' = balance - Total([i \in 1..n |-> IF batch[i].payee = Pool THEN 0
                                                              ELSE batch[i].leaving])
                /\ AddNotes(FlattenSeq([i \in 1..n |-> batch[i].outs]))
          /\ UNCHANGED sent
  BY DEF Transact
<1>0. PICK inputs \in [1..n -> InputSets] :
          /\ Nullify(inputs)
          /\ \E batch \in BatchesOver(inputs) :
                /\ \A i \in 1..n : MayBePaid(batch[i])
                /\ balance' = balance - Total([i \in 1..n |-> IF batch[i].payee = Pool THEN 0
                                                              ELSE batch[i].leaving])
                /\ AddNotes(FlattenSeq([i \in 1..n |-> batch[i].outs]))
          /\ UNCHANGED sent
  BY <1>1
<1>2. PICK batch \in BatchesOver(inputs) :
          /\ \A i \in 1..n : MayBePaid(batch[i])
          /\ balance' = balance - Total([i \in 1..n |-> IF batch[i].payee = Pool THEN 0
                                                        ELSE batch[i].leaving])
          /\ AddNotes(FlattenSeq([i \in 1..n |-> batch[i].outs]))
  BY <1>0
<1>3. n \in Nat \ {0} /\ MaxBatch \in Nat
  BY SMT DEF PoolAssumption
<1>4. NotesInv /\ MessagesInv'
  BY <1>0 DEF PoolInv, MessagesInv
<1>5. PICK gone : gone = UNION {inputs[i] : i \in 1..n}
  OBVIOUS
<1>6. /\ DOMAIN inputs = 1..n /\ \A i \in 1..n : inputs[i] \in InputSets /\ inputs[i] \in SUBSET DOMAIN notes
  BY InputFacts
<1>7. /\ gone \in SUBSET (DOMAIN notes \ spent)
      /\ spent' = spent \cup gone
      /\ nullifiers' = nullifiers \cup {NullifierOf(k) : k \in gone}
      /\ \A i, j \in 1..n : i # j => inputs[i] \cap inputs[j] = {}
  BY <1>0, <1>5, <1>6, NullifyFacts
<1>8. /\ batch = [i \in 1..n |-> batch[i]]
      /\ \A i \in 1..n : batch[i] \in TransactionsOver(inputs[i])
  <2>1. inputs \in Seq(InputSets)
    BY <1>3, SeqDef
  <2>2. 1..Len(inputs) = 1..n /\ Len(inputs) \in Nat
    BY <1>6, <2>1, LenProperties
  <2>3. Len(inputs) = n
    BY <1>3, <2>2, SMT
  <2>. QED BY <1>3, <2>3, BatchFacts
<1>9. ASSUME NEW i \in 1..n
      PROVE  /\ batch[i].outs \in Seq(Value) /\ batch[i].leaving \in Nat
             /\ Total(batch[i].outs) + batch[i].leaving = Worth(inputs[i])
             /\ Worth(inputs[i]) = SumOver(ValuesOf(notes), inputs[i])
             /\ IsFiniteSet(inputs[i]) /\ Total(batch[i].outs) \in Nat
             /\ Worth(inputs[i]) \in Nat
  <2>1. /\ IsFiniteSet(inputs[i]) /\ Worth(inputs[i]) \in Nat
        /\ Worth(inputs[i]) = SumOver(ValuesOf(notes), inputs[i])
    BY <1>4, <1>6, WorthType
  <2>2. batch[i] \in TransactionsOver(inputs[i])
    BY <1>8
  <2>3. /\ batch[i].outs \in Seq(Value) /\ batch[i].leaving \in Nat
        /\ Total(batch[i].outs) + batch[i].leaving = Worth(inputs[i])
    BY <1>3, <2>1, <2>2, TransactionFacts
  <2>. QED BY <2>1, <2>3, ValuesAreNat
<1>10. PICK leaving : leaving = [i \in 1..n |-> batch[i].leaving]
  OBVIOUS
<1>11. PICK outs : outs = [i \in 1..n |-> batch[i].outs]
  OBVIOUS
<1>12. PICK made : made = [i \in 1..n |-> Total(outs[i])]
  OBVIOUS
<1>13. PICK taken : taken = [i \in 1..n |-> made[i] + leaving[i]]
  OBVIOUS
<1>14. leaving \in [1..n -> Nat] /\ made \in [1..n -> Nat] /\ \A i \in 1..n : taken[i] = Worth(inputs[i])
  BY <1>9, <1>10, <1>11, <1>12, <1>13
<1>15. balance' = balance - SumOver(leaving, 1..n)
  <2>1. \A i \in 1..n : (IF batch[i].payee = Pool THEN 0 ELSE batch[i].leaving) = leaving[i]
    BY <1>2, <1>10 DEF MayBePaid
  <2>2. [i \in 1..n |-> IF batch[i].payee = Pool THEN 0 ELSE batch[i].leaving] = leaving
    BY <1>10, <2>1, Zenon
  <2>3. DOMAIN leaving = 1..n
    BY <1>10
  <2>. QED BY <1>2, <2>2, <2>3, Zenon DEF Total
<1>16. /\ FlattenSeq(outs) \in Seq(Value)
       /\ Total(FlattenSeq(outs)) = SumOver(made, 1..n)
  <2>1. outs \in [1..n -> Seq(Value)]
    BY <1>9, <1>11
  <2>2. outs \in Seq(Seq(Value))
    BY <1>3, <2>1, SeqDef
  <2>3. 1..Len(outs) = 1..n /\ Len(outs) \in Nat
    BY <2>1, <2>2, LenProperties
  <2>4. Len(outs) = n /\ outs # <<>>
    <3>1. Len(outs) = n
      BY <1>3, <2>3, SMT
    <3>. QED BY <1>3, <3>1, EmptySeq
  <2>5. Value \in SUBSET Nat
    BY DEF Value
  <2>6. /\ FlattenSeq(outs) \in Seq(Value)
        /\ Total(FlattenSeq(outs)) = SumOver([i \in 1..Len(outs) |-> Total(outs[i])], 1..Len(outs))
    BY <2>2, <2>4, <2>5, FlattenFacts
  <2>. QED BY <1>12, <2>4, <2>6, Zenon
<1>17. Worth(gone) = SumOver(taken, 1..n)
  <2>1. PICK D : D = DOMAIN notes
    OBVIOUS
  <2>2. PICK F : F = ValuesOf(notes)
    OBVIOUS
  <2>3. F \in [D -> Nat]
    BY <1>4, <2>1, <2>2, WorthType
  <2>4. /\ \A i \in 1..n : inputs[i] \in SUBSET D /\ IsFiniteSet(inputs[i])
        /\ \A i, j \in 1..n : i # j => inputs[i] \cap inputs[j] = {}
        /\ \A i \in 1..n : taken[i] = SumOver(F, inputs[i])
    BY <1>6, <1>7, <1>9, <1>14, <2>1, <2>2
  <2>5. SumOver(F, gone) = SumOver(taken, 1..n)
    <3>1. Apart(inputs, n, D) /\ SumsOf(taken, F, inputs, n)
      BY <2>4 DEF Apart, SumsOf
    <3>. QED BY <1>3, <1>5, <2>3, <3>1, SumOfUnion
  <2>6. gone \in SUBSET DOMAIN notes
    BY <1>7
  <2>. QED BY <1>4, <2>2, <2>5, <2>6, WorthType
<1>18. SumOver(taken, 1..n) = SumOver(made, 1..n) + SumOver(leaving, 1..n)
  <2>1. taken = PlusOf(1..n, made, leaving)
    BY <1>13, Zenon DEF PlusOf
  <2>2. IsFiniteSet(1..n)
    BY <1>3, FS_Interval, SMT
  <2>3. PICK T : T = 1..n
    OBVIOUS
  <2>4. made \in [T -> Nat] /\ leaving \in [T -> Nat] /\ T \in SUBSET T /\ IsFiniteSet(T)
    BY <1>14, <2>2, <2>3
  <2>5. SumOver(PlusOf(T, made, leaving), T) = SumOver(made, T) + SumOver(leaving, T)
    BY <2>4, SumPlus
  <2>. QED BY <2>1, <2>3, <2>5, Zenon
<1>19. balance' + Worth(gone) = balance + Total(FlattenSeq(outs)) /\ balance' \in Int
  <2>1. IsFiniteSet(1..n)
    BY <1>3, FS_Interval, SMT
  <2>2. PICK l : l = SumOver(leaving, 1..n)
    OBVIOUS
  <2>3. PICK m : m = SumOver(made, 1..n)
    OBVIOUS
  <2>4. l \in Nat /\ m \in Nat
    <3>1. PICK T : T = 1..n
      OBVIOUS
    <3>2. made \in [T -> Nat] /\ leaving \in [T -> Nat] /\ T \in SUBSET T /\ IsFiniteSet(T)
      BY <1>14, <2>1, <3>1
    <3>3. SumOver(leaving, T) \in Nat /\ SumOver(made, T) \in Nat
      BY <3>2, SumType
    <3>. QED BY <2>2, <2>3, <3>1, <3>3
  <2>5. balance \in Nat
    BY BalanceType
  <2>6. (balance - l) + (m + l) = balance + m /\ balance - l \in Int
    BY <2>4, <2>5, SMT
  <2>. QED BY <1>15, <1>16, <1>17, <1>18, <2>2, <2>3, <2>6, Zenon
<1>20. AddNotes(FlattenSeq(outs))
  BY <1>2, <1>11
<1>. QED BY <1>4, <1>7, <1>16, <1>19, <1>20, NotesChange

\* atomicCrossChainUnshield(): what is burned leaves the balance and the notes alike.
LEMMA ExitKeeps ==
    ASSUME PoolAssumption, PoolInv, AtomicCrossChainUnshield
    PROVE  PoolInv'
<1>0. PICK ins \in InputSets : \E t \in TransactionsOver(ins), maxFee \in MaxFees :
          /\ maxFee < t.leaving
          /\ Nullify(<<ins>>)
          /\ AddNotes(t.outs)
          /\ balance' = balance - t.leaving
          /\ Send([kind |-> "unshield", values |-> <<t.leaving>>, maxFee |-> maxFee])
  BY DEF AtomicCrossChainUnshield
<1>1. PICK t \in TransactionsOver(ins), maxFee \in MaxFees :
          /\ maxFee < t.leaving
          /\ Nullify(<<ins>>)
          /\ AddNotes(t.outs)
          /\ balance' = balance - t.leaving
          /\ Send([kind |-> "unshield", values |-> <<t.leaving>>, maxFee |-> maxFee])
  BY <1>0
<1>2. /\ DOMAIN <<ins>> = {1} /\ <<ins>>[1] = ins
  BY SMT
<1>3. UNION {<<ins>>[i] : i \in DOMAIN <<ins>>} = ins
  BY <1>2
<1>4. /\ ins \in SUBSET (DOMAIN notes \ spent)
      /\ spent' = spent \cup ins
      /\ nullifiers' = nullifiers \cup {NullifierOf(k) : k \in ins}
  <2>1. PICK inputs : inputs = <<ins>>
    OBVIOUS
  <2>2. (\A i \in DOMAIN inputs : inputs[i] \in InputSets) /\ Nullify(inputs)
    BY <1>1, <1>2, <2>1
  <2>3. UNION {inputs[i] : i \in DOMAIN inputs} = ins
    BY <1>3, <2>1
  <2>. QED BY <2>2, <2>3, NullifyFacts
<1>5. NotesInv /\ MessagesInv /\ MaxBatch \in Nat /\ maxFee \in Nat
  BY DEF PoolInv, PoolAssumption
<1>6. Worth(ins) \in Nat
  BY <1>4, <1>5, WorthType
<1>7. t.outs \in Seq(Value) /\ t.leaving \in Nat /\ Total(t.outs) + t.leaving = Worth(ins)
  BY <1>5, <1>6, TransactionFacts
<1>8. PICK l : l = t.leaving
  OBVIOUS
<1>9. l \in Value /\ <<l>> \in Seq(Value) /\ <<l>> # <<>> /\ maxFee < <<l>>[1]
  <2>1. l \in Value /\ maxFee < l
    BY <1>1, <1>5, <1>7, <1>8, SMT DEF Value
  <2>. QED BY <2>1, SMT
<1>10. MessagesInv'
  <2>1. Send([kind |-> "unshield", values |-> <<l>>, maxFee |-> maxFee])
    BY <1>1, <1>8
  <2>. QED BY <1>5, <1>9, <2>1, MessageIsSent
<1>11. balance' + Worth(ins) = balance + Total(t.outs) /\ balance' \in Int
  <2>1. PICK o : o = Total(t.outs)
    OBVIOUS
  <2>2. o \in Nat /\ l \in Nat /\ balance \in Nat
    BY <1>7, <1>8, <2>1, BalanceType, ValuesAreNat
  <2>3. (balance - l) + (o + l) = balance + o /\ balance - l \in Int
    BY <2>2, SMT
  <2>. QED BY <1>1, <1>7, <1>8, <2>1, <2>3, Zenon
<1>. QED BY <1>1, <1>4, <1>7, <1>10, <1>11, NotesChange

\* crossChainShield() on the client: the message has a first note that bears its fee.
LEMMA BurnKeeps ==
    ASSUME PoolAssumption, PoolInv, NEW values \in UpTo(Amounts, 2), NEW maxFee \in MaxFees,
           CrossChainShield(values, maxFee)
    PROVE  PoolInv'
<1>1. values \in Seq(Value) /\ values # <<>>
  <2>1. values \in Seq(Amounts) /\ values # <<>>
    BY UpToFacts
  <2>2. Amounts \subseteq Value
    BY DEF PoolAssumption, Value
  <2>. QED BY <2>1, <2>2, SeqMonotonic
<1>2. /\ maxFee < values[1] /\ Send([kind |-> "shield", values |-> values, maxFee |-> maxFee])
      /\ UNCHANGED <<treeVars, notes, spent, nullifiers, balance>>
  BY DEF CrossChainShield, FeeIsBearable
<1>3. MessagesInv /\ maxFee \in Nat
  BY DEF PoolInv, PoolAssumption
<1>4. MessagesInv'
  BY <1>1, <1>2, <1>3, MessageIsSent
<1>. QED BY <1>2, <1>4, NothingMoves

\* One step, whichever it is.
LEMMA PoolSteps ==
    ASSUME PoolAssumption, PoolInv, [Next]_vars
    PROVE  PoolInv'
<1>1. CASE \E values \in UpTo(Amounts, MaxBatch) : Shield(values)
  <2>1. PICK values \in UpTo(Amounts, MaxBatch) : Shield(values)
    BY <1>1
  <2>2. values \in Seq(Amounts)
    BY UpToFacts DEF PoolAssumption
  <2>3. Amounts \subseteq Value
    BY DEF PoolAssumption, Value
  <2>4. values \in Seq(Value)
    BY <2>2, <2>3, SeqMonotonic
  <2>. QED BY <2>1, <2>4, ShieldKeeps
<1>2. CASE \E values \in UpTo(Amounts, 2), maxFee \in MaxFees : CrossChainShield(values, maxFee)
  BY <1>2, BurnKeeps
<1>3. CASE Deliver
  <2>0. PICK nonce \in DOMAIN sent : \E fee \in 0..sent[nonce].maxFee :
            IF sent[nonce].kind = "shield" THEN ProcessIncomingShield(nonce, fee)
            ELSE ProcessUnshield(nonce, fee)
    BY <1>3 DEF Deliver
  <2>1. PICK fee \in 0..sent[nonce].maxFee :
            IF sent[nonce].kind = "shield" THEN ProcessIncomingShield(nonce, fee)
            ELSE ProcessUnshield(nonce, fee)
    BY <2>0
  <2>2. CASE ProcessIncomingShield(nonce, fee)
    BY <2>2, IncomingKeeps
  <2>3. CASE ProcessUnshield(nonce, fee)
    <3>1. UNCHANGED <<treeVars, notes, spent, nullifiers, balance>> /\ sent' = sent
      BY <2>3 DEF ProcessUnshield
    <3>2. MessagesInv'
      BY <3>1 DEF PoolInv, MessagesInv
    <3>. QED BY <3>1, <3>2, NothingMoves
  <2>. QED BY <2>1, <2>2, <2>3
<1>4. CASE SetWindDownActive \/ UNCHANGED vars
  <2>1. UNCHANGED <<treeVars, notes, spent, nullifiers, balance>> /\ sent' = sent
    BY <1>4 DEF SetWindDownActive, vars, poolVars
  <2>2. MessagesInv'
    BY <2>1 DEF PoolInv, MessagesInv
  <2>. QED BY <2>1, <2>2, NothingMoves
<1>. QED BY <1>1, <1>2, <1>3, <1>4, TransactKeeps, ExitKeeps DEF Next

(* The invariant holds of every behaviour of the pool.                      *)
LEMMA PoolInvariant == Spec => []PoolInv
<1>1. PoolAssumption
  BY PoolInputs
<1>2. Init => PoolInv
  BY <1>1, PoolStarts
<1>3. PoolInv /\ [Next]_vars => PoolInv'
  BY <1>1, PoolSteps
<1>. QED BY <1>2, <1>3, PTL DEF Spec

-----------------------------------------------------------------------------
(* Unspent notes are where a proof can show them, and no other note has     *)
(* their nullifier.                                                         *)
LEMMA SpendableByInvariant ==
    ASSUME PoolAssumption, PoolInv
    PROVE  NotesAreSpendable
<1>1. NotesInv /\ TreeInv /\ TreeAssumption
  BY DEF PoolInv, NotesInv, PoolAssumption
<1>2. ASSUME NEW k \in DOMAIN notes \ spent
      PROVE  \E root \in rootHistory : k \in ShownUnder(root)
  <2>1. PICK t : t = notes[k].tree
    OBVIOUS
  <2>2. PICK x : x = notes[k].index
    OBVIOUS
  <2>3. t \in Trees /\ x \in Nat /\ x < Len(leaves[t]) /\ leaves[t][x + 1] = <<k>>
    BY <1>1, <2>1, <2>2, NoteTypes DEF NotesInv
  <2>4. leaves[t] \in Seq(Leaf) /\ Len(leaves[t]) \in Nat /\ Len(leaves[t]) <= Capacity /\ Capacity \in Nat
    <3>1. leaves[t] \in Seq(Leaf) /\ Len(leaves[t]) <= Capacity
      BY <1>1, <2>3 DEF TreeInv
    <3>. QED BY <1>1, <3>1, CapacityType, LenProperties
  <2>5. x < Capacity /\ Len(leaves[t]) # 0
    BY <2>3, <2>4, SMT
  <2>6. <<t, RootOf(leaves[t])>> \in rootHistory
    <3>1. leaves[t] # <<>>
      BY <2>4, <2>5, EmptySeq
    <3>. QED BY <1>1, <2>3, <3>1 DEF TreeInv
  <2>7. LeafAt(RootOf(leaves[t]), x) = Rows(leaves[t])[0][x]
    BY <1>1, <2>3, <2>5, LeafUnderRoot
  <2>8. Rows(leaves[t])[0][x] = leaves[t][x + 1]
    BY <1>1, <2>3, RowsFacts
  <2>9. k \in ShownUnder(<<t, RootOf(leaves[t])>>)
    BY <2>1, <2>2, <2>3, <2>7, <2>8 DEF ShownUnder
  <2>. QED BY <2>6, <2>9
<1>3. ASSUME NEW k \in DOMAIN notes \ spent, NullifierOf(k) \in nullifiers
      PROVE  FALSE
  <2>1. PICK j \in spent : NullifierOf(k) = NullifierOf(j)
    BY <1>3 DEF PoolInv
  <2>2. j \in DOMAIN notes /\ k \in DOMAIN notes
    BY DEF PoolInv
  <2>3. j = k
    BY <1>1, <2>1, <2>2, NullifiersDiffer
  <2>. QED BY <2>3
<1>. QED BY <1>1, <1>2, <1>3, TreesAreCanonical DEF NotesAreSpendable

(***************************************************************************)
(* Whatever the depth of the trees, the batches and the order of calls:    *)
(* the roots are those of the leaves, and every unspent note lies where    *)
(* its event announced it, under a published root, its nullifier unused.   *)
(***************************************************************************)
THEOREM SpendableAlways == Spec => []NotesAreSpendable
<1>1. PoolInv => NotesAreSpendable
  BY PoolInputs, SpendableByInvariant
<1>. QED BY <1>1, PoolInvariant, PTL

\* The balance, the notes' values and what each message in flight will be accepted as.
LEMMA ValueByInvariant ==
    ASSUME PoolInv
    PROVE  ValueIsKept
<1>1. \A k \in DOMAIN notes : notes[k].value > 0
  <2>1. \A k \in DOMAIN notes : notes[k].value \in Value
    BY NoteTypes DEF PoolInv
  <2>2. \A v \in Value : v > 0
    BY SMT DEF Value
  <2>. QED BY <2>1, <2>2
<1>2. ASSUME NEW nonce \in DOMAIN sent \ delivered, NEW fee \in 0..sent[nonce].maxFee,
             ~windDownActive
      PROVE  Accepts(sent[nonce].values, Total(sent[nonce].values) - fee)
  <2>1. PICK values : values = sent[nonce].values
    OBVIOUS
  <2>2. PICK most : most = sent[nonce].maxFee
    OBVIOUS
  <2>3. values \in Seq(Value) /\ values # <<>> /\ most \in Nat /\ most < values[1]
    BY <2>1, <2>2, MessageFacts DEF PoolInv
  <2>4. values[1] \in Nat
    BY <2>3, ValuesAreNat, TotalOfHead
  <2>5. fee \in Nat /\ fee < values[1]
    BY <2>2, <2>3, <2>4, SMT
  <2>6. Total(values) - fee > Total(Tail(values)) /\ Total(values) - fee <= Total(values)
    BY <2>3, <2>5, FeeIsCovered
  <2>. QED BY <1>2, <2>1, <2>6 DEF Accepts, ShieldsPaused
<1>. QED BY <1>1, <1>2 DEF ValueIsKept, PoolInv

(***************************************************************************)
(* Whatever is shielded, transacted, bridged out or delivered, and in      *)
(* whatever batches: the pool holds what the unspent notes are worth, and  *)
(* the hub accepts every shield in flight until wind-down.                 *)
(***************************************************************************)
THEOREM ValueAlways == Spec => []ValueIsKept
<1>1. PoolInv => ValueIsKept
  BY ValueByInvariant
<1>. QED BY <1>1, PoolInvariant, PTL
=============================================================================
