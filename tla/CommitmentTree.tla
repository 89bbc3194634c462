--------------------------- MODULE CommitmentTree ---------------------------
(***************************************************************************)
(* The commitment trees of the privacy pool (contracts/privacy-pool/       *)
(* modules/MerkleModule.sol): append-only, one after the other, each a     *)
(* binary tree whose root is kept up to date batch by batch from one       *)
(* remembered node per level.                                              *)
(*                                                                         *)
(* Poseidon is a constructor: two nodes are equal only if they were hashed *)
(* from equal children.  A leaf is a one-tuple, an inner node a pair.      *)
(***************************************************************************)
EXTENDS Naturals, Sequences, FiniteSets

CONSTANTS
    TreeDepth,      \* TREE_DEPTH, 16
    MaxTrees        \* bound: trees that are filled

TreeAssumption == TreeDepth \in Nat \ {0} /\ MaxTrees \in Nat \ {0}

VARIABLES
    treeNumber, nextLeafIndex, merkleRoot,
    filledSubTrees, \* level -> the left node a later batch may have to pair with
    rootHistory,    \* the <<tree, root>> that were ever published
    leaves          \* history: what was appended to each tree

treeVars == <<treeNumber, nextLeafIndex, merkleRoot, filledSubTrees, rootHistory, leaves>>

Capacity ==
    LET power[level \in 0..TreeDepth] == IF level = 0 THEN 1 ELSE 2 * power[level - 1]
    IN power[TreeDepth]
Levels == 0..TreeDepth - 1
Trees == 0..MaxTrees - 1

ZeroValue == <<0>>
HashLeftRight(left, right) == <<left, right>>

zeros ==
    LET zero[level \in 0..TreeDepth] ==
            IF level = 0 THEN ZeroValue ELSE HashLeftRight(zero[level - 1], zero[level - 1])
    IN zero

InitializeMerkle ==
    /\ treeNumber = 0 /\ nextLeafIndex = 0
    /\ filledSubTrees = [level \in Levels |-> zeros[level]]
    /\ merkleRoot = zeros[TreeDepth]
    /\ rootHistory = {<<0, merkleRoot>>}
    /\ leaves = [t \in Trees |-> <<>>]

(* Where a batch will land: a batch that does not fit goes to a new tree.   *)
GetInsertionTreeNumberAndStartingIndex(count) ==
    IF nextLeafIndex + count > Capacity THEN <<treeNumber + 1, 0>> ELSE <<treeNumber, nextLeafIndex>>

-----------------------------------------------------------------------------
(* One level of insertLeaves.  s.nodes[0..s.count-1] are inserted at index  *)
(* s.at of the level; the array is overwritten from the front by what is    *)
(* inserted one level up.  With an odd index the first element completes a  *)
(* pair whose left half an earlier batch left in filledSubTrees.            *)

Odd(s) == s.at % 2
\* Where the parent of the element at index i goes.
Slot(s, i) == (s.at + i) \div 2 - s.at \div 2
\* The elements that start a pair.
Lefts(s) == {i \in Odd(s)..s.count - 1 : (i - Odd(s)) % 2 = 0}
LastLeft(s) == CHOOSE i \in Lefts(s) : \A j \in Lefts(s) : j <= i

\* The array when an odd first element has completed the pair an earlier batch began.
CompletePair(s, level) ==
    IF Odd(s) = 1 THEN [s.nodes EXCEPT ![0] = HashLeftRight(s.filled[level], s.nodes[0])]
    ELSE s.nodes

\* The array when the element at index i is hashed with its right sibling, or with zero.
HashPair(s, level, array, i) ==
    LET right == IF i < s.count - 1 THEN array[i + 1] ELSE zeros[level]
    IN [array EXCEPT ![Slot(s, i)] = HashLeftRight(array[i], right)]

\* The array once the elements before each index are hashed.
HashedUpTo(s, level) ==
    LET array[i \in 0..s.count + 1] ==
            IF i = 0 THEN s.nodes
            ELSE IF i = 1 THEN CompletePair(s, level)
            ELSE HashPair(s, level, array[i - 2], i - 2)
    IN array

\* Mutant: only an element without a right sibling is remembered.
RememberSingle(s, level) ==
    IF Lefts(s) = {} \/ LastLeft(s) # s.count - 1 THEN s.filled
    ELSE [s.filled EXCEPT ![level] = HashedUpTo(s, level)[LastLeft(s)][LastLeft(s)]]

\* The last element that starts a pair is the left sibling a later batch may need.
Remember(s, level) ==
    IF Lefts(s) = {} THEN s.filled
    ELSE [s.filled EXCEPT ![level] = HashedUpTo(s, level)[LastLeft(s)][LastLeft(s)]]

FoldLevel(s, level) ==
    [at |-> s.at \div 2,
     count |-> IF Lefts(s) = {} THEN 1 ELSE Slot(s, LastLeft(s)) + 1,
     nodes |-> HashedUpTo(s, level)[IF Lefts(s) = {} THEN 1 ELSE LastLeft(s) + 2],
     filled |-> Remember(s, level)]

Folded(at, batch) ==
    LET climb[level \in 0..TreeDepth] ==
            IF level = 0
            THEN [at |-> at, count |-> Len(batch),
                  nodes |-> [i \in 0..Len(batch) - 1 |-> batch[i + 1]], filled |-> filledSubTrees]
            ELSE FoldLevel(climb[level - 1], level - 1)
    IN climb

(* A batch that does not fit rolls over as a whole; filledSubTrees is not   *)
(* cleared.  An empty batch changes nothing.                                *)
InsertLeaves(batch) ==
    IF batch = <<>> THEN UNCHANGED treeVars
    ELSE LET rolls == nextLeafIndex + Len(batch) > Capacity
             tree  == IF rolls THEN treeNumber + 1 ELSE treeNumber
             at    == IF rolls THEN 0 ELSE nextLeafIndex
             top   == Folded(at, batch)[TreeDepth]
         IN /\ tree \in Trees
            /\ treeNumber' = tree /\ nextLeafIndex' = at + Len(batch)
            /\ merkleRoot' = top.nodes[0] /\ filledSubTrees' = top.filled
            /\ rootHistory' = rootHistory \cup {<<tree, top.nodes[0]>>}
            /\ leaves' = [leaves EXCEPT ![tree] = @ \o batch]

-----------------------------------------------------------------------------
(* A tree by its definition, level by level from the leaves: every node     *)
(* over its two children, missing leaves being zero.                        *)
Rows(appended) ==
    LET row[level \in 0..TreeDepth] ==
            IF level = 0
            THEN [i \in Nat |-> IF i < Len(appended) THEN appended[i + 1] ELSE ZeroValue]
            ELSE [i \in Nat |-> HashLeftRight(row[level - 1][2 * i], row[level - 1][2 * i + 1])]
    IN row

RootOf(appended) == Rows(appended)[TreeDepth][0]

\* The index at every level of the node above the leaf at an index.
Above(index) ==
    LET up[level \in 0..TreeDepth] == IF level = 0 THEN index ELSE up[level - 1] \div 2
    IN up

\* The leaf that a proof under this root shows at an index, found from the root down.
LeafAt(root, index) ==
    LET node[depth \in 0..TreeDepth] ==
            IF depth = 0 THEN root ELSE node[depth - 1][1 + (Above(index)[TreeDepth - depth] % 2)]
    IN node[TreeDepth]

(***************************************************************************)
(* The root kept from batch to batch is the root of all leaves of the      *)
(* current tree, however they were batched, and what was published before  *)
(* is the root of an earlier stretch of its tree: a frontier kept for too  *)
(* long, or lost, would make every later proof fail (insertLeaves,         *)
(* "filledSubTrees is intentionally NOT cleared").                         *)
(***************************************************************************)
RootsAreCanonical ==
    /\ merkleRoot = RootOf(leaves[treeNumber])
    /\ nextLeafIndex = Len(leaves[treeNumber])
    /\ \A h \in rootHistory :
          \E n \in 0..Len(leaves[h[1]]) : h[2] = RootOf(SubSeq(leaves[h[1]], 1, n))
=============================================================================
