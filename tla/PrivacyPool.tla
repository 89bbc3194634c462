---------------------------- MODULE PrivacyPool -----------------------------
(***************************************************************************)
(* The shielded pool of the hub (contracts/privacy-pool/PrivacyPool.sol    *)
(* with its shield and transact modules), one client chain                 *)
(* (PrivacyPoolClient.sol) and the CCTP messages between them.             *)
(*                                                                         *)
(* A note is known by its number, which stands for its commitment, and by  *)
(* the position the Shield or Transact event announced for it.  A proof is *)
(* what the circuit guarantees of it: its inputs are notes of one tree     *)
(* under a published root, values are conserved, and it binds the          *)
(* recipient and the amount of its unshield and the arguments of a         *)
(* cross-chain exit.  Proofs may be held back, submitted by anybody and    *)
(* replayed: one can be made for spent notes as well.                      *)
(***************************************************************************)
EXTENDS CommitmentTree, SequencesExt, NaturalSums

CONSTANTS
    Accounts, Pool,     \* who may receive USDC: users, and the pool's own address
    Amounts,            \* bound: values of the notes and burns users ask for
    MaxFees,            \* bound: CCTP fees a user accepts
    FeeCap, FeeScale,   \* MAX_FEE_MODULE_SHIELD_FEE_BPS and BASIS_POINTS
    MaxBatch,           \* bound: requests of one shield, transactions of one transact, inputs
                        \* and new notes of one transaction
    MaxNotes, MaxMessages

PoolAssumption ==
    /\ TreeAssumption
    /\ Pool \notin Accounts
    /\ Amounts \subseteq Nat \ {0} /\ MaxFees \subseteq Nat
    /\ FeeCap \in Nat /\ FeeScale \in Nat \ {0} /\ FeeCap < FeeScale
    /\ MaxBatch \in Nat /\ MaxNotes \in Nat /\ MaxMessages \in Nat

ASSUME PoolInputs == PoolAssumption

VARIABLES
    notes,          \* history: number -> position announced and value
    spent,          \* history: the notes whose owner has spent them
    nullifiers,     \* the <<tree, nullifier>> used, a nullifier being made from the index
    balance,        \* USDC of the pool
    sent,           \* CCTP messages, by nonce
    delivered,      \* nonces the message transmitter has used
    windDownActive  \* ShieldPauseController

poolVars == <<notes, spent, nullifiers, balance, sent, delivered, windDownActive>>
vars == <<treeVars, poolVars>>

Total(values) == SumOver(values, DOMAIN values)
\* What a set of notes is worth.
Worth(ks) == SumOver([k \in DOMAIN notes |-> notes[k].value], ks)
UpTo(S, n) == UNION {[1..k -> S] : k \in 1..n}

Init ==
    /\ InitializeMerkle
    /\ notes = <<>> /\ spent = {} /\ nullifiers = {}
    /\ balance = 0 /\ sent = <<>> /\ delivered = {} /\ windDownActive = FALSE

\* Notes are announced where the tree says it will insert them, then inserted.
AddNotes(values) ==
    LET at == GetInsertionTreeNumberAndStartingIndex(Len(values)) IN
    /\ Len(notes) + Len(values) <= MaxNotes /\ Len(values) <= Capacity
    /\ notes' = notes \o
          [i \in DOMAIN values |-> [tree |-> at[1], index |-> at[2] + i - 1, value |-> values[i]]]
    /\ InsertLeaves([i \in DOMAIN values |-> <<Len(notes) + i>>])

-----------------------------------------------------------------------------
(* ShieldModule.                                                            *)

\* MAX_PAUSE_DURATION is zero: a pause of the Security Council ends in its own block.
ShieldsPaused == windDownActive
\* Fees the cap lets the fee module, or the flat rate, take from a value.
ShieldFees(value) == {fee \in 0..value : fee * FeeScale <= value * FeeCap}
NetOf(values) == {net \in [DOMAIN values -> Nat \cap 0..Total(values)] :
                     \A i \in DOMAIN values : values[i] - net[i] \in ShieldFees(values[i])}

Shield(values) ==
    /\ ~ShieldsPaused
    /\ \E net \in NetOf(values) :
          /\ balance' = balance + Total(net)
          /\ AddNotes(net)
    /\ UNCHANGED <<spent, nullifiers, sent, delivered, windDownActive>>

\* The first note absorbs what the bridge kept.
Received(values, amount) == [values EXCEPT ![1] = amount - Total(Tail(values))]

\* What processIncomingShield requires of a delivery.
Accepts(values, amount) ==
    /\ ~ShieldsPaused
    /\ amount > Total(Tail(values))
    /\ amount <= Total(values)

(* The router mints, then the pool adds the notes; either all or nothing.   *)
ProcessIncomingShield(nonce, feeExecuted) ==
    LET m == sent[nonce]
        amount == Total(m.values) - feeExecuted
    IN /\ Accepts(m.values, amount)
       /\ \E net \in NetOf(Received(m.values, amount)) :
             /\ balance' = balance + Total(net)
             /\ AddNotes(net)
       /\ delivered' = delivered \cup {nonce}
       /\ UNCHANGED <<spent, nullifiers, sent, windDownActive>>

-----------------------------------------------------------------------------
(* PrivacyPoolClient.                                                       *)

Send(message) == Len(sent) < MaxMessages /\ sent' = Append(sent, message)

\* The fee comes out of the first note.
FeeIsBearable(values, maxFee) == maxFee < values[1]

(* crossChainShield (one note) and crossChainShieldWithFee (two notes).     *)
CrossChainShield(values, maxFee) ==
    /\ FeeIsBearable(values, maxFee)
    /\ Send([kind |-> "shield", values |-> values, maxFee |-> maxFee])
    /\ UNCHANGED <<treeVars, notes, spent, nullifiers, balance, delivered, windDownActive>>

\* The client pays the recipient out of what the router minted to it.
ProcessUnshield(nonce, feeExecuted) ==
    /\ delivered' = delivered \cup {nonce}
    /\ UNCHANGED <<treeVars, notes, spent, nullifiers, balance, sent, windDownActive>>

\* CCTP delivers a message once, in any order, with any fee up to the accepted one.
Deliver ==
    \E nonce \in DOMAIN sent \ delivered : \E feeExecuted \in 0..sent[nonce].maxFee :
       IF sent[nonce].kind = "shield" THEN ProcessIncomingShield(nonce, feeExecuted)
       ELSE ProcessUnshield(nonce, feeExecuted)

-----------------------------------------------------------------------------
(* TransactModule.                                                          *)

NullifierOf(k) == <<notes[k].tree, notes[k].index>>

\* The notes a proof can show under a published root.
ShownUnder(root) ==
    {k \in DOMAIN notes : notes[k].tree = root[1] /\ LeafAt(root[2], notes[k].index) = <<k>>}
InputSets ==
    {ins \in UNION {SUBSET ShownUnder(root) : root \in rootHistory} :
        Cardinality(ins) \in 1..MaxBatch}

\* The transactions whose proof spends ins, with at most one output for the outside.  Its
\* payee is bound by the proof; redirected, the proof binds the caller, who names the payee:
\* either way it is any account, or the pool.
TransactionsOver(ins) ==
    LET in == Worth(ins)
        outs == {o \in {<<>>} \cup UpTo(1..in, MaxBatch) : Total(o) <= in}
    IN {[outs |-> o, leaving |-> in - Total(o), payee |-> p] : o \in outs, p \in Accounts \cup {Pool}}

BatchesOver(inputs) ==
    LET upTo[i \in 0..Len(inputs)] ==
            IF i = 0 THEN {<<>>}
            ELSE {Append(b, t) : b \in upTo[i - 1], t \in TransactionsOver(inputs[i])}
    IN upTo[Len(inputs)]

(* Every input of every transaction of a call must be new to the set.       *)
Nullify(inputs) ==
    /\ \A i, j \in DOMAIN inputs : i # j => inputs[i] \cap inputs[j] = {}
    /\ \A k \in UNION Range(inputs) : NullifierOf(k) \notin nullifiers
    /\ nullifiers' = nullifiers \cup {NullifierOf(k) : k \in UNION Range(inputs)}
    /\ spent' = spent \cup UNION Range(inputs)

\* Mutant: the pool may be paid by itself.
AnyPayee(t) == TRUE

\* _transferTokenOut: the pool itself is no recipient.
MayBePaid(t) == t.payee # Pool

(* transact: nullify all, pay all, insert all new notes as one batch.  Once *)
(* wind-down is active every transaction must leave the pool.               *)
Transact ==
    \E n \in 1..MaxBatch : \E inputs \in [1..n -> InputSets] :
       /\ Nullify(inputs)
       /\ \E batch \in BatchesOver(inputs) :
             /\ \A i \in 1..n : MayBePaid(batch[i])
             /\ windDownActive => \A i \in 1..n : batch[i].leaving > 0
             /\ balance' = balance - Total([i \in 1..n |-> IF batch[i].payee = Pool THEN 0
                                                           ELSE batch[i].leaving])
             /\ AddNotes(FlattenSeq([i \in 1..n |-> batch[i].outs]))
       /\ UNCHANGED <<sent, delivered, windDownActive>>

(* atomicCrossChainUnshield: the payee is the pool, which burns the amount. *)
(* The recipient and maxFee are those the proof binds.                      *)
AtomicCrossChainUnshield ==
    \E ins \in InputSets : \E t \in TransactionsOver(ins), maxFee \in MaxFees :
       /\ t.payee = Pool /\ maxFee < t.leaving
       /\ Nullify(<<ins>>)
       /\ AddNotes(t.outs)
       /\ balance' = balance - t.leaving
       /\ Send([kind |-> "unshield", values |-> <<t.leaving>>, maxFee |-> maxFee])
       /\ UNCHANGED <<delivered, windDownActive>>

\* ShieldPauseController.setWindDownActive.
SetWindDownActive ==
    /\ ~windDownActive /\ windDownActive' = TRUE
    /\ UNCHANGED <<treeVars, notes, spent, nullifiers, balance, sent, delivered>>

Next ==
    \/ \E values \in UpTo(Amounts, MaxBatch) : Shield(values)
    \/ \E values \in UpTo(Amounts, 2), maxFee \in MaxFees : CrossChainShield(values, maxFee)
    \/ Deliver \/ Transact \/ AtomicCrossChainUnshield \/ SetWindDownActive

Spec == Init /\ [][Next]_vars

-----------------------------------------------------------------------------
(***************************************************************************)
(* Whoever received a note can spend it for as long as it is unspent: it   *)
(* lies where its event announced it, under a published root, and no other *)
(* note has used its nullifier; and the roots are those of the notes.  A   *)
(* wallet finds notes and builds proofs by position only ("leaving those   *)
(* notes unlocatable for a spend proof", PrivacyPool.sol).                 *)
(***************************************************************************)
NotesAreSpendable ==
    /\ RootsAreCanonical
    /\ \A k \in DOMAIN notes \ spent :
          /\ \E root \in rootHistory : k \in ShownUnder(root)
          /\ NullifierOf(k) \notin nullifiers

(***************************************************************************)
(* The pool holds what the unspent notes are worth, no less (a note spent  *)
(* twice) and no more (a payment that stays), across batches, replays,     *)
(* redirected and cross-chain exits; and whatever part of the fee they     *)
(* accepted the bridge keeps, the hub accepts the shields that are in      *)
(* flight until wind-down, since a burn cannot be taken back               *)
(* (PrivacyPoolClient: "the USDC would be lost").                          *)
(***************************************************************************)
ValueIsKept ==
    /\ balance = Worth(DOMAIN notes \ spent)
    /\ \A k \in DOMAIN notes : notes[k].value > 0
    /\ \A nonce \in DOMAIN sent \ delivered : \A fee \in 0..sent[nonce].maxFee :
          sent[nonce].kind = "shield" /\ ~windDownActive =>
             Accepts(sent[nonce].values, Total(sent[nonce].values) - fee)
=============================================================================
