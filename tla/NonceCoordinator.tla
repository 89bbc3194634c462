-------------------------- MODULE NonceCoordinator --------------------------
(***************************************************************************)
(* The relayer's nonce authority for one destination chain                 *)
(* (relayer/lib/nonce-coordinator.ts), the two paths that sign through it  *)
(* (the HTTP wallet manager and the CCTP relays), and the account as the   *)
(* chain's node sees it.  Chains have independent nonce streams, so one    *)
(* chain is the whole story.                                               *)
(***************************************************************************)
EXTENDS Integers, Sequences, FiniteSets

CONSTANTS
    Callers,        \* code paths that call withNonce, one call at a time each
    IrisPath,       \* the one of them that is the Iris relay's polling loop
    Absent,         \* nonces.get(chainId) === undefined
    MaxNonce,       \* bound: nonces the model hands out
    FaultSets       \* the combinations of faults to explore, each a subset of Faults

(* "lost reply": a send may fail or time out at its caller although it      *)
(* reaches the node.  "drop": the mempool may evict a pending transaction.  *)
(* "stuck": the Iris relay's stuck-tx scan may call reset().                *)
Faults == {"lost reply", "drop", "stuck"}

ASSUME NonceAssumption ==
    /\ MaxNonce \in Nat
    /\ IrisPath \in Callers
    /\ Absent \notin Nat
    /\ FaultSets \subseteq SUBSET Faults

VARIABLES
    nonces,     \* the coordinator's cached next nonce, or Absent
    tail,       \* callers in the promise chain, the holder first
    pc,         \* where each caller stands
    held,       \* the nonce each caller's fn was given
    mined,      \* the account's nonce in the latest block
    pool,       \* nonces of the node's pending transactions
    late,       \* nonces of sends given up by their caller and still on the wire
    faults      \* what may go wrong in this behaviour

coordinator == <<nonces, tail, pc, held>>
node == <<mined, pool, late>>
vars == <<coordinator, node, faults>>

States == {"idle", "queued", "seeding", "sending", "accepted", "refused"}

TypeOK ==
    /\ nonces \in Nat \cup {Absent}
    /\ tail \in Seq(Callers)
    /\ pc \in [Callers -> States]
    /\ held \in [Callers -> Nat]
    /\ mined \in Nat
    /\ pool \subseteq Nat /\ late \subseteq Nat
    /\ faults \in FaultSets

Init ==
    /\ nonces = Absent
    /\ tail = << >>
    /\ pc = [c \in Callers |-> "idle"]
    /\ held = [c \in Callers |-> 0]
    /\ mined = 0
    /\ pool = {}
    /\ late = {}
    /\ faults \in FaultSets

(* getTransactionCount(address, "pending"): the first nonce that the node   *)
(* has neither mined nor pooled behind an unbroken run.                     *)
IsPending(n) ==
    /\ n \in Nat /\ n >= mined /\ n \notin pool
    /\ \A k \in mined..(n - 1) : k \in pool

(***************************************************************************)
(* withNonce                                                               *)
(***************************************************************************)
(* Chain the critical section behind whoever is already queued.  The two    *)
(* comparisons with MaxNonce are the model's bound.                         *)
Call(c) ==
    /\ pc[c] = "idle"
    /\ mined + Cardinality(pool) + Cardinality(late) + Len(tail) < MaxNonce
    /\ \A n \in ({nonces} \ {Absent}) \cup {held[d] : d \in Callers} : n + Len(tail) < MaxNonce
    /\ tail' = Append(tail, c)
    /\ pc' = [pc EXCEPT ![c] = "queued"]
    /\ UNCHANGED <<nonces, held, node>>

HandOut(c, n) ==
    /\ held' = [held EXCEPT ![c] = n]
    /\ pc' = [pc EXCEPT ![c] = "sending"]

(* critical(): ask the provider only when nothing is cached. *)
Enter(c) ==
    /\ pc[c] = "queued" /\ Head(tail) = c
    /\ \/ nonces = Absent /\ pc' = [pc EXCEPT ![c] = "seeding"] /\ UNCHANGED held
       \/ nonces # Absent /\ HandOut(c, nonces)
    /\ UNCHANGED <<nonces, tail, node>>

(* The provider's answer: cache it, read it back, call fn. *)
Seed(c) ==
    /\ pc[c] = "seeding"
    /\ \E n \in 0..(MaxNonce - 1) : IsPending(n) /\ nonces' = n /\ HandOut(c, n)
    /\ UNCHANGED <<tail, node>>

(* The critical section settles, its local nonce is gone and the next in   *)
(* line may enter.                                                          *)
Leave(c) ==
    /\ tail' = Tail(tail)
    /\ pc' = [pc EXCEPT ![c] = "idle"]
    /\ held' = [held EXCEPT ![c] = 0]

\* Mutant: the counter is not advanced after a broadcast.
ResolveForgets(c) ==
    /\ pc[c] = "accepted"
    /\ Leave(c)
    /\ UNCHANGED <<nonces, node>>

(* fn resolved: the counter advances from the nonce that was handed out. *)
Resolve(c) ==
    /\ pc[c] = "accepted"
    /\ nonces' = held[c] + 1
    /\ Leave(c)
    /\ UNCHANGED node

(* fn threw for another reason than its nonce: nothing advances. *)
Throw(c) ==
    /\ \/ pc[c] = "seeding"
       \/ pc[c] = "sending"
       \/ pc[c] = "accepted" /\ "lost reply" \in faults
    /\ Leave(c)
    /\ \/ UNCHANGED late
       \/ "lost reply" \in faults /\ pc[c] = "sending" /\ late' = late \cup {held[c]}
    /\ UNCHANGED <<nonces, mined, pool>>

(* A nonce-class error: the caller's catch calls reset() before the next   *)
(* in line runs.                                                           *)
NonceError(c) ==
    /\ pc[c] = "refused"
    /\ nonces' = Absent
    /\ Leave(c)
    /\ UNCHANGED node

(* processInflightRelays: a submitted relay looks gone from the mempool, so *)
(* the polling loop calls reset(), at whatever point the other callers have *)
(* reached.                                                                 *)
StuckReset ==
    /\ "stuck" \in faults
    /\ pc[IrisPath] = "idle"
    /\ nonces # Absent
    /\ nonces' = Absent
    /\ UNCHANGED <<tail, pc, held, node>>

(***************************************************************************)
(* The node                                                                *)
(***************************************************************************)
Accept(c) ==
    /\ pc[c] = "sending"
    /\ held[c] >= mined /\ held[c] \notin pool
    /\ pool' = pool \cup {held[c]}
    /\ pc' = [pc EXCEPT ![c] = "accepted"]
    /\ UNCHANGED <<nonces, tail, held, mined, late>>

(* The nonce is pooled already and this transaction's fee is a large       *)
(* enough bump: the node replaces the pooled one.                          *)
Replace(c) ==
    /\ pc[c] = "sending"
    /\ held[c] \in pool
    /\ pc' = [pc EXCEPT ![c] = "accepted"]
    /\ UNCHANGED <<nonces, tail, held, node>>

(* NONCE_EXPIRED below the account's nonce, REPLACEMENT_UNDERPRICED on a   *)
(* pooled one.                                                             *)
Refuse(c) ==
    /\ pc[c] = "sending"
    /\ held[c] < mined \/ held[c] \in pool
    /\ pc' = [pc EXCEPT ![c] = "refused"]
    /\ UNCHANGED <<nonces, tail, held, node>>

(* A send its caller gave up on reaches the node after all; it can enter,  *)
(* replace or be refused unnoticed.                                        *)
LateArrival ==
    \E n \in late :
        /\ late' = late \ {n}
        /\ pool' = IF n >= mined THEN pool \cup {n} ELSE pool
        /\ UNCHANGED <<coordinator, mined>>

Mine ==
    /\ mined \in pool
    /\ mined' = mined + 1
    /\ pool' = pool \ {mined}
    /\ UNCHANGED <<coordinator, late>>

(* Eviction of a transaction nobody is about to hear of as accepted. *)
Drop ==
    /\ "drop" \in faults
    /\ \E n \in pool : pool' = pool \ {n}
    /\ UNCHANGED <<coordinator, mined, late>>

Settle(c) == Resolve(c) \/ Throw(c) \/ NonceError(c)
Answer(c) == Accept(c) \/ Replace(c) \/ Refuse(c)

Next ==
    /\ \/ \E c \in Callers :
           \/ Call(c) \/ Enter(c) \/ Seed(c) \/ Settle(c) \/ Answer(c)
       \/ StuckReset
       \/ LateArrival
       \/ Mine
       \/ Drop
    /\ UNCHANGED faults

Spec == Init /\ [][Next]_vars

(* The event loop runs every ready continuation, and the node answers or   *)
(* the RPC client's timeout rejects.                                       *)
Fairness ==
    \A c \in Callers :
        /\ WF_vars(Enter(c) /\ UNCHANGED faults)
        /\ WF_vars((Seed(c) \/ Settle(c) \/ Answer(c)) /\ UNCHANGED faults)

FairSpec == Spec /\ Fairness

(***************************************************************************)
(* Properties                                                              *)
(***************************************************************************)
(* One critical section at a time: whoever has been given the section is   *)
(* first in the promise chain, nobody is chained twice, and a caller that   *)
(* settled has left the chain, whether its fn resolved or threw.            *)
Serialised ==
    /\ \A i, j \in DOMAIN tail : tail[i] = tail[j] => i = j
    /\ \A c \in Callers :
          /\ pc[c] = "idle" <=> \A i \in DOMAIN tail : tail[i] # c
          /\ pc[c] \notin {"idle", "queued"} => Head(tail) = c

(* All nonces from the account's up to, and without, n are in the mempool. *)
Covered(n) == \A k \in mined..(n - 1) : k \in pool

(* The cached nonce never runs ahead of the account unless the mempool      *)
(* evicts: no nonce below it is missing at the node, so a transaction sent  *)
(* with it is never parked behind a gap.  This is why critical() may        *)
(* advance only when fn resolved.                                           *)
NeverAhead == "drop" \notin faults /\ nonces # Absent => Covered(nonces)

(* The nonce handed to fn is one the node has not seen, as long as no       *)
(* reply is lost and nothing is evicted: the privacy relay and the CCTP     *)
(* relays, on one account, never compete for a nonce and never replace each *)
(* other's transactions, though the stuck-transaction scan resets the       *)
(* coordinator while their sends are in flight.                             *)
HandedOutIsFree ==
    faults \subseteq {"stuck"} =>
        \A c \in Callers : pc[c] = "sending" => held[c] >= mined /\ held[c] \notin pool

(* What the nonce authority owes the account, in one.                       *)
NonceDiscipline == TypeOK /\ Serialised /\ NeverAhead /\ HandedOutIsFree

(* No caller waits for ever: one caller's failure does not poison the chain *)
(* for the next.                                                            *)
CallsSettle == \A c \in Callers : pc[c] # "idle" ~> pc[c] = "idle"

=============================================================================
