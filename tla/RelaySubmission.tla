--------------------------- MODULE RelaySubmission ---------------------------
(***************************************************************************)
(* POST /relay and GET /status of the relayer on one chain: the HTTP       *)
(* handlers (http-api.ts), the privacy relay's checks (privacy-relay.ts),   *)
(* the wallet manager's lock and calldata dedup (wallet-manager.ts) and the *)
(* durable idempotency store (idempotency-store.ts over json-state-store.ts).*)
(* The nonce of each broadcast is module NonceCoordinator's subject.  One   *)
(* action runs from one await of a handler to the next.                     *)
(***************************************************************************)
EXTENDS Naturals, Sequences, FiniteSets

CONSTANTS
    Requests,       \* POSTs the clients make, retries of one another among them
    Keys,           \* idempotency keys
    Payloads,       \* <<to, data>> pairs
    KeyOf,          \* each request's key, or None
    DataOf,         \* each request's payload
    None,
    PostFaultSets   \* the combinations of faults to explore, each a subset of PostFaults

(* "lost reply": sendTransaction may throw after the node took the          *)
(* transaction.  "disk": a write of the store's file may fail.  "crash":    *)
(* the process may be killed and started again.  "expiry": records and      *)
(* dedup entries may pass their TTLs.                                       *)
PostFaults == {"lost reply", "disk", "crash", "expiry"}

Hashes == 1..Cardinality(Requests)
Terminal == {"confirmed", "failed"}
Record == [hash : Hashes, status : {"pending"} \cup Terminal]
RecordMap == [Keys -> Record \cup {None}]

ASSUME PostAssumption ==
    /\ IsFiniteSet(Requests)
    /\ KeyOf \in [Requests -> Keys \cup {None}]
    /\ DataOf \in [Requests -> Payloads]
    /\ None \notin Requests \cup Keys \cup Hashes \cup Record
    /\ PostFaultSets \subseteq SUBSET PostFaults

VARIABLES
    stage,      \* where each request's handler is suspended
    answer,     \* the transaction hash in each request's 200 response, or None
    locked,     \* ChainState.locked
    txCache,    \* payload -> hash, or None
    records,    \* idempotency records in memory: key -> [hash, status], or None
    inflight,   \* key -> the request whose submit() others await, or None
    writes,     \* JsonStateStore's queue of writes: [by, snap], by None if nobody waits
    disk,       \* the records file
    sent,       \* what the node took: [hash, req]
    receipts,   \* hash -> "pending", "confirmed" or "failed"
    postFaults  \* what may go wrong in this behaviour

handlers == <<stage, answer>>
memory == <<locked, txCache, records, inflight>>
storage == <<writes, disk>>
chain == <<sent, receipts>>
postVars == <<handlers, memory, storage, chain, postFaults>>

InProgress == {"waiting", "verifying", "estimating", "sending", "accepted", "persisting"}

PostTypeOK ==
    /\ stage \in [Requests -> {"new", "done", "rejected", "cut"} \cup InProgress]
    /\ answer \in [Requests -> Hashes \cup {None}]
    /\ locked \in BOOLEAN
    /\ txCache \in [Payloads -> Hashes \cup {None}]
    /\ records \in RecordMap /\ disk \in RecordMap
    /\ inflight \in [Keys -> Requests \cup {None}]
    /\ writes \in Seq([by : Requests \cup {None}, snap : RecordMap])
    /\ sent \subseteq [hash : Hashes, req : Requests]
    /\ receipts \in [Hashes -> {"pending"} \cup Terminal]
    /\ postFaults \in PostFaultSets

PostInit ==
    /\ stage = [r \in Requests |-> "new"]
    /\ answer = [r \in Requests |-> None]
    /\ locked = FALSE
    /\ txCache = [d \in Payloads |-> None]
    /\ records = [k \in Keys |-> None]
    /\ inflight = [k \in Keys |-> None]
    /\ writes = << >>
    /\ disk = [k \in Keys |-> None]
    /\ sent = {}
    /\ receipts = [h \in Hashes |-> "pending"]
    /\ postFaults \in PostFaultSets

Waiters(r) == {w \in Requests : stage[w] = "waiting" /\ KeyOf[w] = KeyOf[r]}

ForgetInflight(r) == [k \in Keys |-> IF inflight[k] = r THEN None ELSE inflight[k]]

(* persist(): a snapshot of the records joins the file's write queue. *)
Persist(who, recs) == writes' = Append(writes, [by |-> who, snap |-> recs])

(***************************************************************************)
(* POST /relay                                                             *)
(***************************************************************************)
\* Mutant: a replay answers with the calldata cache's hash, whatever its key.
ReplayByCalldata(r) ==
    /\ stage[r] = "new" /\ KeyOf[r] # None
    /\ txCache[DataOf[r]] # None
    /\ answer' = [answer EXCEPT ![r] = txCache[DataOf[r]]]
    /\ stage' = [stage EXCEPT ![r] = "done"]
    /\ UNCHANGED <<memory, storage, chain>>

(* submitOnce() finds a durable record. *)
Replay(r) ==
    /\ stage[r] = "new" /\ KeyOf[r] # None
    /\ records[KeyOf[r]] # None
    /\ answer' = [answer EXCEPT ![r] = records[KeyOf[r]].hash]
    /\ stage' = [stage EXCEPT ![r] = "done"]
    /\ UNCHANGED <<memory, storage, chain>>

(* submitOnce() finds a submission in flight and awaits it. *)
Join(r) ==
    /\ stage[r] = "new" /\ KeyOf[r] # None
    /\ records[KeyOf[r]] = None /\ inflight[KeyOf[r]] # None
    /\ stage' = [stage EXCEPT ![r] = "waiting"]
    /\ UNCHANGED <<answer, memory, storage, chain>>

(* Neither, or no key at all: submit() runs up to its first await and its  *)
(* promise is registered.                                                   *)
Begin(r) ==
    /\ stage[r] = "new"
    /\ KeyOf[r] # None => records[KeyOf[r]] = None /\ inflight[KeyOf[r]] = None
    /\ inflight' = [k \in Keys |-> IF k = KeyOf[r] THEN r ELSE inflight[k]]
    /\ stage' = [stage EXCEPT ![r] = "verifying"]
    /\ UNCHANGED <<answer, locked, txCache, records, storage, chain>>

(* The handler ends in an error response, and so do those awaiting it. *)
Reject(r) ==
    /\ stage' = [w \in Requests |->
                   IF w = r \/ (KeyOf[r] # None /\ w \in Waiters(r)) THEN "rejected" ELSE stage[w]]
    /\ inflight' = ForgetInflight(r)
    /\ UNCHANGED answer

(* Chain, target, quote, selector or fee is refused. *)
Invalid(r) ==
    /\ stage[r] = "verifying"
    /\ Reject(r)
    /\ UNCHANGED <<locked, txCache, records, storage, chain>>

(* The fee is good: RELAYER_BUSY behind a held lock, else estimate gas. *)
FeeVerified(r) ==
    /\ stage[r] = "verifying"
    /\ IF locked
       THEN Reject(r)
       ELSE stage' = [stage EXCEPT ![r] = "estimating"] /\ UNCHANGED <<answer, inflight>>
    /\ UNCHANGED <<locked, txCache, records, storage, chain>>

GasEstimationFails(r) ==
    /\ stage[r] = "estimating"
    /\ Reject(r)
    /\ UNCHANGED <<locked, txCache, records, storage, chain>>

\* Mutant: the lock is only looked at before gas is estimated.
TakeLockUnchecked(r) ==
    /\ stage[r] = "estimating"
    /\ IF txCache[DataOf[r]] # None
       THEN Reject(r) /\ UNCHANGED locked
       ELSE /\ locked' = TRUE
            /\ stage' = [stage EXCEPT ![r] = "sending"]
            /\ UNCHANGED <<answer, inflight>>
    /\ UNCHANGED <<txCache, records, storage, chain>>

(* submitTransaction() up to its broadcast: the lock may have been taken   *)
(* and the payload broadcast while gas was being estimated.                 *)
TakeLock(r) ==
    /\ stage[r] = "estimating"
    /\ IF locked \/ txCache[DataOf[r]] # None
       THEN Reject(r) /\ UNCHANGED locked
       ELSE /\ locked' = TRUE
            /\ stage' = [stage EXCEPT ![r] = "sending"]
            /\ UNCHANGED <<answer, inflight>>
    /\ UNCHANGED <<txCache, records, storage, chain>>

(* The node takes the transaction. *)
Broadcast(r) ==
    /\ stage[r] = "sending"
    /\ sent' = sent \cup {[hash |-> Cardinality(sent) + 1, req |-> r]}
    /\ stage' = [stage EXCEPT ![r] = "accepted"]
    /\ UNCHANGED <<answer, memory, storage, receipts>>

(* sendTransaction throws; finally releases the lock. *)
SendFails(r) ==
    /\ stage[r] = "sending" \/ ("lost reply" \in postFaults /\ stage[r] = "accepted")
    /\ locked' = FALSE
    /\ Reject(r)
    /\ UNCHANGED <<txCache, records, storage, chain>>

HashOf(r) == (CHOOSE b \in sent : b.req = r).hash

\* Mutant: the waiters of a submission are forgotten when it resolves.
BroadcastedAlone(r) ==
    /\ stage[r] = "accepted"
    /\ txCache' = [txCache EXCEPT ![DataOf[r]] = HashOf(r)]
    /\ locked' = FALSE
    /\ inflight' = ForgetInflight(r)
    /\ IF KeyOf[r] = None
       THEN /\ answer' = [answer EXCEPT ![r] = HashOf(r)]
            /\ stage' = [stage EXCEPT ![r] = "done"]
            /\ UNCHANGED <<records, writes>>
       ELSE /\ records' = [records EXCEPT ![KeyOf[r]] = [hash |-> HashOf(r), status |-> "pending"]]
            /\ Persist(r, records')
            /\ stage' = [stage EXCEPT ![r] = "persisting"]
            /\ UNCHANGED answer
    /\ UNCHANGED <<disk, chain>>

(* sendTransaction resolves: dedup entry, lock, record, in-flight entry and *)
(* waiters, all before another macrotask runs; the owner awaits the write.  *)
Broadcasted(r) ==
    /\ stage[r] = "accepted"
    /\ txCache' = [txCache EXCEPT ![DataOf[r]] = HashOf(r)]
    /\ locked' = FALSE
    /\ inflight' = ForgetInflight(r)
    /\ IF KeyOf[r] = None
       THEN /\ answer' = [answer EXCEPT ![r] = HashOf(r)]
            /\ stage' = [stage EXCEPT ![r] = "done"]
            /\ UNCHANGED <<records, writes>>
       ELSE /\ records' = [records EXCEPT ![KeyOf[r]] = [hash |-> HashOf(r), status |-> "pending"]]
            /\ Persist(r, records')
            /\ answer' = [w \in Requests |-> IF w \in Waiters(r) THEN HashOf(r) ELSE answer[w]]
            /\ stage' = [w \in Requests |-> IF w = r THEN "persisting"
                                         ELSE IF w \in Waiters(r) THEN "done" ELSE stage[w]]
    /\ UNCHANGED <<disk, chain>>

(* The oldest queued write lands, or fails and is only logged; whoever     *)
(* awaited it answers its client either way.                                *)
WriteSettles ==
    /\ writes # << >>
    /\ LET w == Head(writes) IN
        /\ \/ disk' = w.snap
           \/ "disk" \in postFaults /\ UNCHANGED disk
        /\ IF w.by = None THEN UNCHANGED handlers
           ELSE /\ answer' = [answer EXCEPT ![w.by] = HashOf(w.by)]
                /\ stage' = [stage EXCEPT ![w.by] = "done"]
    /\ writes' = Tail(writes)
    /\ UNCHANGED <<memory, chain>>

(***************************************************************************)
(* The rest of the process                                                 *)
(***************************************************************************)
(* GET /status of a mined transaction backfills the record's status. *)
BackfillStatus(h) ==
    /\ receipts[h] \in Terminal
    /\ \E k \in Keys : records[k] # None /\ records[k].hash = h /\ records[k].status # receipts[h]
    /\ records' = [k \in Keys |-> IF records[k] # None /\ records[k].hash = h
                                  THEN [records[k] EXCEPT !.status = receipts[h]] ELSE records[k]]
    /\ Persist(None, records')
    /\ UNCHANGED <<handlers, locked, txCache, inflight, disk, chain>>

(* The five-minute sweep finds a record past its TTL. *)
SweepRecord(k) ==
    /\ "expiry" \in postFaults
    /\ records[k] # None
    /\ records' = [records EXCEPT ![k] = None]
    /\ Persist(None, records')
    /\ UNCHANGED <<handlers, locked, txCache, inflight, disk, chain>>

(* cleanDedupCache() finds an entry past ten minutes. *)
CleanDedup(d) ==
    /\ "expiry" \in postFaults
    /\ txCache[d] # None
    /\ txCache' = [txCache EXCEPT ![d] = None]
    /\ UNCHANGED <<handlers, locked, records, inflight, storage, chain>>

\* Mutant: a restart starts from an empty store.
RestartEmpty ==
    /\ "crash" \in postFaults
    /\ stage' = [r \in Requests |-> IF stage[r] \in InProgress THEN "cut" ELSE stage[r]]
    /\ locked' = FALSE
    /\ txCache' = [d \in Payloads |-> None]
    /\ inflight' = [k \in Keys |-> None]
    /\ records' = [k \in Keys |-> None]
    /\ writes' = << >>
    /\ UNCHANGED <<answer, disk, chain>>

(* The process dies and initialize() loads what the file holds. *)
Restart ==
    /\ "crash" \in postFaults
    /\ stage' = [r \in Requests |-> IF stage[r] \in InProgress THEN "cut" ELSE stage[r]]
    /\ locked' = FALSE
    /\ txCache' = [d \in Payloads |-> None]
    /\ inflight' = [k \in Keys |-> None]
    /\ records' = disk
    /\ writes' = << >>
    /\ UNCHANGED <<answer, disk, chain>>

MineSent(b) ==
    /\ receipts[b.hash] = "pending"
    /\ \E s \in Terminal : receipts' = [receipts EXCEPT ![b.hash] = s]
    /\ UNCHANGED <<handlers, memory, storage, sent>>

Handle(r) ==
    \/ Replay(r) \/ Join(r) \/ Begin(r)
    \/ Invalid(r) \/ FeeVerified(r) \/ GasEstimationFails(r) \/ TakeLock(r)
    \/ Broadcast(r) \/ SendFails(r) \/ Broadcasted(r)

PostNext ==
    /\ \/ \E r \in Requests : Handle(r)
       \/ WriteSettles
       \/ \E h \in Hashes : BackfillStatus(h)
       \/ \E k \in Keys : SweepRecord(k)
       \/ \E d \in Payloads : CleanDedup(d)
       \/ Restart
       \/ \E b \in sent : MineSent(b)
    /\ UNCHANGED postFaults

PostSpec == PostInit /\ [][PostNext]_postVars

(* Every awaited RPC call or write settles one way or the other. *)
Continue(r) == stage[r] # "new" /\ Handle(r) /\ UNCHANGED postFaults
PostFairness ==
    /\ WF_postVars(WriteSettles /\ UNCHANGED postFaults)
    /\ \A r \in Requests : WF_postVars(Continue(r))
PostFairSpec == PostSpec /\ PostFairness

(***************************************************************************)
(* Properties                                                              *)
(***************************************************************************)
BroadcastsFor(k) == {b \in sent : KeyOf[b.req] = k}

(* Exactly one submit() per key across concurrent requests and across      *)
(* restarts, once the first broadcast is persisted and until it expires.    *)
PersistedKeyIsSpent ==
    [][\A k \in Keys : "expiry" \notin postFaults /\ disk[k] # None => BroadcastsFor(k)' = BroadcastsFor(k)]_postVars

(* A client is only ever given the hash of a broadcast made for its key,   *)
(* or for its own request when it sent none, whichever way its answer came.*)
AnswersAreTruthful ==
    \A r \in Requests : answer[r] # None =>
        \E b \in sent : b.hash = answer[r] /\ (b.req = r \/ (KeyOf[r] # None /\ KeyOf[b.req] = KeyOf[r]))

(* No broadcast happened for a request that was answered with an error, so *)
(* a retry with the same key is free to try again.                          *)
RejectedWasNotSent ==
    "lost reply" \notin postFaults => \A r \in Requests : stage[r] = "rejected" => \A b \in sent : b.req # r

(* A terminal status in a record, in memory or on disk, is the status of   *)
(* its transaction's receipt.                                               *)
StatusIsTheReceipts ==
    \A m \in {records, disk} : \A k \in Keys :
        m[k] # None /\ m[k].status \in Terminal => receipts[m[k].hash] = m[k].status

(* When no write is queued the file holds what memory holds: every change  *)
(* of a record is followed by a write of it.                                *)
FileFollowsMemory == "disk" \notin postFaults /\ writes = << >> => disk = records

(* What clients are told, now or after a restart, is so.                    *)
HonestAnswers ==
    PostTypeOK /\ AnswersAreTruthful /\ RejectedWasNotSent /\ StatusIsTheReceipts /\ FileFollowsMemory

(* One broadcast at a time uses the chain's wallet, and the lock is held   *)
(* exactly then, so that no path leaves it behind.                          *)
LockCoversBroadcast ==
    LET using == {r \in Requests : stage[r] \in {"sending", "accepted"}}
    IN  Cardinality(using) <= 1 /\ (locked <=> using # {})

(* The same calldata is broadcast once while its dedup entry lives, even   *)
(* for requests that raced through gas estimation with different keys.      *)
CalldataOnce ==
    postFaults \subseteq {"disk"} => \A b, c \in sent : DataOf[b.req] = DataOf[c.req] => b = c

(* The wallet never carries two broadcasts at once, nor one calldata twice. *)
OneBroadcast == LockCoversBroadcast /\ CalldataOnce

(* Every request that was taken up is answered, unless the process dies. *)
EveryPostSettles == \A r \in Requests : stage[r] \in InProgress ~> stage[r] \notin InProgress

=============================================================================
