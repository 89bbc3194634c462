------------------------------ MODULE IrisRelay ------------------------------
(***************************************************************************)
(* The relayer's real-CCTP path (relayer/modules/iris-relay.ts) from one    *)
(* source chain to one destination chain: scan the source chain's burns,    *)
(* poll Circle's Iris service for attestations, broadcast the mint, watch   *)
(* its receipt, retry or dead-letter; with the files that make it           *)
(* restart-safe (pending-state-store.ts, cursor-store.ts,                   *)
(* dead-letter-store.ts) and the delivery index that /cctp-status reads     *)
(* (cctp-delivery-store.ts).  The polling loop is sequential: `at` is the    *)
(* await at which it stands, and a crash may hit it there.  Every message   *)
(* modelled is one the filter of enqueueMessage accepts.                    *)
(***************************************************************************)
EXTENDS Naturals, Sequences, FiniteSets

CONSTANTS
    Messages,       \* burns: one MessageSent log each (a dedupKey)
    BlockOf,        \* the source block of each burn
    TxOf,           \* its source transaction
    BodyOf,         \* its message bytes, as far as irisMessageMatches compares them
    Blocks,         \* bound: the last block of the source chain
    MaxRange,       \* scanner.maxLogRange
    BootLookback,   \* scanner.bootLookbackBlocks
    MaxBootLookback,\* scanner.maxBootLookbackBlocks
    NoCursor,       \* no cursor file
    MaxRetries,     \* MAX_RELAY_RETRIES
    MaxTxs,         \* bound: broadcasts on the destination chain
    MaxCrashes,     \* bound: times the process is killed
    FaultSets       \* the combinations of faults to explore, each a subset of Faults

(* "disk": writes of state files may fail.  "lost reply": a broadcast may   *)
(* be taken although submitRelay sees an error.  "lookup": the mempool      *)
(* lookup of a stuck transaction may mislead.                               *)
Faults == {"disk", "lost reply", "lookup"}

ASSUME IrisAssumption ==
    /\ {Blocks, MaxTxs, MaxCrashes} \subseteq Nat
    /\ BlockOf \in [Messages -> 1..Blocks]
    /\ MaxRange \in Nat \ {0} /\ MaxRetries \in Nat \ {0}
    /\ BootLookback \in Nat /\ MaxBootLookback \in Nat /\ NoCursor \notin Nat
    /\ FaultSets \subseteq SUBSET Faults

VARIABLES
    head,       \* source chain head less the confirmation depth
    attested,   \* burns whose attestation is complete at Iris
    minted,     \* burns minted on the destination chain
    txs,        \* our mint transactions in order of broadcast: [msg, burn, state]
    at,         \* the await the polling loop stands at
    after,      \* where it goes on after the writes of deadLetter
    scanTo,     \* toBlock of the scan under way
    chunkTo,    \* last block of the chunk being ingested
    todo,       \* messages the current pass still has to handle
    seen,       \* receipts fetched at the start of processInflightRelays
    dirty,      \* dirtyChains
    cursor,     \* lastProcessedBlock
    pending,    \* pendingMessages: message -> [tx, retries], a partial function
    processed,  \* processedMessages
    dead,       \* deadLetters
    file,       \* the state files: [pending, processed, cursor, dead, status]
    status,     \* delivery index in memory: message bytes -> status
    crashes,    \* times the process was killed
    faults      \* what may go wrong in this behaviour

source == <<head, attested>>
dest == <<minted, txs>>
loop == <<at, after, scanTo, chunkTo, todo, seen, dirty>>
memory == <<cursor, pending, processed, dead, status>>
vars == <<source, dest, loop, memory, file, crashes, faults>>

Bodies == {BodyOf[m] : m \in Messages}
Known == DOMAIN pending

TypeOK ==
    /\ head \in 0..Blocks /\ attested \subseteq Messages
    /\ minted \subseteq Messages
    /\ txs \in Seq([msg : Messages, burn : Messages, state : {"pooled", "ok", "reverted", "dropped"}])
    /\ at \in {"poll", "scan", "persistScan", "cursor", "check", "submit", "receipts", "confirm",
               "writeDead", "persistDead"}
    /\ after \in {"poll", "check", "submit", "confirm"}
    /\ todo \subseteq Messages /\ dirty \in BOOLEAN
    /\ cursor \in 0..Blocks /\ scanTo \in 0..Blocks /\ chunkTo \in 0..Blocks
    /\ Known \subseteq Messages
    /\ \A m \in Known : pending[m].tx \in 0..Len(txs) /\ pending[m].retries \in 0..MaxRetries
    /\ processed \subseteq Messages /\ dead \subseteq Messages
    /\ status \in [Bodies -> {"unknown", "pending", "delivered", "failed"}]
    /\ faults \in FaultSets

Init ==
    /\ head = 0 /\ attested = {} /\ minted = {} /\ txs = << >>
    /\ at = "poll" /\ after = "poll" /\ scanTo = 0 /\ chunkTo = 0 /\ todo = {} /\ seen = << >> /\ dirty = FALSE
    /\ cursor = 0 /\ pending = << >> /\ processed = {} /\ dead = {}
    /\ status = [b \in Bodies |-> "unknown"]
    /\ file = [pending |-> << >>, processed |-> {}, cursor |-> NoCursor, dead |-> {}, status |-> status]
    /\ crashes = 0
    /\ faults \in FaultSets

Without(m) == [k \in Known \ {m} |-> pending[k]]
Put(m, rec) == [k \in Known \cup {m} |-> IF k = m THEN rec ELSE pending[k]]

(* markPending leaves a terminal status alone; the other two overwrite.     *)
MarkPending(ms) ==
    status' = [b \in Bodies |-> IF status[b] = "unknown" /\ \E m \in ms : BodyOf[m] = b
                                THEN "pending" ELSE status[b]]
Mark(m, s) == status' = [status EXCEPT ![BodyOf[m]] = s]

(* persistChain: one file with the chain's pending and processed messages; *)
(* a failed write is only logged.  Processed messages are kept: the code    *)
(* forgets those older than twice the age at which it gives up waiting for  *)
(* an attestation, long after any scan has passed their blocks.             *)
PersistChain ==
    \/ file' = [file EXCEPT !.pending = pending, !.processed = processed]
    \/ "disk" \in faults /\ UNCHANGED file

(***************************************************************************)
(* pollChain                                                               *)
(***************************************************************************)
BeginScan ==
    /\ at = "poll"
    /\ scanTo' = head
    /\ at' = IF head > cursor THEN "scan" ELSE "check"
    /\ UNCHANGED <<source, dest, after, chunkTo, todo, seen, dirty, memory, file, crashes>>

(* An RPC error or timeout ends the tick's scan; the cursor stays. *)
ScanFails ==
    /\ at = "scan"
    /\ at' = "check"
    /\ UNCHANGED <<source, dest, after, scanTo, chunkTo, todo, seen, dirty, memory, file, crashes>>

\* Mutant: the pending file is left to the end of the next pass.
ScanChunkUnsaved ==
    LET last == IF cursor + MaxRange < scanTo THEN cursor + MaxRange ELSE scanTo
        new == {m \in Messages : BlockOf[m] \in (cursor + 1)..last} \ (processed \cup Known)
    IN
    /\ at = "scan"
    /\ chunkTo' = last
    /\ pending' = [m \in Known \cup new |-> IF m \in new THEN [tx |-> 0, retries |-> 0] ELSE pending[m]]
    /\ MarkPending(new)
    /\ at' = "cursor"
    /\ UNCHANGED <<source, dest, after, scanTo, todo, seen, dirty, cursor, processed, dead, file, crashes>>

\* Mutant: a log that is scanned again is queued again although it is processed.
ScanChunkAgain ==
    LET last == IF cursor + MaxRange < scanTo THEN cursor + MaxRange ELSE scanTo
        new == {m \in Messages : BlockOf[m] \in (cursor + 1)..last} \ Known
    IN
    /\ at = "scan"
    /\ chunkTo' = last
    /\ pending' = [m \in Known \cup new |-> IF m \in new THEN [tx |-> 0, retries |-> 0] ELSE pending[m]]
    /\ MarkPending(new)
    /\ at' = "persistScan"
    /\ UNCHANGED <<source, dest, after, scanTo, todo, seen, dirty, cursor, processed, dead, file, crashes>>

(* getLogs answers for the next chunk; enqueueMessage takes every burn that *)
(* is neither processed nor pending.                                        *)
ScanChunk ==
    LET last == IF cursor + MaxRange < scanTo THEN cursor + MaxRange ELSE scanTo
        new == {m \in Messages : BlockOf[m] \in (cursor + 1)..last} \ (processed \cup Known)
    IN
    /\ at = "scan"
    /\ chunkTo' = last
    /\ pending' = [m \in Known \cup new |-> IF m \in new THEN [tx |-> 0, retries |-> 0] ELSE pending[m]]
    /\ MarkPending(new)
    /\ at' = IF new # {} THEN "persistScan" ELSE "cursor"
    /\ UNCHANGED <<source, dest, after, scanTo, todo, seen, dirty, cursor, processed, dead, file, crashes>>

PersistScan ==
    /\ at = "persistScan"
    /\ PersistChain
    /\ at' = "cursor"
    /\ UNCHANGED <<source, dest, after, scanTo, chunkTo, todo, seen, dirty, memory, crashes>>

(* The cursor advances in memory and on disk; a failed write throws and     *)
(* ends the scan.                                                           *)
WriteCursor ==
    /\ at = "cursor"
    /\ cursor' = chunkTo
    /\ \/ file' = [file EXCEPT !.cursor = chunkTo] /\ at' = (IF chunkTo < scanTo THEN "scan" ELSE "check")
       \/ "disk" \in faults /\ UNCHANGED file /\ at' = "check"
    /\ UNCHANGED <<source, dest, after, scanTo, chunkTo, todo, seen, dirty, pending, processed, dead, status, crashes>>

(***************************************************************************)
(* processPendingMessages                                                  *)
(***************************************************************************)
(* deadLetter up to its first await.  Its two writes follow, and the pass  *)
(* that called it resumes after them.                                       *)
DeadLetter(m) ==
    /\ pending' = Without(m)
    /\ processed' = processed \cup {m}
    /\ dead' = dead \cup {m}
    /\ Mark(m, "failed")
    /\ at' = "writeDead" /\ after' = at
    /\ UNCHANGED cursor

WriteDead ==
    /\ at = "writeDead"
    /\ \/ file' = [file EXCEPT !.dead = dead]
       \/ "disk" \in faults /\ UNCHANGED file
    /\ at' = "persistDead"
    /\ UNCHANGED <<source, dest, after, scanTo, chunkTo, todo, seen, dirty, memory, crashes>>

PersistDead ==
    /\ at = "persistDead"
    /\ PersistChain
    /\ at' = after
    /\ UNCHANGED <<source, dest, after, scanTo, chunkTo, todo, seen, dirty, memory, crashes>>

(* Phase 1: a message still awaiting attestation is past its maximum age.   *)
Expire(m) ==
    /\ at = "check" /\ m \in Known
    /\ pending[m].tx = 0
    /\ DeadLetter(m)
    /\ UNCHANGED <<source, dest, scanTo, chunkTo, todo, seen, dirty, file, crashes>>

(* The entry of the source transaction's list that checkAttestation picks:  *)
(* the first whose bytes match.                                             *)
IrisEntry(m) == CHOOSE e \in Messages : TxOf[e] = TxOf[m] /\ BodyOf[e] = BodyOf[m]

(* Phase 2: of the messages not yet broadcast, those outside their backoff  *)
(* whose attestation Iris returned are ready; `ready` is any of those, the  *)
(* rest is in its backoff window or got an error.                           *)
CheckAttestations(ready) ==
    /\ at = "check"
    /\ ready \subseteq {m \in Known : pending[m].tx = 0 /\ IrisEntry(m) \in attested}
    /\ todo' = ready
    /\ dirty' = FALSE
    /\ at' = "submit"
    /\ UNCHANGED <<source, dest, after, scanTo, chunkTo, seen, memory, file, crashes>>

(* The destination takes the mint of the attested burn into its mempool. *)
Take(m) == txs' = Append(txs, [msg |-> m, burn |-> IrisEntry(m), state |-> "pooled"])

(* Phase 3: submitRelay broadcast it. *)
Submitted(m) ==
    /\ at = "submit" /\ m \in todo
    /\ IrisEntry(m) \notin minted /\ Len(txs) < MaxTxs
    /\ Take(m)
    /\ pending' = Put(m, [pending[m] EXCEPT !.tx = Len(txs) + 1])
    /\ todo' = todo \ {m} /\ dirty' = TRUE
    /\ UNCHANGED <<source, minted, at, after, scanTo, chunkTo, seen, cursor, processed, dead, status, file, crashes>>

(* The destination contract reports that it is minted already. *)
AlreadyProcessed(m) ==
    /\ at = "submit" /\ m \in todo
    /\ IrisEntry(m) \in minted
    /\ processed' = processed \cup {m}
    /\ pending' = Without(m)
    /\ todo' = todo \ {m} /\ dirty' = TRUE
    /\ UNCHANGED <<source, dest, at, after, scanTo, chunkTo, seen, cursor, dead, status, file, crashes>>

(* The retry counter grows, and at its limit the message is given up. *)
Retry(m) ==
    LET n == pending[m].retries + 1 IN
    IF n >= MaxRetries
    THEN DeadLetter(m)
    ELSE /\ pending' = Put(m, [tx |-> 0, retries |-> n])
         /\ UNCHANGED <<at, after, cursor, processed, dead, status>>

(* The broadcast is refused or fails; its reply may also be lost after the *)
(* node took it.                                                            *)
SubmitFails(m) ==
    /\ at = "submit" /\ m \in todo
    /\ \/ UNCHANGED txs
       \/ "lost reply" \in faults /\ IrisEntry(m) \notin minted /\ Len(txs) < MaxTxs /\ Take(m)
    /\ Retry(m)
    /\ todo' = todo \ {m} /\ dirty' = TRUE
    /\ UNCHANGED <<source, minted, scanTo, chunkTo, seen, file, crashes>>

(* One write at the end of a pass that changed anything. *)
EndPass(next) ==
    /\ todo = {}
    /\ IF dirty THEN PersistChain ELSE UNCHANGED file
    /\ at' = next
    /\ UNCHANGED <<source, dest, after, scanTo, chunkTo, todo, seen, dirty, memory, crashes>>

EndSubmit == at = "submit" /\ EndPass("receipts")

(***************************************************************************)
(* processInflightRelays                                                   *)
(***************************************************************************)
(* The receipts of all broadcast messages are fetched first; one that       *)
(* cannot be fetched is an error.                                           *)
FetchReceipts(missed) ==
    LET inflight == {m \in Known : pending[m].tx # 0} IN
    /\ at = "receipts"
    /\ missed \subseteq inflight
    /\ todo' = inflight
    /\ seen' = [m \in inflight |-> IF m \in missed THEN "error" ELSE txs[pending[m].tx].state]
    /\ dirty' = FALSE
    /\ at' = "confirm"
    /\ UNCHANGED <<source, dest, after, scanTo, chunkTo, memory, file, crashes>>

(* Nothing to do for a failed lookup, for a transaction below the stuck     *)
(* threshold, and for one that is still in the mempool.                     *)
LeaveInFlight(m) ==
    /\ at = "confirm" /\ m \in todo
    /\ seen[m] \in {"error", "pooled", "dropped"}
    /\ todo' = todo \ {m}
    /\ UNCHANGED <<source, dest, at, after, scanTo, chunkTo, seen, dirty, memory, file, crashes>>

\* Mutant: any receipt counts as a delivery.
ConfirmedByAnyReceipt(m) ==
    /\ at = "confirm" /\ m \in todo
    /\ seen[m] \in {"ok", "reverted"}
    /\ processed' = processed \cup {m}
    /\ pending' = Without(m)
    /\ Mark(m, "delivered")
    /\ todo' = todo \ {m} /\ dirty' = TRUE
    /\ UNCHANGED <<source, dest, at, after, scanTo, chunkTo, seen, cursor, dead, file, crashes>>

(* A successful receipt. *)
Confirmed(m) ==
    /\ at = "confirm" /\ m \in todo
    /\ seen[m] = "ok"
    /\ processed' = processed \cup {m}
    /\ pending' = Without(m)
    /\ Mark(m, "delivered")
    /\ todo' = todo \ {m} /\ dirty' = TRUE
    /\ UNCHANGED <<source, dest, at, after, scanTo, chunkTo, seen, cursor, dead, file, crashes>>

\* Mutant: a broadcast without a receipt is waited for without end.
NeverDropped(m) == FALSE

(* No receipt past the stuck threshold, and the node does not show the      *)
(* transaction as pending: it was dropped.  The lookup also says so when it *)
(* fails, and when the transaction was mined after its receipt was asked.   *)
Dropped(m) ==
    seen[m] \in {"pooled", "dropped"} /\ (txs[pending[m].tx].state = "dropped" \/ "lookup" \in faults)

(* scheduleResubmit, for a dropped and for a reverted transaction. *)
Resubmit(m) ==
    /\ at = "confirm" /\ m \in todo
    /\ Dropped(m) \/ seen[m] = "reverted"
    /\ Retry(m)
    /\ todo' = todo \ {m} /\ dirty' = TRUE
    /\ UNCHANGED <<source, dest, scanTo, chunkTo, seen, file, crashes>>

EndConfirm == at = "confirm" /\ EndPass("poll")

(***************************************************************************)
(* The process and its surroundings                                        *)
(***************************************************************************)
(* A fire-and-forget write of the delivery index lands. *)
SaveStatus ==
    /\ file.status # status
    /\ file' = [file EXCEPT !.status = status]
    /\ UNCHANGED <<source, dest, loop, memory, crashes>>

(* resolveBootCursor: without a cursor file, or too far behind the head,    *)
(* scanning starts at the lookback floor.                                   *)
BootCursor ==
    LET floor == IF head > BootLookback THEN head - BootLookback ELSE 0 IN
    IF file.cursor = NoCursor \/ (file.cursor # NoCursor /\ head > file.cursor + MaxBootLookback)
    THEN floor ELSE file.cursor

(* The process dies; initChain and loadDeadLetters read the files back.    *)
Restart ==
    /\ crashes < MaxCrashes
    /\ crashes' = crashes + 1
    /\ at' = "poll" /\ after' = "poll" /\ todo' = {} /\ seen' = << >> /\ dirty' = FALSE /\ scanTo' = 0 /\ chunkTo' = 0
    /\ cursor' = BootCursor /\ pending' = file.pending /\ processed' = file.processed
    /\ dead' = file.dead /\ status' = file.status
    /\ UNCHANGED <<source, dest, file>>

NewBlock ==
    /\ head < Blocks
    /\ head' = head + 1
    /\ UNCHANGED <<attested, dest, loop, memory, file, crashes>>

Attest(m) ==
    /\ BlockOf[m] <= head /\ m \notin attested
    /\ attested' = attested \cup {m}
    /\ UNCHANGED <<head, dest, loop, memory, file, crashes>>

(* A mint is mined: it reverts when its burn is minted already, and may     *)
(* revert for reasons of its own.                                           *)
Mine(i) ==
    /\ txs[i].state = "pooled"
    /\ \/ /\ txs[i].burn \notin minted
          /\ minted' = minted \cup {txs[i].burn}
          /\ txs' = [txs EXCEPT ![i].state = "ok"]
       \/ txs' = [txs EXCEPT ![i].state = "reverted"] /\ UNCHANGED minted
    /\ UNCHANGED <<source, loop, memory, file, crashes>>

Evict(i) ==
    /\ txs[i].state = "pooled"
    /\ txs' = [txs EXCEPT ![i].state = "dropped"]
    /\ UNCHANGED <<source, minted, loop, memory, file, crashes>>

Scan == BeginScan \/ ScanFails \/ ScanChunk \/ PersistScan \/ WriteCursor

Pending ==
    \/ \E m \in Messages : Expire(m) \/ Submitted(m) \/ AlreadyProcessed(m) \/ SubmitFails(m)
    \/ \E ready \in SUBSET Messages : CheckAttestations(ready)
    \/ EndSubmit

Inflight ==
    \/ \E missed \in SUBSET Messages : FetchReceipts(missed)
    \/ \E m \in Messages : LeaveInFlight(m) \/ Confirmed(m) \/ Resubmit(m)
    \/ EndConfirm

Loop == Scan \/ Pending \/ Inflight \/ WriteDead \/ PersistDead

Next ==
    /\ \/ Loop \/ SaveStatus \/ Restart
       \/ NewBlock
       \/ \E m \in Messages : Attest(m)
       \/ \E i \in DOMAIN txs : Mine(i) \/ Evict(i)
    /\ UNCHANGED faults

Spec == Init /\ [][Next]_vars

(* The loop never rests; RPC nodes, Iris and the mempool answer each message *)
(* in the end, though any one call may fail; a pooled mint is mined or       *)
(* evicted.                                                                  *)
Fairness ==
    /\ WF_vars(Loop /\ UNCHANGED faults)
    /\ SF_vars(ScanChunk /\ UNCHANGED faults) /\ SF_vars(FetchReceipts({}) /\ UNCHANGED faults)
    /\ \A m \in Messages :
        /\ WF_vars(Attest(m) /\ UNCHANGED faults)
        /\ SF_vars(\E ready \in SUBSET Messages : m \in ready /\ CheckAttestations(ready) /\ UNCHANGED faults)
        /\ SF_vars(Resubmit(m) /\ UNCHANGED faults)
    /\ \A i \in 1..MaxTxs : WF_vars(i \in DOMAIN txs /\ Mine(i) /\ UNCHANGED faults)

FairSpec == Spec /\ Fairness

(***************************************************************************)
(* Properties                                                              *)
(***************************************************************************)
(* The relayer is never further behind than its lookback, so that a restart *)
(* takes up the scan where the files left it.                               *)
KeepsUp ==
    IF file.cursor = NoCursor THEN head <= BootLookback ELSE head <= file.cursor + MaxBootLookback

(* Pending-state durable before cursor durable: every burn up to the block  *)
(* of the cursor file is in the pending file, so that no crash orphans it;  *)
(* this needs every write to succeed.                                       *)
NoOrphan ==
    "disk" \notin faults /\ file.cursor # NoCursor => \A m \in Messages :
        BlockOf[m] <= file.cursor => m \in DOMAIN file.pending \cup file.processed

(* A burn the scan has passed is waiting or settled, and never both: no     *)
(* failure path drops it.                                                   *)
WaitingOrSettled ==
    /\ Known \cap processed = {}
    /\ "disk" \notin faults => \A m \in Messages : BlockOf[m] <= cursor => m \in Known \cup processed

(* No burn is lost or held twice, in memory or across a restart.            *)
NothingLost == TypeOK /\ NoOrphan /\ WaitingOrSettled

(* A message settled without a dead letter has been minted, unless the      *)
(* dead letter could not be written; the burns of one transaction are told  *)
(* apart by their bytes.                                                    *)
SettledIsMinted == "disk" \notin faults => processed \ dead \subseteq minted

(* What the delivery index says is so: delivered is minted, and failed is   *)
(* dead-lettered, unless the process died before it wrote the dead letter.  *)
StatusIsTrue ==
    \A m \in Messages :
        /\ status[BodyOf[m]] = "delivered" => m \in minted
        /\ status[BodyOf[m]] = "failed" => m \in dead \/ crashes > 0

(* A broadcast that is waited for is one of this very message, and its      *)
(* message is not handed out for another broadcast meanwhile.               *)
OneBroadcastInFlight ==
    \A m \in Known : pending[m].tx # 0 =>
        /\ txs[pending[m].tx].msg = m
        /\ at = "submit" => m \notin todo

(* What is reported or counted as done is done, and by one broadcast each.  *)
NothingClaimed == SettledIsMinted /\ StatusIsTrue /\ OneBroadcastInFlight

(* A message recorded as settled is not paid for again, however often its   *)
(* log is scanned anew after a crash.                                       *)
SettledIsNotRelayedAgain ==
    [][\A i \in DOMAIN txs' \ DOMAIN txs : txs'[i].msg \notin file.processed]_vars

(* Every burn is settled in the end, minted or dead-lettered, whatever      *)
(* fails on the way but the disk.                                           *)
EveryBurnSettles ==
    \A m \in Messages : "disk" \notin faults /\ BlockOf[m] <= head ~> m \in processed

=============================================================================
