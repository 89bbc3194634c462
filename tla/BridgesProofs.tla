---------------------------- MODULE BridgesProofs ----------------------------
(***************************************************************************)
(* Proofs about IrisRelay and about the two bridges together.  The real     *)
(* bridge comes first; for the mock bridge the theorems of CctpProofs are    *)
(* taken over, and the last part shows that what each bridge guarantees by   *)
(* itself holds in the process that runs one of them.                       *)
(***************************************************************************)
EXTENDS Bridges, SequenceTheorems, TLAPS

-----------------------------------------------------------------------------
(* The inductive invariant *)

Entry == [tx : 0..MaxTxs, retries : 0..MaxRetries]
Queues == UNION {[S -> Entry] : S \in SUBSET Messages}
Statuses == [Bodies -> {"unknown", "pending", "delivered", "failed"}]
States == {"pooled", "ok", "reverted", "dropped"}
Mints == [msg : Messages, burn : Messages, state : States]
Files == [pending : Queues, processed : SUBSET Messages, cursor : 0..Blocks \cup {NoCursor},
          dead : SUBSET Messages, status : Statuses]

\* The burns that are waiting or settled, in memory and in the files.
Taken == Known \cup processed
Kept == DOMAIN file.pending \cup file.processed

\* The await a pass goes on from: that of deadLetter stands within another one.
Phase == IF at \in {"writeDead", "persistDead"} THEN after ELSE at

\* A broadcast that an entry waits for was made, and for this very burn.
Refers(q, ts) ==
    \A m \in DOMAIN q : q[m].tx # 0 => q[m].tx <= Len(ts) /\ ts[q[m].tx].msg = m

Records == pending \in Queues /\ file \in Files /\ crashes \in Nat /\ Len(txs) <= MaxTxs
Referring == Refers(pending, txs) /\ Refers(file.pending, txs)
Apart == Known \cap processed = {} /\ DOMAIN file.pending \cap file.processed = {}
Behind == file.processed \subseteq processed /\ file.dead \subseteq dead /\ Kept \subseteq Taken
Saved == "disk" \notin faults =>
    /\ at # "persistScan" => Taken \subseteq Kept
    /\ at # "writeDead" => dead \subseteq file.dead
Honest == \A i \in 1..Len(txs) :
    /\ txs[i].burn = IrisEntry(txs[i].msg)
    /\ txs[i].state = "ok" => txs[i].burn \in minted
Handling ==
    /\ Phase = "submit" => \A m \in todo : m \in Known /\ pending[m].tx = 0
    /\ Phase = "confirm" => \A m \in todo :
          /\ m \in Known /\ pending[m].tx # 0
          /\ seen[m] = "ok" => txs[pending[m].tx].state = "ok"
Delivered(s, set) == \A m \in Messages : s[BodyOf[m]] = "delivered" => m \in set
Reported ==
    /\ Delivered(status, minted) /\ Delivered(file.status, minted)
    /\ crashes = 0 => \A m \in Messages : status[BodyOf[m]] = "failed" => m \in dead
Minted == "disk" \notin faults => processed \ dead \subseteq minted /\ file.processed \ file.dead \subseteq minted

\* What is so whatever the relayer slept through.
Inv == TypeOK /\ Records /\ Referring /\ Apart /\ Behind /\ Saved /\ Honest /\ Handling

\* Bytes tell burns apart.
BodiesDiffer == \A m, k \in Messages : BodyOf[m] = BodyOf[k] => m = k

Scanned == "disk" \notin faults =>
    /\ \A m \in Messages : BlockOf[m] <= cursor => m \in Taken
    /\ at \in {"persistScan", "cursor"} => \A m \in Messages : BlockOf[m] <= chunkTo => m \in Taken
    /\ \A m \in Messages : file.cursor # NoCursor /\ BlockOf[m] <= file.cursor => m \in Kept

-----------------------------------------------------------------------------
(* The queue of pending messages *)

\* A queue, seen entry by entry.
LEMMA QueueFacts ==
    ASSUME NEW q \in Queues
    PROVE  /\ DOMAIN q \subseteq Messages
           /\ \A m \in DOMAIN q : q[m] \in Entry
BY DEF Queues

\* A partial function from burns to entries is a queue.
LEMMA QueueIntro ==
    ASSUME NEW S \in SUBSET Messages, NEW q \in [S -> Entry]
    PROVE  q \in Queues
BY DEF Queues

\* Without: one entry leaves, the others stay as they are.
LEMMA WithoutFacts ==
    ASSUME pending \in Queues, NEW m
    PROVE  /\ Without(m) \in Queues
           /\ DOMAIN Without(m) = Known \ {m}
           /\ \A k \in Known \ {m} : Without(m)[k] = pending[k]
<1>1. Known \subseteq Messages /\ \A k \in Known : pending[k] \in Entry
  BY QueueFacts DEF Known
<1>2. Without(m) \in [Known \ {m} -> Entry]
  BY <1>1 DEF Without
<1>. QED  BY <1>1, <1>2, QueueIntro DEF Without

\* Put: one entry is written, the others stay as they are.
LEMMA PutFacts ==
    ASSUME pending \in Queues, NEW m \in Messages, NEW rec \in Entry
    PROVE  /\ Put(m, rec) \in Queues
           /\ DOMAIN Put(m, rec) = Known \cup {m}
           /\ Put(m, rec)[m] = rec
           /\ \A k \in Known \ {m} : Put(m, rec)[k] = pending[k]
<1>1. Known \subseteq Messages /\ \A k \in Known : pending[k] \in Entry
  BY QueueFacts DEF Known
<1>2. Put(m, rec) \in [Known \cup {m} -> Entry]
  BY <1>1 DEF Put
<1>3. Known \cup {m} \in SUBSET Messages
  BY <1>1
<1>. QED  BY <1>2, <1>3, QueueIntro DEF Put

\* Writing an entry that is there leaves the domain alone.
LEMMA PutKnown ==
    ASSUME pending \in Queues, NEW m \in Known, NEW rec \in Entry
    PROVE  m \in Messages /\ DOMAIN Put(m, rec) = DOMAIN pending
<1>1. m \in Messages
  BY QueueFacts DEF Known
<1>. QED  BY <1>1, PutFacts DEF Known

\* What a chunk of logs adds to the queue, and the queue with it.
Chunk == IF cursor + MaxRange < scanTo THEN cursor + MaxRange ELSE scanTo
Fresh(last) == {m \in Messages : BlockOf[m] \in (cursor + 1)..last} \ (processed \cup Known)
Enqueued(new) == [m \in Known \cup new |-> IF m \in new THEN [tx |-> 0, retries |-> 0] ELSE pending[m]]

\* New burns join the queue unsent, and the others keep their entries.
LEMMA EnqueuedFacts ==
    ASSUME IrisAssumption, pending \in Queues, NEW new \in SUBSET Messages
    PROVE  /\ Enqueued(new) \in Queues
           /\ DOMAIN Enqueued(new) = Known \cup new
           /\ \A m \in new : Enqueued(new)[m].tx = 0
           /\ \A m \in Known \ new : Enqueued(new)[m] = pending[m]
<1>1. Known \subseteq Messages /\ \A k \in Known : pending[k] \in Entry
  BY QueueFacts DEF Known
<1>2. [tx |-> 0, retries |-> 0] \in Entry
  BY DEF Entry, IrisAssumption
<1>3. Enqueued(new) \in [Known \cup new -> Entry]
  BY <1>1, <1>2 DEF Enqueued
<1>4. Known \cup new \in SUBSET Messages
  BY <1>1
<1>. QED  BY <1>3, <1>4, QueueIntro DEF Enqueued

\* ScanChunk, in the terms of these operators.
LEMMA ScanChunkIs ==
    ASSUME ScanChunk
    PROVE  /\ at = "scan" /\ chunkTo' = Chunk
           /\ pending' = Enqueued(Fresh(Chunk))
           /\ MarkPending(Fresh(Chunk))
           /\ at' = IF Fresh(Chunk) # {} THEN "persistScan" ELSE "cursor"
           /\ UNCHANGED <<source, dest, after, scanTo, todo, seen, dirty, cursor, processed, dead, file, crashes>>
BY DEF ScanChunk, Chunk, Fresh, Enqueued

-----------------------------------------------------------------------------
(* The kinds of steps *)

\* Nothing that waits, is settled or is dead-lettered changes, here or in the files.
Quiet ==
    /\ UNCHANGED <<pending, processed, dead>>
    /\ file'.pending = file.pending /\ file'.processed = file.processed /\ file'.dead = file.dead
    /\ at \in {"persistScan", "writeDead"} => at' = at \/ "disk" \in faults

\* A write of the chain's file, and one of the dead letters.
SavesChain ==
    /\ UNCHANGED <<pending, processed, dead>>
    /\ file'.pending = pending /\ file'.processed = processed /\ file'.dead = file.dead
    /\ at # "writeDead"
SavesDead ==
    /\ UNCHANGED <<pending, processed, dead>>
    /\ file'.pending = file.pending /\ file'.processed = file.processed /\ file'.dead = dead
    /\ at = "writeDead"

\* A pass is done with one of its messages.
Handled(m) == m \in todo /\ todo' = todo \ {m} /\ seen' = seen

\* A message is settled, dead-lettered, or stays with another entry, which
\* waits for nothing or for the broadcast just made.
Settling(m) ==
    /\ pending' = Without(m) /\ processed' = processed \cup {m}
    /\ UNCHANGED <<dead, file, at, after>> /\ at \in {"submit", "confirm"} /\ Handled(m)
    /\ AlreadyProcessed(m) \/ Confirmed(m)
Burying(m) ==
    /\ pending' = Without(m) /\ processed' = processed \cup {m} /\ dead' = dead \cup {m}
    /\ UNCHANGED file
    /\ at = "check" \/ (at \in {"submit", "confirm"} /\ Handled(m))
    /\ at' = "writeDead" /\ after' = at
Rewriting(m, rec) ==
    /\ pending' = Put(m, rec)
    /\ UNCHANGED <<processed, dead, file, at, after>> /\ at \in {"submit", "confirm"} /\ Handled(m)
    /\ rec.tx = 0 \/ (Take(m) /\ rec.tx = Len(txs) + 1)

\* An entry that is rewritten is the only one to change.
LEMMA RewriteFacts ==
    ASSUME pending \in Queues, NEW m \in Known, NEW rec \in Entry, Rewriting(m, rec)
    PROVE  /\ m \in Messages /\ DOMAIN pending' = Known /\ pending'[m] = rec
           /\ \A k \in Known \ {m} : pending'[k] = pending[k]
<1>1. pending' = Put(m, rec)
  BY DEF Rewriting
<1>2. m \in Messages /\ DOMAIN Put(m, rec) = Known
  BY PutKnown DEF Known
<1>3. Put(m, rec)[m] = rec /\ \A k \in Known \ {m} : Put(m, rec)[k] = pending[k]
  BY <1>2, PutFacts
<1>. QED  BY <1>1, <1>2, <1>3

\* What Retry does: the message is dead-lettered, or waits again.
LEMMA RetryKinds ==
    ASSUME IrisAssumption, pending \in Queues, NEW m \in Known, Retry(m), UNCHANGED file,
           at \in {"submit", "confirm"}, Handled(m)
    PROVE  Burying(m) \/ \E rec \in Entry : rec.tx = 0 /\ Rewriting(m, rec)
<1>1. pending[m] \in Entry
  BY QueueFacts DEF Known
<1>. DEFINE n == pending[m].retries + 1
<1>2. n \in Nat /\ MaxRetries \in Nat
  BY <1>1 DEF IrisAssumption, Entry
<1>3. CASE n >= MaxRetries
  BY <1>3 DEF Retry, DeadLetter, Burying
<1>4. CASE ~(n >= MaxRetries)
  <2>1. [tx |-> 0, retries |-> n] \in Entry
    BY <1>2, <1>4 DEF Entry, IrisAssumption
  <2>2. pending' = Put(m, [tx |-> 0, retries |-> n]) /\ UNCHANGED <<at, after, processed, dead>>
    BY <1>4 DEF Retry
  <2>3. PICK rec : rec = [tx |-> 0, retries |-> n]
    OBVIOUS
  <2>4. rec \in Entry /\ rec.tx = 0 /\ pending' = Put(m, rec)
    BY <2>1, <2>2, <2>3
  <2>5. Rewriting(m, rec)
    BY <2>2, <2>4, Zenon DEF Rewriting
  <2>. QED  BY <2>4, <2>5
<1>. QED  BY <1>3, <1>4

\* A broadcast that was taken is what its message waits for.
LEMMA SubmittedRewrites ==
    ASSUME IrisAssumption, TypeOK, pending \in Queues, Handling, NEW m \in Messages, Submitted(m)
    PROVE  m \in Known /\ \E rec \in Entry : Rewriting(m, rec)
<1>1. m \in Known /\ at = "submit" /\ m \in todo
  BY DEF Submitted, Handling, Phase
<1>2. pending[m] \in Entry
  BY <1>1, QueueFacts DEF Known
<1>3. PICK rec : rec = [pending[m] EXCEPT !.tx = Len(txs) + 1]
  OBVIOUS
<1>4. rec.tx = Len(txs) + 1 /\ pending' = Put(m, rec)
  BY <1>2, <1>3 DEF Submitted, Entry
<1>5. rec \in Entry
  <2>1. Len(txs) \in Nat
    BY DEF TypeOK
  <2>2. Len(txs) < MaxTxs /\ MaxTxs \in Nat
    BY DEF Submitted, IrisAssumption
  <2>3. Len(txs) + 1 \in 0..MaxTxs
    BY <2>1, <2>2
  <2>. QED  BY <1>2, <1>3, <2>3 DEF Entry
<1>6. Take(m) /\ todo' = todo \ {m} /\ UNCHANGED <<seen, at, after, processed, dead, file>>
  BY DEF Submitted
<1>7. Rewriting(m, rec)
  BY <1>1, <1>4, <1>6, Zenon DEF Rewriting, Handled
<1>. QED  BY <1>1, <1>5, <1>7

\* What a write of the chain's file does.
LEMMA PersistFacts ==
    ASSUME file \in Files, pending \in Queues, processed \subseteq Messages, PersistChain
    PROVE  /\ file' \in Files
           /\ file'.dead = file.dead /\ file'.cursor = file.cursor /\ file'.status = file.status
           /\ \/ file'.pending = pending /\ file'.processed = processed
              \/ "disk" \in faults /\ file' = file
BY DEF PersistChain, Files

\* What the write at the end of a pass does.
LEMMA EndPassFacts ==
    ASSUME file \in Files, pending \in Queues, processed \subseteq Messages, NEW next, EndPass(next)
    PROVE  /\ file' \in Files
           /\ file'.dead = file.dead /\ file'.cursor = file.cursor /\ file'.status = file.status
           /\ \/ file'.pending = pending /\ file'.processed = processed
              \/ file' = file
           /\ UNCHANGED <<memory, dest, source, crashes, todo, seen, dirty, after, scanTo, chunkTo>>
           /\ at' = next
<1>1. CASE dirty
  BY <1>1, PersistFacts DEF EndPass
<1>2. CASE ~dirty
  BY <1>2 DEF EndPass
<1>. QED  BY <1>1, <1>2

\* Every step is of one of these kinds.
Kind ==
    \/ Quiet \/ ScanChunk \/ SavesChain \/ SavesDead \/ Restart
    \/ \E m \in Known : Settling(m) \/ Burying(m) \/ \E rec \in Entry : Rewriting(m, rec)

\* Every step of the polling loop is of one of these kinds ...
LEMMA LoopKinds ==
    ASSUME IrisAssumption, TypeOK, Records, Handling, Loop
    PROVE  Kind
<1>. file \in Files /\ pending \in Queues /\ processed \subseteq Messages /\ at \in {"poll", "scan",
       "persistScan", "cursor", "check", "submit", "receipts", "confirm", "writeDead", "persistDead"}
  BY DEF TypeOK, Records
<1>. USE DEF Kind
<1>1. CASE BeginScan \/ ScanFails
  BY <1>1 DEF BeginScan, ScanFails, memory, Quiet
<1>2. CASE PersistScan \/ PersistDead
  BY <1>2, PersistFacts DEF PersistScan, PersistDead, memory, Quiet, SavesChain
<1>3. CASE WriteCursor
  BY <1>3 DEF WriteCursor, Quiet, Files
<1>4. CASE WriteDead
  BY <1>4 DEF WriteDead, Quiet, SavesDead, Files, memory
<1>5. ASSUME NEW m \in Messages, Expire(m)
      PROVE  Kind
  <2>1. m \in Known /\ DeadLetter(m) /\ at = "check" /\ file' = file
    BY <1>5 DEF Expire
  <2>2. Burying(m)
    BY <2>1, Zenon DEF DeadLetter, Burying
  <2>. QED  BY <2>1, <2>2
<1>6. ASSUME NEW m \in Messages, Submitted(m)
      PROVE  Kind
  BY <1>6, SubmittedRewrites DEF Records
<1>7. ASSUME NEW m \in Messages, AlreadyProcessed(m)
      PROVE  Kind
  BY <1>7 DEF AlreadyProcessed, Settling, Handled, Handling, Phase
<1>8. ASSUME NEW m \in Messages, SubmitFails(m)
      PROVE  Kind
  BY <1>8, RetryKinds DEF SubmitFails, Handled, Handling, Phase
<1>9. ASSUME NEW ready \in SUBSET Messages, CheckAttestations(ready)
      PROVE  Kind
  BY <1>9 DEF CheckAttestations, memory, Quiet
<1>10. CASE EndSubmit \/ EndConfirm
  BY <1>10, EndPassFacts DEF EndSubmit, EndConfirm, memory, Quiet, SavesChain
<1>11. ASSUME NEW missed \in SUBSET Messages, FetchReceipts(missed)
       PROVE  Kind
  BY <1>11 DEF FetchReceipts, memory, Quiet
<1>12. ASSUME NEW m \in Messages, LeaveInFlight(m)
       PROVE  Kind
  BY <1>12 DEF LeaveInFlight, memory, Quiet
<1>13. ASSUME NEW m \in Messages, Confirmed(m)
       PROVE  Kind
  BY <1>13 DEF Confirmed, Settling, Handled, Handling, Phase
<1>14. ASSUME NEW m \in Messages, Resubmit(m)
       PROVE  Kind
  BY <1>14, RetryKinds DEF Resubmit, Handled, Handling, Phase
<1>15. CASE ScanChunk
  BY <1>15
<1>. QED
  BY <1>1, <1>2, <1>3, <1>4, <1>5, <1>6, <1>7, <1>8, <1>9, <1>10, <1>11, <1>12, <1>13, <1>14, <1>15
     DEF Loop, Scan, Pending, Inflight

\* ... and so is every step of the process and its surroundings.
LEMMA Kinds ==
    ASSUME IrisAssumption, TypeOK, Records, Handling, Next
    PROVE  Kind
<1>1. CASE Loop
  BY <1>1, LoopKinds
<1>2. CASE SaveStatus
  BY <1>2 DEF SaveStatus, memory, loop, Records, Files, Quiet, Kind
<1>3. CASE Restart
  BY <1>3 DEF Kind
<1>4. CASE NewBlock \/ \E m \in Messages : Attest(m)
  BY <1>4 DEF NewBlock, Attest, memory, loop, Quiet, Kind
<1>5. CASE \E i \in DOMAIN txs : Mine(i) \/ Evict(i)
  BY <1>5 DEF Mine, Evict, memory, loop, Quiet, Kind
<1>. QED  BY <1>1, <1>2, <1>3, <1>4, <1>5 DEF Next

-----------------------------------------------------------------------------
(* Waiting and settled, in memory and in the files *)

\* No step leaves a burn both waiting and settled, in memory or in the files.
LEMMA ApartKept ==
    ASSUME IrisAssumption, Inv, Next
    PROVE  Apart'
<1>. pending \in Queues /\ Apart
  BY DEF Inv, Records
<1>. USE DEF Known
<1>1. CASE Quiet \/ SavesChain \/ SavesDead
  BY <1>1 DEF Quiet, SavesChain, SavesDead, Apart
<1>2. CASE ScanChunk
  <2>1. Fresh(Chunk) \in SUBSET Messages /\ Fresh(Chunk) \cap processed = {}
    BY DEF Fresh
  <2>2. /\ DOMAIN pending' = DOMAIN pending \cup Fresh(Chunk) /\ UNCHANGED <<processed, dead, file>>
        /\ at = "scan" /\ (Fresh(Chunk) # {} => at' = "persistScan")
    BY <1>2, <2>1, ScanChunkIs, EnqueuedFacts
  <2>. QED  BY <2>1, <2>2 DEF Apart
<1>3. CASE Restart
  BY <1>3 DEF Restart, Apart
<1>4. ASSUME NEW m \in Known, Settling(m) \/ Burying(m)
      PROVE  Apart'
  BY <1>4, WithoutFacts DEF Settling, Burying, Apart
<1>5. ASSUME NEW m \in Known, NEW rec \in Entry, Rewriting(m, rec)
      PROVE  Apart'
  BY <1>5, PutKnown DEF Rewriting, Apart
<1>. QED  BY <1>1, <1>2, <1>3, <1>4, <1>5, Kinds DEF Kind, Inv

\* No step writes to the files what memory has not got.
LEMMA BehindKept ==
    ASSUME IrisAssumption, Inv, Next
    PROVE  Behind'
<1>. pending \in Queues /\ Behind
  BY DEF Inv, Records
<1>. USE DEF Known, Taken, Kept
<1>1. CASE Quiet \/ SavesChain \/ SavesDead
  BY <1>1 DEF Quiet, SavesChain, SavesDead, Behind
<1>2. CASE ScanChunk
  <2>1. Fresh(Chunk) \in SUBSET Messages
    BY DEF Fresh
  <2>2. /\ DOMAIN pending' = DOMAIN pending \cup Fresh(Chunk) /\ UNCHANGED <<processed, dead, file>>
        /\ at = "scan" /\ (Fresh(Chunk) # {} => at' = "persistScan")
    BY <1>2, <2>1, ScanChunkIs, EnqueuedFacts
  <2>. QED  BY <2>1, <2>2 DEF Behind
<1>3. CASE Restart
  BY <1>3 DEF Restart, Behind
<1>4. ASSUME NEW m \in Known, Settling(m) \/ Burying(m)
      PROVE  Behind'
  BY <1>4, WithoutFacts DEF Settling, Burying, Behind
<1>5. ASSUME NEW m \in Known, NEW rec \in Entry, Rewriting(m, rec)
      PROVE  Behind'
  BY <1>5, PutKnown DEF Rewriting, Behind
<1>. QED  BY <1>1, <1>2, <1>3, <1>4, <1>5, Kinds DEF Kind, Inv

\* Outside the two awaits of its writes, memory has nothing the files have not got.
LEMMA SavedKept ==
    ASSUME IrisAssumption, Inv, Next
    PROVE  Saved'
<1>. pending \in Queues /\ Saved /\ faults' = faults
  BY DEF Inv, Records, Next
<1>. USE DEF Known, Taken, Kept
<1>1. CASE Quiet \/ SavesChain \/ SavesDead
  BY <1>1 DEF Quiet, SavesChain, SavesDead, Saved
<1>2. CASE ScanChunk
  <2>1. Fresh(Chunk) \in SUBSET Messages
    BY DEF Fresh
  <2>2. /\ DOMAIN pending' = DOMAIN pending \cup Fresh(Chunk) /\ UNCHANGED <<processed, dead, file>>
        /\ at = "scan" /\ (Fresh(Chunk) # {} => at' = "persistScan")
    BY <1>2, <2>1, ScanChunkIs, EnqueuedFacts
  <2>. QED  BY <2>1, <2>2 DEF Saved
<1>3. CASE Restart
  BY <1>3 DEF Restart, Saved
<1>4. ASSUME NEW m \in Known, Settling(m) \/ Burying(m)
      PROVE  Saved'
  BY <1>4, WithoutFacts DEF Settling, Burying, Saved
<1>5. ASSUME NEW m \in Known, NEW rec \in Entry, Rewriting(m, rec)
      PROVE  Saved'
  BY <1>5, PutKnown DEF Rewriting, Saved
<1>. QED  BY <1>1, <1>2, <1>3, <1>4, <1>5, Kinds DEF Kind, Inv

-----------------------------------------------------------------------------
(* The broadcasts *)

\* The entry Iris answers with is a burn with the message's own bytes.
LEMMA EntryFacts ==
    ASSUME NEW m \in Messages
    PROVE  IrisEntry(m) \in Messages /\ BodyOf[IrisEntry(m)] = BodyOf[m]
BY DEF IrisEntry

\* The broadcasts are a sequence of mints.
LEMMA TxsType == TypeOK => txs \in Seq(Mints)
BY DEF TypeOK, Mints, States

\* A broadcast joins the end of the mempool, pooled.
LEMMA TakeFacts ==
    ASSUME TypeOK, NEW m \in Messages, Take(m)
    PROVE  /\ txs' \in Seq(Mints) /\ Len(txs') = Len(txs) + 1 /\ Len(txs) \in Nat
           /\ \A i \in 1..Len(txs) : txs'[i] = txs[i]
           /\ txs'[Len(txs) + 1] = [msg |-> m, burn |-> IrisEntry(m), state |-> "pooled"]
<1>. DEFINE new == [msg |-> m, burn |-> IrisEntry(m), state |-> "pooled"]
<1>1. new \in Mints
  BY EntryFacts DEF Mints, States
<1>2. txs \in Seq(Mints)
  BY TxsType
<1>3. txs' = Append(txs, new)
  BY DEF Take
<1>. HIDE DEF new
<1>4. /\ txs' \in Seq(Mints) /\ Len(txs') = Len(txs) + 1 /\ Len(txs) \in Nat
      /\ \A i \in 1..Len(txs) : txs'[i] = txs[i]
      /\ txs'[Len(txs) + 1] = new
  BY <1>1, <1>2, <1>3
<1>. QED  BY <1>4 DEF new

\* A pooled mint is settled one way or the other; the others stay.
LEMMA SettleTxFacts ==
    ASSUME TypeOK, NEW i \in DOMAIN txs, Mine(i) \/ Evict(i)
    PROVE  /\ txs' \in Seq(Mints) /\ Len(txs') = Len(txs) /\ i \in 1..Len(txs) /\ Len(txs) \in Nat
           /\ minted \subseteq minted' /\ minted' \subseteq Messages
           /\ \A j \in 1..Len(txs) : txs'[j].msg = txs[j].msg /\ txs'[j].burn = txs[j].burn
           /\ \A j \in 1..Len(txs) : j # i => txs'[j] = txs[j]
           /\ txs[i].state = "pooled"
           /\ txs'[i].state = "ok" => txs[i].burn \in minted'
<1>1. txs \in Seq(Mints) /\ i \in 1..Len(txs) /\ Len(txs) \in Nat
  BY TxsType, LenProperties
<1>2. txs[i] \in Mints /\ minted \subseteq Messages
  BY <1>1, ElementOfSeq DEF TypeOK
<1>3. PICK s \in States : txs' = [txs EXCEPT ![i].state = s]
                          /\ (s = "ok" => txs[i].burn \in minted') /\ minted \subseteq minted'
                          /\ minted' \subseteq minted \cup {txs[i].burn}
                          /\ txs[i].state = "pooled"
  BY DEF Mine, Evict, States
<1>. DEFINE new == [txs[i] EXCEPT !.state = s]
<1>4. /\ new \in Mints /\ new.msg = txs[i].msg /\ new.burn = txs[i].burn /\ new.state = s
      /\ txs[i].burn \in Messages
  BY <1>2 DEF Mints
<1>5. txs' = [txs EXCEPT ![i] = new]
  BY <1>3
<1>. HIDE DEF new
<1>6. /\ txs' \in Seq(Mints) /\ Len(txs') = Len(txs)
      /\ \A j \in 1..Len(txs) : txs'[j] = IF j = i THEN new ELSE txs[j]
  BY <1>1, <1>4, <1>5, ExceptSeq
<1>. QED  BY <1>1, <1>2, <1>3, <1>4, <1>6

\* The broadcast of an entry that is handed out.
Taking(m) ==
    /\ at = "submit" /\ m \in todo /\ IrisEntry(m) \notin minted /\ Len(txs) < MaxTxs
    /\ Take(m) /\ minted' = minted

\* A step leaves the mempool alone, broadcasts, or settles a broadcast.
LEMMA TxSteps ==
    ASSUME Next
    PROVE  \/ UNCHANGED dest
           \/ \E m \in Messages : Taking(m)
           \/ (\E i \in DOMAIN txs : Mine(i) \/ Evict(i)) /\ UNCHANGED <<loop, memory, file, crashes>>
<1>1. CASE \/ BeginScan \/ ScanFails \/ ScanChunk \/ PersistScan \/ WriteCursor \/ WriteDead \/ PersistDead
           \/ EndSubmit \/ EndConfirm \/ SaveStatus \/ Restart \/ NewBlock
  BY <1>1 DEF BeginScan, ScanFails, ScanChunk, PersistScan, WriteCursor, WriteDead, PersistDead,
              EndSubmit, EndConfirm, EndPass, SaveStatus, Restart, NewBlock
<1>2. ASSUME NEW m \in Messages, \/ Expire(m) \/ AlreadyProcessed(m) \/ LeaveInFlight(m)
                                 \/ Confirmed(m) \/ Resubmit(m) \/ Attest(m)
      PROVE  UNCHANGED dest
  BY <1>2 DEF Expire, AlreadyProcessed, LeaveInFlight, Confirmed, Resubmit, Attest
<1>3. ASSUME NEW m \in Messages, Submitted(m) \/ SubmitFails(m)
      PROVE  UNCHANGED dest \/ Taking(m)
  BY <1>3 DEF Submitted, SubmitFails, Taking, dest
<1>4. ASSUME NEW set \in SUBSET Messages, CheckAttestations(set) \/ FetchReceipts(set)
      PROVE  UNCHANGED dest
  BY <1>4 DEF CheckAttestations, FetchReceipts
<1>5. ASSUME NEW i \in DOMAIN txs, Mine(i) \/ Evict(i)
      PROVE  UNCHANGED <<loop, memory, file, crashes>>
  BY <1>5 DEF Mine, Evict
<1>. QED
  BY <1>1, <1>2, <1>3, <1>4, <1>5 DEF Next, Loop, Scan, Pending, Inflight

\* Broadcasts stay in their places, and no mint is undone.
LEMMA MintsKept ==
    ASSUME IrisAssumption, TypeOK, Records, Next
    PROVE  /\ txs' \in Seq(Mints) /\ Len(txs') <= MaxTxs /\ Len(txs) <= Len(txs') /\ Len(txs) \in Nat
           /\ Len(txs') \in Nat
           /\ \A i \in 1..Len(txs) : txs'[i].msg = txs[i].msg
           /\ \A i \in 1..Len(txs) : txs[i].state = "ok" => txs'[i] = txs[i]
           /\ minted \subseteq minted' /\ minted' \subseteq Messages
<1>1. txs \in Seq(Mints) /\ Len(txs) <= MaxTxs /\ Len(txs) \in Nat /\ minted \subseteq Messages
  BY TxsType, LenProperties DEF TypeOK, Records
<1>2. CASE UNCHANGED dest
  BY <1>1, <1>2 DEF dest
<1>3. ASSUME NEW m \in Messages, Taking(m)
      PROVE  /\ txs' \in Seq(Mints) /\ Len(txs') <= MaxTxs /\ Len(txs) <= Len(txs') /\ Len(txs') \in Nat
             /\ \A i \in 1..Len(txs) : txs'[i] = txs[i]
             /\ minted' = minted
  <2>1. /\ txs' \in Seq(Mints) /\ Len(txs') = Len(txs) + 1 /\ Len(txs) < MaxTxs /\ minted' = minted
        /\ \A i \in 1..Len(txs) : txs'[i] = txs[i]
    BY <1>3, TakeFacts DEF Taking
  <2>2. MaxTxs \in Nat
    BY DEF IrisAssumption
  <2>3. Len(txs') <= MaxTxs /\ Len(txs) <= Len(txs') /\ Len(txs') \in Nat
    BY <1>1, <2>1, <2>2
  <2>. QED  BY <2>1, <2>3
<1>4. ASSUME NEW i \in DOMAIN txs, Mine(i) \/ Evict(i)
      PROVE  /\ txs' \in Seq(Mints) /\ Len(txs') = Len(txs) /\ minted \subseteq minted' /\ minted' \subseteq Messages
             /\ \A j \in 1..Len(txs) : txs'[j].msg = txs[j].msg
             /\ \A j \in 1..Len(txs) : txs[j].state = "ok" => txs'[j] = txs[j]
  BY <1>1, <1>4, SettleTxFacts
<1>. QED  BY <1>1, <1>2, <1>3, <1>4, TxSteps

\* A broadcast carries the burn Iris answered with, and is ok only once that is minted.
LEMMA HonestKept ==
    ASSUME IrisAssumption, TypeOK, Records, Honest, Next
    PROVE  Honest'
<1>1. Len(txs) \in Nat
  BY TxsType, LenProperties
<1>2. CASE UNCHANGED dest
  BY <1>2 DEF dest, Honest
<1>3. ASSUME NEW m \in Messages, Taking(m)
      PROVE  Honest'
  <2>1. /\ Len(txs') = Len(txs) + 1 /\ \A i \in 1..Len(txs) : txs'[i] = txs[i]
        /\ txs'[Len(txs) + 1] = [msg |-> m, burn |-> IrisEntry(m), state |-> "pooled"]
        /\ minted' = minted
    BY <1>3, TakeFacts DEF Taking
  <2>2. ASSUME NEW i \in 1..Len(txs')
        PROVE  /\ txs'[i].burn = IrisEntry(txs'[i].msg)
               /\ txs'[i].state = "ok" => txs'[i].burn \in minted'
    <3>1. CASE i = Len(txs) + 1
      BY <3>1, <2>1
    <3>2. CASE i # Len(txs) + 1
      BY <3>2, <2>1, <1>1 DEF Honest
    <3>. QED  BY <3>1, <3>2
  <2>. QED  BY <2>2 DEF Honest
<1>4. ASSUME NEW i \in DOMAIN txs, Mine(i) \/ Evict(i)
      PROVE  Honest'
  <2>1. /\ Len(txs') = Len(txs) /\ minted \subseteq minted'
        /\ \A j \in 1..Len(txs) : txs'[j].msg = txs[j].msg /\ txs'[j].burn = txs[j].burn
        /\ \A j \in 1..Len(txs) : j # i => txs'[j] = txs[j]
        /\ txs'[i].state = "ok" => txs[i].burn \in minted'
    BY <1>4, SettleTxFacts
  <2>. QED  BY <2>1 DEF Honest
<1>. QED  BY <1>2, <1>3, <1>4, TxSteps

-----------------------------------------------------------------------------
(* The queues and the broadcasts they wait for *)

\* What an entry refers to stays where it is.
LEMMA RefersGrows ==
    ASSUME NEW q \in Queues, NEW old \in Seq(Mints), NEW new \in Seq(Mints), Refers(q, old),
           Len(old) <= Len(new), \A i \in 1..Len(old) : new[i].msg = old[i].msg
    PROVE  Refers(q, new)
<1>. SUFFICES ASSUME NEW m \in DOMAIN q, q[m].tx # 0
              PROVE  q[m].tx <= Len(new) /\ new[q[m].tx].msg = m
  BY DEF Refers
<1>1. q[m].tx <= Len(old) /\ old[q[m].tx].msg = m
  BY DEF Refers
<1>2. q[m].tx \in 1..Len(old)
  BY <1>1, QueueFacts, LenProperties DEF Entry
<1>. QED  BY <1>1, <1>2, LenProperties

\* Every entry that is written refers to a broadcast of its own burn.
LEMMA ReferringKept ==
    ASSUME IrisAssumption, Inv, Next
    PROVE  Referring'
<1>. /\ TypeOK /\ Records /\ Handling /\ Referring
     /\ pending \in Queues /\ file.pending \in Queues /\ txs \in Seq(Mints)
  BY TxsType DEF Inv, Records, Files
<1>1. txs' \in Seq(Mints) /\ Len(txs) <= Len(txs') /\ \A i \in 1..Len(txs) : txs'[i].msg = txs[i].msg
  BY MintsKept
<1>2. Refers(pending, txs') /\ Refers(file.pending, txs')
  BY <1>1, RefersGrows DEF Referring
<1>. HIDE DEF Known
<1>3. CASE Quiet \/ SavesChain \/ SavesDead
  BY <1>2, <1>3 DEF Quiet, SavesChain, SavesDead, Referring
<1>4. CASE ScanChunk
  <2>1. pending' = Enqueued(Fresh(Chunk)) /\ file' = file
    BY <1>4, ScanChunkIs
  <2>2. Fresh(Chunk) \in SUBSET Messages
    BY DEF Fresh
  <2>3. ASSUME NEW m \in DOMAIN pending', pending'[m].tx # 0
        PROVE  m \in Known /\ pending'[m] = pending[m]
    BY <2>1, <2>2, <2>3, EnqueuedFacts
  <2>4. Refers(pending', txs')
    BY <2>3, <1>2 DEF Refers, Known
  <2>. QED  BY <2>1, <2>4, <1>2 DEF Referring
<1>5. CASE Restart
  BY <1>2, <1>5 DEF Restart, Referring
<1>6. ASSUME NEW m \in Known, Settling(m) \/ Burying(m)
      PROVE  Referring'
  <2>1. file' = file /\ DOMAIN pending' = Known \ {m} /\ \A k \in Known \ {m} : pending'[k] = pending[k]
    BY <1>6, WithoutFacts DEF Settling, Burying
  <2>2. Refers(pending', txs')
    BY <2>1, <1>2 DEF Refers, Known
  <2>. QED  BY <2>1, <2>2, <1>2 DEF Referring
<1>7. ASSUME NEW m \in Known, NEW rec \in Entry, Rewriting(m, rec)
      PROVE  Referring'
  <2>1. m \in Messages /\ DOMAIN pending' = Known
    BY <1>7, RewriteFacts
  <2>2. /\ file' = file
        /\ rec.tx = 0 \/ (Take(m) /\ rec.tx = Len(txs) + 1)
    BY <1>7 DEF Rewriting
  <2>3. pending'[m] = rec /\ \A k \in Known \ {m} : pending'[k] = pending[k]
    BY <1>7, RewriteFacts
  <2>5. ASSUME rec.tx # 0
        PROVE  rec.tx <= Len(txs') /\ txs'[rec.tx].msg = m
    <3>1. Len(txs') = Len(txs) + 1 /\ Len(txs) \in Nat
          /\ txs'[Len(txs) + 1] = [msg |-> m, burn |-> IrisEntry(m), state |-> "pooled"]
      BY <2>1, <2>2, <2>5, TakeFacts
    <3>. QED  BY <3>1, <2>2, <2>5
  <2>4. Refers(pending', txs')
    BY <2>1, <2>3, <2>5, <1>2 DEF Refers, Known
  <2>. QED  BY <2>2, <2>4, <1>2 DEF Referring
<1>. QED  BY <1>3, <1>4, <1>5, <1>6, <1>7, Kinds DEF Kind

-----------------------------------------------------------------------------
(* The messages a pass still has to handle *)

\* The pass goes on, and what it has left is as it was.
Carried ==
    /\ Phase' = Phase /\ todo' \subseteq todo /\ seen' = seen
    /\ \A k \in todo' : k \in Known => k \in DOMAIN pending' /\ pending'[k] = pending[k]

\* A pass that rewrites the entry of one message has not touched the rest ...
LEMMA RewriteCarries ==
    ASSUME pending \in Queues, NEW m \in Known, NEW rec \in Entry, Rewriting(m, rec)
    PROVE  Carried
<1>1. DOMAIN pending' = Known /\ \A k \in Known \ {m} : pending'[k] = pending[k]
  BY RewriteFacts
<1>2. todo' = todo \ {m} /\ seen' = seen /\ UNCHANGED <<at, after>>
  BY DEF Rewriting, Handled
<1>. QED  BY <1>1, <1>2 DEF Carried, Phase

\* ... nor has one that retries or dead-letters it.
LEMMA RetryCarries ==
    ASSUME IrisAssumption, pending \in Queues, NEW m \in Known, Retry(m), UNCHANGED file,
           at \in {"submit", "confirm"}, Handled(m)
    PROVE  Carried
<1>1. CASE Burying(m)
  BY <1>1, WithoutFacts DEF Burying, Handled, Carried, Phase
<1>2. ASSUME NEW rec \in Entry, Rewriting(m, rec)
      PROVE  Carried
  BY <1>2, RewriteCarries
<1>. QED  BY <1>1, <1>2, RetryKinds

\* A step leaves the passes, carries one on, or begins one.
LEMMA PassSteps ==
    ASSUME IrisAssumption, TypeOK, Records, Handling, Next
    PROVE  \/ Phase' \notin {"submit", "confirm"} \/ Carried
           \/ \E set \in SUBSET Messages : CheckAttestations(set) \/ FetchReceipts(set)
<1>. pending \in Queues
  BY DEF Records
<1>1. CASE \/ BeginScan \/ ScanFails \/ ScanChunk \/ PersistScan \/ WriteCursor \/ EndSubmit \/ EndConfirm
           \/ Restart
  <2>1. at' \notin {"submit", "confirm", "writeDead", "persistDead"}
    BY <1>1 DEF BeginScan, ScanFails, ScanChunk, PersistScan, WriteCursor, EndSubmit, EndConfirm, EndPass,
                Restart
  <2>. QED  BY <2>1 DEF Phase
<1>2. CASE SaveStatus \/ NewBlock \/ \E m \in Messages : Attest(m)
  BY <1>2 DEF SaveStatus, NewBlock, Attest, loop, memory, Carried, Phase, Known
<1>3. CASE WriteDead \/ PersistDead
  BY <1>3 DEF WriteDead, PersistDead, memory, Carried, Phase, Known, TypeOK
<1>4. CASE \E i \in DOMAIN txs : Mine(i) \/ Evict(i)
  BY <1>4 DEF Mine, Evict, loop, memory, Carried, Phase, Known
<1>5. ASSUME NEW m \in Messages, Expire(m)
      PROVE  Phase' = "check"
  BY <1>5 DEF Expire, DeadLetter, Phase
<1>6. ASSUME NEW m \in Messages, Submitted(m)
      PROVE  Carried
  BY <1>6, SubmittedRewrites, RewriteCarries
<1>7. ASSUME NEW m \in Messages, AlreadyProcessed(m) \/ Confirmed(m)
      PROVE  Carried
  BY <1>7, WithoutFacts DEF AlreadyProcessed, Confirmed, Carried, Phase
<1>8. ASSUME NEW m \in Messages, SubmitFails(m) \/ Resubmit(m)
      PROVE  Carried
  <2>1. /\ Retry(m) /\ file' = file /\ at \in {"submit", "confirm"} /\ m \in Known
        /\ m \in todo /\ todo' = todo \ {m} /\ seen' = seen
    BY <1>8 DEF SubmitFails, Resubmit, Handling, Phase
  <2>. QED  BY <2>1, RetryCarries DEF Handled
<1>9. ASSUME NEW m \in Messages, LeaveInFlight(m)
      PROVE  Carried
  BY <1>9 DEF LeaveInFlight, memory, Carried, Phase, Known
<1>. QED
  BY <1>1, <1>2, <1>3, <1>4, <1>5, <1>6, <1>7, <1>8, <1>9 DEF Next, Loop, Scan, Pending, Inflight

\* What a pass still has to do is in the queue, unsent before a broadcast and sent after it.
LEMMA HandlingKept ==
    ASSUME IrisAssumption, Inv, Next
    PROVE  Handling'
<1>. TypeOK /\ Records /\ Handling /\ Referring /\ pending \in Queues /\ txs \in Seq(Mints)
  BY TxsType DEF Inv, Records
<1>1. CASE Phase' \notin {"submit", "confirm"}
  BY <1>1 DEF Handling
<1>2. ASSUME NEW ready \in SUBSET Messages, CheckAttestations(ready)
      PROVE  Handling'
  <2>1. at' = "submit" /\ pending' = pending /\ todo' \subseteq {m \in Known : pending[m].tx = 0}
    BY <1>2 DEF CheckAttestations, memory
  <2>. QED  BY <2>1 DEF Handling, Phase, Known
<1>3. ASSUME NEW missed \in SUBSET Messages, FetchReceipts(missed)
      PROVE  Handling'
  <2>1. /\ at' = "confirm" /\ pending' = pending /\ txs' = txs
        /\ todo' = {m \in Known : pending[m].tx # 0}
        /\ \A m \in todo' : seen'[m] \in {"error", txs[pending[m].tx].state}
    BY <1>3 DEF FetchReceipts, memory, dest
  <2>. QED  BY <2>1 DEF Handling, Phase, Known
<1>4. CASE Carried
  <2>1. CASE Phase' = "submit"
    <3>1. \A m \in todo' : m \in Known /\ pending[m].tx = 0
      BY <1>4, <2>1 DEF Carried, Handling
    <3>. QED  BY <3>1, <1>4, <2>1 DEF Carried, Handling, Known
  <2>2. CASE Phase' = "confirm"
    <3>. SUFFICES ASSUME NEW m \in todo'
                  PROVE  /\ m \in Known' /\ pending'[m].tx # 0
                         /\ seen'[m] = "ok" => txs'[pending'[m].tx].state = "ok"
      BY <2>2 DEF Handling
    <3>1. m \in Known /\ pending[m].tx # 0 /\ (seen[m] = "ok" => txs[pending[m].tx].state = "ok")
      BY <1>4, <2>2 DEF Carried, Handling
    <3>2. m \in Known' /\ pending'[m] = pending[m] /\ seen'[m] = seen[m]
      BY <1>4, <3>1 DEF Carried, Known
    <3>3. pending[m].tx \in 1..Len(txs)
      BY <3>1, QueueFacts, LenProperties DEF Referring, Refers, Known, Entry
    <3>4. txs[pending[m].tx].state = "ok" => txs'[pending[m].tx] = txs[pending[m].tx]
      BY <3>3, MintsKept
    <3>. QED  BY <3>1, <3>2, <3>4
  <2>3. CASE Phase' \notin {"submit", "confirm"}
    BY <2>3 DEF Handling
  <2>. QED  BY <2>1, <2>2, <2>3
<1>. QED  BY <1>1, <1>2, <1>3, <1>4, PassSteps

-----------------------------------------------------------------------------
(* Types *)

\* The queue and the sets in memory keep their types.
LEMMA QueueKept ==
    ASSUME IrisAssumption, Inv, Next
    PROVE  pending' \in Queues /\ processed' \subseteq Messages /\ dead' \subseteq Messages
<1>. TypeOK /\ Records /\ Handling /\ pending \in Queues /\ processed \subseteq Messages /\ dead \subseteq Messages
  BY DEF Inv, Records, TypeOK
<1>. file.pending \in Queues /\ file.processed \subseteq Messages /\ file.dead \subseteq Messages
  BY DEF Records, Files
<1>1. CASE Quiet \/ SavesChain \/ SavesDead
  BY <1>1 DEF Quiet, SavesChain, SavesDead
<1>2. CASE ScanChunk
  <2>1. Fresh(Chunk) \in SUBSET Messages
    BY DEF Fresh
  <2>. QED  BY <1>2, <2>1, ScanChunkIs, EnqueuedFacts
<1>3. CASE Restart
  BY <1>3 DEF Restart
<1>4. ASSUME NEW m \in Known, Settling(m) \/ Burying(m)
      PROVE  pending' \in Queues /\ processed' \subseteq Messages /\ dead' \subseteq Messages
  <2>1. m \in Messages
    BY QueueFacts DEF Known
  <2>. QED  BY <1>4, <2>1, WithoutFacts DEF Settling, Burying
<1>5. ASSUME NEW m \in Known, NEW rec \in Entry, Rewriting(m, rec)
      PROVE  pending' \in Queues /\ processed' = processed /\ dead' = dead
  <2>1. m \in Messages
    BY <1>5, RewriteFacts
  <2>2. Put(m, rec) \in Queues
    BY <2>1, PutFacts
  <2>. QED  BY <1>5, <2>2 DEF Rewriting
<1>. QED  BY <1>1, <1>2, <1>3, <1>4, <1>5, Kinds DEF Kind

\* The steps that write a file, and what they write.
LEMMA FileSteps ==
    ASSUME IrisAssumption, TypeOK, Records, Next
    PROVE  \/ file' = file
           \/ file' = [file EXCEPT !.pending = pending, !.processed = processed]
           \/ file' = [file EXCEPT !.dead = dead]
           \/ at = "cursor" /\ file' = [file EXCEPT !.cursor = chunkTo]
           \/ file' = [file EXCEPT !.status = status] /\ UNCHANGED <<memory, at>>
<1>1. CASE PersistScan \/ WriteCursor \/ WriteDead \/ PersistDead \/ EndSubmit \/ EndConfirm \/ SaveStatus
  BY <1>1 DEF PersistScan, WriteCursor, WriteDead, PersistDead, EndSubmit, EndConfirm, SaveStatus, EndPass,
              PersistChain, loop
<1>2. CASE BeginScan \/ ScanFails \/ ScanChunk \/ Restart \/ NewBlock
  BY <1>2 DEF BeginScan, ScanFails, ScanChunk, Restart, NewBlock
<1>3. ASSUME NEW m \in Messages, \/ Expire(m) \/ AlreadyProcessed(m) \/ LeaveInFlight(m) \/ Submitted(m)
                                 \/ SubmitFails(m) \/ Confirmed(m) \/ Resubmit(m) \/ Attest(m)
      PROVE  file' = file
  BY <1>3 DEF Expire, AlreadyProcessed, LeaveInFlight, Submitted, SubmitFails, Confirmed, Resubmit, Attest
<1>4. ASSUME NEW set \in SUBSET Messages, CheckAttestations(set) \/ FetchReceipts(set)
      PROVE  file' = file
  BY <1>4 DEF CheckAttestations, FetchReceipts
<1>5. ASSUME NEW i \in DOMAIN txs, Mine(i) \/ Evict(i)
      PROVE  file' = file
  BY <1>5 DEF Mine, Evict
<1>. QED
  BY <1>1, <1>2, <1>3, <1>4, <1>5 DEF Next, Loop, Scan, Pending, Inflight

\* The state files keep their types.
LEMMA FileKept ==
    ASSUME IrisAssumption, Inv, Next
    PROVE  file' \in Files
<1>. /\ TypeOK /\ Records /\ file \in Files /\ pending \in Queues
     /\ processed \subseteq Messages /\ dead \subseteq Messages /\ chunkTo \in 0..Blocks /\ status \in Statuses
  BY DEF Inv, Records, TypeOK, Statuses
<1>. QED  BY FileSteps DEF Files

\* The ways a step may touch the delivery index.
LEMMA StatusSteps ==
    ASSUME IrisAssumption, Inv, Next
    PROVE  \/ status' = status
           \/ \E ms \in SUBSET Messages : MarkPending(ms) /\ UNCHANGED <<dead, minted, file, crashes>>
           \/ \E m \in Messages : /\ Mark(m, "failed") /\ m \in dead' /\ dead \subseteq dead'
                                  /\ UNCHANGED <<file, crashes, minted>>
           \/ \E m \in Messages : Confirmed(m)
           \/ status' = file.status /\ crashes' = crashes + 1 /\ UNCHANGED <<minted, file>>
<1>. Handling
  BY DEF Inv
<1>1. CASE \/ BeginScan \/ ScanFails \/ PersistScan \/ WriteCursor \/ WriteDead \/ PersistDead
           \/ EndSubmit \/ EndConfirm \/ SaveStatus \/ NewBlock
  BY <1>1 DEF BeginScan, ScanFails, PersistScan, WriteCursor, WriteDead, PersistDead,
              EndSubmit, EndConfirm, EndPass, SaveStatus, NewBlock, memory
<1>2. CASE ScanChunk
  <2>1. Fresh(Chunk) \in SUBSET Messages
    BY DEF Fresh
  <2>. QED  BY <1>2, <2>1, ScanChunkIs DEF dest
<1>3. CASE Restart
  BY <1>3 DEF Restart, dest
<1>4. ASSUME NEW m \in Messages, AlreadyProcessed(m) \/ LeaveInFlight(m) \/ Submitted(m) \/ Attest(m)
      PROVE  status' = status
  BY <1>4 DEF AlreadyProcessed, LeaveInFlight, Submitted, Attest, memory
<1>5. ASSUME NEW m \in Messages, Expire(m)
      PROVE  Mark(m, "failed") /\ m \in dead' /\ dead \subseteq dead' /\ UNCHANGED <<file, crashes, minted>>
  BY <1>5 DEF Expire, DeadLetter, dest
<1>6. ASSUME NEW m \in Messages, SubmitFails(m) \/ Resubmit(m)
      PROVE  \/ status' = status
             \/ Mark(m, "failed") /\ m \in dead' /\ dead \subseteq dead' /\ UNCHANGED <<file, crashes, minted>>
  <2>1. Retry(m) /\ UNCHANGED <<file, crashes, minted>>
    BY <1>6 DEF SubmitFails, Resubmit, dest
  <2>. QED  BY <2>1 DEF Retry, DeadLetter
<1>7. ASSUME NEW set \in SUBSET Messages, CheckAttestations(set) \/ FetchReceipts(set)
      PROVE  status' = status
  BY <1>7 DEF CheckAttestations, FetchReceipts, memory
<1>8. ASSUME NEW i \in DOMAIN txs, Mine(i) \/ Evict(i)
      PROVE  status' = status
  BY <1>8 DEF Mine, Evict, memory
<1>. QED
  BY <1>1, <1>2, <1>3, <1>4, <1>5, <1>6, <1>7, <1>8 DEF Next, Loop, Scan, Pending, Inflight

\* Mark touches the index of one burn's bytes only.
LEMMA MarkFacts ==
    ASSUME status \in Statuses, NEW m \in Messages, NEW s \in {"unknown", "pending", "delivered", "failed"},
           Mark(m, s)
    PROVE  /\ status' \in Statuses
           /\ \A b \in Bodies : status'[b] = IF b = BodyOf[m] THEN s ELSE status[b]
BY DEF Mark, Statuses, Bodies

\* markPending changes nothing but to pending.
LEMMA MarkPendingFacts ==
    ASSUME status \in Statuses, NEW ms, MarkPending(ms)
    PROVE  /\ status' \in Statuses
           /\ \A b \in Bodies : status'[b] = status[b] \/ status'[b] = "pending"
BY DEF MarkPending, Statuses

\* The delivery index keeps its type.
LEMMA StatusKept ==
    ASSUME IrisAssumption, Inv, Next
    PROVE  status' \in Statuses
<1>. status \in Statuses /\ file.status \in Statuses
  BY DEF Inv, TypeOK, Records, Files, Statuses
<1>1. ASSUME NEW m \in Messages, Confirmed(m)
      PROVE  status' \in Statuses
  BY <1>1, MarkFacts DEF Confirmed
<1>. QED  BY <1>1, StatusSteps, MarkFacts, MarkPendingFacts

\* The loop stands at one of its awaits.
LEMMA LoopKept ==
    ASSUME IrisAssumption, Inv, Next
    PROVE  /\ at' \in {"poll", "scan", "persistScan", "cursor", "check", "submit", "receipts", "confirm",
                       "writeDead", "persistDead"}
           /\ after' \in {"poll", "check", "submit", "confirm"}
           /\ todo' \subseteq Messages /\ dirty' \in BOOLEAN
<1>. TypeOK /\ Records /\ Handling /\ Known \subseteq Messages /\ pending \in Queues
  BY DEF Inv, TypeOK, Records
<1>. /\ at \in {"poll", "scan", "persistScan", "cursor", "check", "submit", "receipts", "confirm",
                "writeDead", "persistDead"}
     /\ after \in {"poll", "check", "submit", "confirm"} /\ todo \subseteq Messages /\ dirty \in BOOLEAN
  BY DEF TypeOK
<1>1. CASE \/ BeginScan \/ ScanFails \/ PersistScan \/ WriteCursor \/ WriteDead \/ PersistDead
           \/ EndSubmit \/ EndConfirm \/ SaveStatus \/ NewBlock \/ Restart
  BY <1>1 DEF BeginScan, ScanFails, PersistScan, WriteCursor, WriteDead, PersistDead,
              EndSubmit, EndConfirm, EndPass, SaveStatus, NewBlock, Restart, loop
<1>2. CASE ScanChunk
  BY <1>2 DEF ScanChunk
<1>3. ASSUME NEW m \in Messages, AlreadyProcessed(m) \/ LeaveInFlight(m) \/ Submitted(m) \/ Confirmed(m)
      PROVE  UNCHANGED <<at, after>> /\ todo' \subseteq todo /\ dirty' \in BOOLEAN
  BY <1>3 DEF AlreadyProcessed, LeaveInFlight, Submitted, Confirmed
<1>4. ASSUME NEW m \in Messages, Expire(m) \/ SubmitFails(m) \/ Resubmit(m)
      PROVE  /\ at' \in {at, "writeDead"} /\ after' \in {after, at} /\ (after' # after => at' = "writeDead")
             /\ at \in {"check", "submit", "confirm"} /\ todo' \subseteq todo /\ dirty' \in BOOLEAN
  BY <1>4 DEF Expire, SubmitFails, Resubmit, Retry, DeadLetter
<1>5. ASSUME NEW m \in Messages, Attest(m)
      PROVE  UNCHANGED loop
  BY <1>5 DEF Attest
<1>6. ASSUME NEW set \in SUBSET Messages, CheckAttestations(set) \/ FetchReceipts(set)
      PROVE  at' \in {"submit", "confirm"} /\ after' = after /\ todo' \subseteq Messages /\ dirty' \in BOOLEAN
  BY <1>6 DEF CheckAttestations, FetchReceipts
<1>7. ASSUME NEW i \in DOMAIN txs, Mine(i) \/ Evict(i)
      PROVE  UNCHANGED loop
  BY <1>7 DEF Mine, Evict
<1>8. CASE UNCHANGED loop
  BY <1>8 DEF loop
<1>. QED
  BY <1>1, <1>2, <1>3, <1>4, <1>5, <1>6, <1>7, <1>8 DEF Next, Loop, Scan, Pending, Inflight

\* The heights, and what is attested.
LEMMA HeightsKept ==
    ASSUME IrisAssumption, Inv, Next
    PROVE  /\ head' \in 0..Blocks /\ attested' \subseteq Messages /\ crashes' \in Nat
           /\ cursor' \in 0..Blocks /\ scanTo' \in 0..Blocks /\ chunkTo' \in 0..Blocks
<1>. /\ head \in 0..Blocks /\ attested \subseteq Messages /\ crashes \in Nat
     /\ cursor \in 0..Blocks /\ scanTo \in 0..Blocks /\ chunkTo \in 0..Blocks
     /\ Blocks \in Nat /\ MaxRange \in Nat /\ BootLookback \in Nat
  BY DEF Inv, TypeOK, Records, IrisAssumption
<1>. DEFINE Same == UNCHANGED <<head, attested, crashes, cursor, scanTo, chunkTo>>
<1>1. CASE ScanFails \/ PersistScan \/ WriteDead \/ PersistDead \/ EndSubmit \/ EndConfirm \/ SaveStatus
  BY <1>1 DEF ScanFails, PersistScan, WriteDead, PersistDead, EndSubmit, EndConfirm, EndPass, SaveStatus,
              source, memory, loop
<1>2. CASE BeginScan
  BY <1>2 DEF BeginScan, source, memory
<1>3. CASE ScanChunk
  BY <1>3, ScanChunkIs DEF source, Chunk
<1>4. CASE WriteCursor
  BY <1>4 DEF WriteCursor, source
<1>5. CASE Restart
  <2>1. file.cursor \in 0..Blocks \cup {NoCursor}
    BY DEF Inv, Records, Files
  <2>2. BootCursor \in 0..Blocks
    BY <2>1 DEF BootCursor
  <2>. QED  BY <1>5, <2>2 DEF Restart, source
<1>6. CASE NewBlock
  BY <1>6 DEF NewBlock, memory, loop
<1>7. ASSUME NEW m \in Messages, \/ Expire(m) \/ AlreadyProcessed(m) \/ LeaveInFlight(m) \/ Submitted(m)
                                 \/ SubmitFails(m) \/ Confirmed(m) \/ Resubmit(m)
      PROVE  Same
  BY <1>7 DEF Expire, AlreadyProcessed, LeaveInFlight, Submitted, SubmitFails, Confirmed, Resubmit, Retry,
              DeadLetter, source, memory
<1>8. ASSUME NEW set \in SUBSET Messages, CheckAttestations(set) \/ FetchReceipts(set)
      PROVE  Same
  BY <1>8 DEF CheckAttestations, FetchReceipts, source, memory
<1>9. ASSUME NEW i \in DOMAIN txs, Mine(i) \/ Evict(i)
      PROVE  Same
  BY <1>9 DEF Mine, Evict, source, memory, loop
<1>10. ASSUME NEW m \in Messages, Attest(m)
       PROVE  attested' \subseteq Messages /\ UNCHANGED <<head, crashes, cursor, scanTo, chunkTo>>
  BY <1>10 DEF Attest, memory, loop
<1>. QED
  BY <1>1, <1>2, <1>3, <1>4, <1>5, <1>6, <1>7, <1>8, <1>9, <1>10 DEF Next, Loop, Scan, Pending, Inflight

\* All of it keeps its type.
LEMMA TypesKept ==
    ASSUME IrisAssumption, Inv, Next
    PROVE  TypeOK' /\ Records'
<1>1. TypeOK /\ Records /\ faults' = faults /\ faults \in FaultSets
  BY DEF Inv, Next, TypeOK
<1>2. txs' \in Seq(Mints) /\ Len(txs') <= MaxTxs /\ minted' \subseteq Messages /\ Len(txs') \in Nat
  BY <1>1, MintsKept
<1>3. pending' \in Queues /\ Referring'
  BY QueueKept, ReferringKept
<1>4. /\ DOMAIN pending' \subseteq Messages
      /\ \A m \in DOMAIN pending' : pending'[m].tx \in Nat /\ pending'[m].retries \in 0..MaxRetries
  BY <1>3, QueueFacts DEF Entry
<1>5. \A m \in DOMAIN pending' : pending'[m].tx \in 0..Len(txs')
  BY <1>2, <1>3, <1>4 DEF Referring, Refers
<1>6. Records'
  BY <1>2, <1>3, FileKept, HeightsKept DEF Records
<1>7. TypeOK'
  BY <1>1, <1>2, <1>4, <1>5, QueueKept, StatusKept, LoopKept, HeightsKept
     DEF TypeOK, Known, Mints, States, Statuses
<1>. QED  BY <1>6, <1>7

-----------------------------------------------------------------------------
(* What every step keeps *)

\* The invariant holds at the start.
LEMMA InvInit ==
    ASSUME IrisAssumption, Init
    PROVE  Inv
<1>1. << >> \in Queues
  <2>1. << >> \in [{} -> Entry]
    OBVIOUS
  <2>. QED  BY <2>1, QueueIntro
<1>2. [b \in Bodies |-> "unknown"] \in Statuses
  BY DEF Statuses
<1>3. file \in Files /\ Len(txs) = 0 /\ pending = << >>
  BY <1>1, <1>2 DEF Init, Files
<1>4. DOMAIN pending = {} /\ file.pending = pending /\ file.processed = {} /\ file.dead = {}
  BY <1>3 DEF Init
<1>5. TypeOK
  <2>1. txs = << >> /\ txs \in Seq(Mints) /\ Len(txs) = 0
    BY EmptySeq DEF Init
  <2>2. Blocks \in Nat /\ 0 \in 0..Blocks
    BY DEF IrisAssumption
  <2>. QED  BY <1>2, <1>4, <2>1, <2>2 DEF Init, TypeOK, Known, Mints, States, Statuses
<1>6. Records
  BY <1>1, <1>3 DEF Init, Records, IrisAssumption
<1>. QED
  BY <1>3, <1>4, <1>5, <1>6 DEF Init, Inv, Referring, Refers, Apart, Behind, Saved, Honest, Handling,
                                Phase, Taken, Kept, Known

\* Every step keeps the invariant.
LEMMA InvKept ==
    ASSUME IrisAssumption, Inv, [Next]_vars
    PROVE  Inv'
<1>1. CASE Next
  BY <1>1, TypesKept, ReferringKept, ApartKept, BehindKept, SavedKept, HonestKept, HandlingKept DEF Inv
<1>2. CASE UNCHANGED vars
  BY <1>2 DEF vars, source, dest, loop, memory, Inv, TypeOK, Records, Referring, Refers, Apart, Behind,
              Saved, Honest, Handling, Phase, Taken, Kept, Known
<1>. QED  BY <1>1, <1>2

-----------------------------------------------------------------------------
(* What is settled is minted, and the delivery index says what is so *)

\* Bytes tell burns apart, so that the entry Iris answers with is the burn.
LEMMA EntryIsBurn ==
    ASSUME BodiesDiffer, NEW m \in Messages
    PROVE  IrisEntry(m) = m
BY EntryFacts DEF BodiesDiffer

\* A successful receipt is one of this message's own burn.
LEMMA ReceiptIsTrue ==
    ASSUME IrisAssumption, BodiesDiffer, Inv, NEW m \in Messages, Confirmed(m)
    PROVE  m \in Known /\ m \in minted /\ minted' = minted /\ Settling(m)
<1>. TypeOK /\ Records /\ Handling /\ Referring /\ Honest
  BY DEF Inv
<1>1. at = "confirm" /\ m \in todo /\ seen[m] = "ok" /\ minted' = minted
  BY DEF Confirmed, dest
<1>2. m \in Known /\ pending[m].tx # 0 /\ txs[pending[m].tx].state = "ok"
  BY <1>1 DEF Handling, Phase
<1>3. pending[m].tx \in 1..Len(txs) /\ txs[pending[m].tx].msg = m
  BY <1>2, QueueFacts, TxsType, LenProperties DEF Referring, Refers, Known, Entry, Records
<1>4. txs[pending[m].tx].burn = m
  BY <1>3, EntryIsBurn DEF Honest
<1>5. m \in minted
  BY <1>2, <1>3, <1>4 DEF Honest
<1>. QED  BY <1>1, <1>2, <1>5 DEF Confirmed, Settling, Handled

\* A step is a kill or it is not.
LEMMA CrashSteps ==
    ASSUME Next
    PROVE  crashes' = crashes \/ crashes' = crashes + 1
<1>1. CASE \/ BeginScan \/ ScanFails \/ PersistScan \/ WriteCursor \/ WriteDead \/ PersistDead \/ ScanChunk
           \/ EndSubmit \/ EndConfirm \/ SaveStatus \/ NewBlock \/ Restart
  BY <1>1 DEF BeginScan, ScanFails, PersistScan, WriteCursor, WriteDead, PersistDead, ScanChunk,
              EndSubmit, EndConfirm, EndPass, SaveStatus, NewBlock, Restart
<1>2. ASSUME NEW m \in Messages, \/ Expire(m) \/ AlreadyProcessed(m) \/ LeaveInFlight(m) \/ Submitted(m)
                                 \/ SubmitFails(m) \/ Confirmed(m) \/ Resubmit(m) \/ Attest(m)
      PROVE  crashes' = crashes
  BY <1>2 DEF Expire, AlreadyProcessed, LeaveInFlight, Submitted, SubmitFails, Confirmed, Resubmit, Attest
<1>3. ASSUME NEW set \in SUBSET Messages, CheckAttestations(set) \/ FetchReceipts(set)
      PROVE  crashes' = crashes
  BY <1>3 DEF CheckAttestations, FetchReceipts
<1>4. ASSUME NEW i \in DOMAIN txs, Mine(i) \/ Evict(i)
      PROVE  crashes' = crashes
  BY <1>4 DEF Mine, Evict
<1>. QED
  BY <1>1, <1>2, <1>3, <1>4 DEF Next, Loop, Scan, Pending, Inflight

\* Only a restart takes dead letters back.
LEMMA DeadGrows ==
    ASSUME IrisAssumption, Inv, Next
    PROVE  crashes' = 0 => crashes = 0 /\ dead \subseteq dead'
<1>. crashes \in Nat
  BY DEF Inv, Records
<1>1. crashes' = crashes \/ crashes' = crashes + 1
  BY CrashSteps
<1>2. CASE Restart
  BY <1>2 DEF Restart
<1>3. CASE ~Restart
  <2>1. dead \subseteq dead'
    <3>1. Kind
      BY Kinds DEF Inv
    <3>. QED
      BY <1>3, <3>1, ScanChunkIs DEF Kind, Quiet, SavesChain, SavesDead, Settling, Burying, Rewriting
  <2>. QED  BY <1>1, <2>1
<1>. QED  BY <1>2, <1>3

\* A step that settles a burn without a dead letter does so for a mint, in memory and on file.
LEMMA MintedKept ==
    ASSUME IrisAssumption, BodiesDiffer, Inv, Minted, Next
    PROVE  Minted'
<1>. SUFFICES ASSUME "disk" \notin faults
              PROVE  processed' \ dead' \subseteq minted' /\ file'.processed \ file'.dead \subseteq minted'
  BY DEF Minted, Next
<1>1. /\ processed \ dead \subseteq minted /\ file.processed \ file.dead \subseteq minted
      /\ file.processed \subseteq processed /\ file.dead \subseteq dead
      /\ at # "writeDead" => dead \subseteq file.dead
  BY DEF Minted, Inv, Behind, Saved
<1>2. minted \subseteq minted'
  BY MintsKept DEF Inv
<1>3. CASE Quiet \/ SavesChain \/ SavesDead
  BY <1>1, <1>2, <1>3 DEF Quiet, SavesChain, SavesDead
<1>4. CASE ScanChunk
  BY <1>1, <1>2, <1>4, ScanChunkIs
<1>5. CASE Restart
  BY <1>1, <1>2, <1>5 DEF Restart
<1>6. ASSUME NEW m \in Known, Settling(m)
      PROVE  processed' = processed \cup {m} /\ UNCHANGED <<dead, file>> /\ m \in minted
  <2>1. m \in Messages
    BY QueueFacts DEF Known, Inv, Records
  <2>2. CASE AlreadyProcessed(m)
    BY <1>6, <2>1, <2>2, EntryIsBurn DEF AlreadyProcessed, Settling
  <2>3. CASE Confirmed(m)
    BY <1>6, <2>1, <2>3, ReceiptIsTrue DEF Settling
  <2>. QED  BY <1>6, <2>2, <2>3 DEF Settling
<1>7. ASSUME NEW m \in Known, Burying(m)
      PROVE  processed' \ dead' \subseteq minted' /\ file'.processed \ file'.dead \subseteq minted'
  BY <1>1, <1>2, <1>7 DEF Burying
<1>8. ASSUME NEW m \in Known, NEW rec \in Entry, Rewriting(m, rec)
      PROVE  processed' \ dead' \subseteq minted' /\ file'.processed \ file'.dead \subseteq minted'
  BY <1>1, <1>2, <1>8 DEF Rewriting
<1>9. Kind
  BY Kinds DEF Inv
<1>. QED  BY <1>1, <1>2, <1>3, <1>4, <1>5, <1>6, <1>7, <1>8, <1>9 DEF Kind

\* A step that changes the delivery index does so for what is minted or dead-lettered.
LEMMA ReportedKept ==
    ASSUME IrisAssumption, BodiesDiffer, Inv, Reported, Next
    PROVE  Reported'
<1>. status \in Statuses /\ file \in Files /\ crashes \in Nat /\ dead' \subseteq Messages
  BY QueueKept DEF Inv, TypeOK, Records, Statuses
<1>1. /\ \A m \in Messages : status[BodyOf[m]] = "delivered" => m \in minted
      /\ \A m \in Messages : file.status[BodyOf[m]] = "delivered" => m \in minted
      /\ crashes = 0 => \A m \in Messages : status[BodyOf[m]] = "failed" => m \in dead
  BY DEF Reported, Delivered
<1>2. minted \subseteq minted'
  BY MintsKept DEF Inv
<1>3. \A m \in Messages : BodyOf[m] \in Bodies
  BY DEF Bodies
<1>4. ASSUME NEW m \in Messages, file'.status[BodyOf[m]] = "delivered"
      PROVE  m \in minted'
  <2>1. file'.status = file.status \/ file'.status = status
    BY FileSteps DEF Files, Inv
  <2>. QED  BY <1>1, <1>2, <1>4, <2>1
<1>5. /\ crashes' = 0 => crashes = 0 /\ dead \subseteq dead'
  BY DeadGrows
<1>. DEFINE Holds == /\ \A m \in Messages : status'[BodyOf[m]] = "delivered" => m \in minted'
                     /\ crashes' = 0 => \A m \in Messages : status'[BodyOf[m]] = "failed" => m \in dead'
<1>6. ASSUME status' = status
      PROVE  Holds
  BY <1>1, <1>2, <1>5, <1>6
<1>7. ASSUME NEW ms \in SUBSET Messages, MarkPending(ms)
      PROVE  Holds
  BY <1>1, <1>2, <1>3, <1>5, <1>7, MarkPendingFacts
<1>8. ASSUME NEW m \in Messages, Mark(m, "failed"), m \in dead'
      PROVE  Holds
  <2>1. \A k \in Messages : status'[BodyOf[k]] = IF k = m THEN "failed" ELSE status[BodyOf[k]]
    BY <1>3, <1>8, MarkFacts DEF BodiesDiffer
  <2>. QED  BY <2>1, <1>1, <1>2, <1>5, <1>8
<1>9. ASSUME NEW m \in Messages, Confirmed(m)
      PROVE  Holds
  <2>1. m \in minted /\ Mark(m, "delivered")
    BY <1>9, ReceiptIsTrue DEF Confirmed
  <2>2. \A k \in Messages : status'[BodyOf[k]] = IF k = m THEN "delivered" ELSE status[BodyOf[k]]
    BY <1>3, <2>1, MarkFacts DEF BodiesDiffer
  <2>. QED  BY <2>1, <2>2, <1>1, <1>2, <1>5
<1>10. ASSUME status' = file.status, crashes' = crashes + 1
       PROVE  Holds
  BY <1>1, <1>2, <1>10
<1>11. Holds
  <2>. HIDE DEF Holds
  <2>. QED  BY <1>6, <1>7, <1>8, <1>9, <1>10, StatusSteps
<1>. QED  BY <1>4, <1>11 DEF Reported, Delivered

-----------------------------------------------------------------------------
(* What the scan has passed is waiting or settled *)

\* Nothing that waits or is settled gets lost, in memory but by a restart.
LEMMA TakenGrows ==
    ASSUME IrisAssumption, Inv, Next
    PROVE  /\ ~Restart => Taken \subseteq Taken'
           /\ Restart => Taken' = Kept
           /\ Kept \subseteq Kept'
<1>. pending \in Queues /\ Kind /\ Kept \subseteq Taken
  BY Kinds DEF Inv, Records, Behind
<1>. USE DEF Taken, Kept
<1>1. CASE Quiet \/ SavesChain \/ SavesDead
  BY <1>1 DEF Quiet, SavesChain, SavesDead, Known, Restart
<1>2. CASE ScanChunk
  <2>1. Fresh(Chunk) \in SUBSET Messages
    BY DEF Fresh
  <2>2. DOMAIN pending' = Known \cup Fresh(Chunk) /\ UNCHANGED <<processed, file>>
    BY <1>2, <2>1, ScanChunkIs, EnqueuedFacts
  <2>3. at = "scan" /\ at' # "poll"
    BY <1>2 DEF ScanChunk
  <2>. QED  BY <2>2, <2>3 DEF Known, Restart
<1>3. CASE Restart
  BY <1>3 DEF Restart, Known
<1>4. ASSUME NEW m \in Known, Settling(m) \/ Burying(m)
      PROVE  ~Restart /\ Taken \subseteq Taken' /\ Kept \subseteq Kept'
  <2>1. DOMAIN pending' = Known \ {m} /\ processed' = processed \cup {m} /\ file' = file /\ at' # "poll"
    BY <1>4, WithoutFacts DEF Settling, Burying
  <2>. QED  BY <2>1 DEF Known, Restart
<1>5. ASSUME NEW m \in Known, NEW rec \in Entry, Rewriting(m, rec)
      PROVE  ~Restart /\ Taken \subseteq Taken' /\ Kept \subseteq Kept'
  <2>1. DOMAIN pending' = Known /\ UNCHANGED <<processed, file>> /\ at' # "poll"
    BY <1>5, RewriteFacts DEF Rewriting
  <2>. QED  BY <2>1 DEF Known, Restart
<1>6. CASE ~Restart
  BY <1>1, <1>2, <1>4, <1>5, <1>6 DEF Kind
<1>. QED  BY <1>3, <1>6

\* The steps that move the scan.
LEMMA ScanSteps ==
    ASSUME IrisAssumption, Inv, Next
    PROVE  \/ Restart \/ ScanChunk \/ WriteCursor
           \/ /\ UNCHANGED cursor /\ file'.cursor = file.cursor
              /\ at' \in {"persistScan", "cursor"} => at \in {"persistScan", "cursor"} /\ chunkTo' = chunkTo
<1>. TypeOK /\ Records /\ file \in Files /\ after \in {"poll", "check", "submit", "confirm"}
  BY DEF Inv, Records, TypeOK
<1>. DEFINE Off == /\ UNCHANGED cursor /\ file'.cursor = file.cursor
                   /\ at' \in {"persistScan", "cursor"} =>
                          at \in {"persistScan", "cursor"} /\ chunkTo' = chunkTo
<1>1. ASSUME BeginScan \/ ScanFails \/ EndSubmit \/ EndConfirm \/ WriteDead \/ PersistDead
      PROVE  cursor' = cursor /\ file'.cursor = file.cursor /\ at' \notin {"persistScan", "cursor"}
  BY <1>1 DEF BeginScan, ScanFails, EndSubmit, EndConfirm, WriteDead, PersistDead, EndPass, PersistChain,
              memory, Files
<1>2. ASSUME PersistScan \/ SaveStatus \/ NewBlock
      PROVE  Off
  BY <1>2 DEF PersistScan, SaveStatus, NewBlock, PersistChain, memory, loop, Files
<1>3. ASSUME NEW m \in Messages, \/ AlreadyProcessed(m) \/ LeaveInFlight(m) \/ Submitted(m)
                                 \/ Confirmed(m) \/ Attest(m)
      PROVE  Off
  BY <1>3 DEF AlreadyProcessed, LeaveInFlight, Submitted, Confirmed, Attest, memory, loop
<1>4. ASSUME NEW m \in Messages, Expire(m) \/ SubmitFails(m) \/ Resubmit(m)
      PROVE  Off
  BY <1>4 DEF Expire, SubmitFails, Resubmit, Retry, DeadLetter
<1>5. ASSUME NEW set \in SUBSET Messages, CheckAttestations(set) \/ FetchReceipts(set)
      PROVE  Off
  BY <1>5 DEF CheckAttestations, FetchReceipts, memory
<1>6. ASSUME NEW i \in DOMAIN txs, Mine(i) \/ Evict(i)
      PROVE  Off
  BY <1>6 DEF Mine, Evict, memory, loop
<1>. QED
  BY <1>1, <1>2, <1>3, <1>4, <1>5, <1>6 DEF Next, Loop, Scan, Pending, Inflight

\* A scan, and a restart of a relayer that keeps up, passes no burn it has not taken.
LEMMA ScannedKept ==
    ASSUME IrisAssumption, Inv, Scanned, KeepsUp, Next
    PROVE  Scanned'
<1>. SUFFICES ASSUME "disk" \notin faults
              PROVE  /\ \A m \in Messages : BlockOf[m] <= cursor' => m \in Taken'
                     /\ at' \in {"persistScan", "cursor"} =>
                            \A m \in Messages : BlockOf[m] <= chunkTo' => m \in Taken'
                     /\ \A m \in Messages :
                            file'.cursor # NoCursor /\ BlockOf[m] <= file'.cursor => m \in Kept'
  BY DEF Scanned, Next
<1>1. /\ \A m \in Messages : BlockOf[m] <= cursor => m \in Taken
      /\ at \in {"persistScan", "cursor"} => \A m \in Messages : BlockOf[m] <= chunkTo => m \in Taken
      /\ \A m \in Messages : file.cursor # NoCursor /\ BlockOf[m] <= file.cursor => m \in Kept
  BY DEF Scanned
<1>2. /\ file \in Files /\ cursor \in Nat /\ chunkTo \in Nat /\ scanTo \in Nat /\ MaxRange \in Nat
      /\ head \in Nat /\ BootLookback \in Nat /\ NoCursor \notin Nat
      /\ \A m \in Messages : BlockOf[m] \in Nat /\ BlockOf[m] >= 1
  BY DEF Inv, Records, TypeOK, IrisAssumption
<1>3. CASE Restart
  <2>1. Taken' = Kept /\ Kept \subseteq Kept' /\ file' = file /\ at' = "poll" /\ cursor' = BootCursor
    BY <1>3, TakenGrows DEF Restart
  <2>2. CASE file.cursor = NoCursor
    <3>1. BootCursor = 0
      BY <1>2, <2>2 DEF BootCursor, KeepsUp
    <3>. QED  BY <1>1, <1>2, <2>1, <3>1
  <2>3. CASE file.cursor # NoCursor
    <3>1. BootCursor = file.cursor
      BY <1>2, <2>3 DEF BootCursor, KeepsUp, Files, IrisAssumption
    <3>. QED  BY <1>1, <2>1, <2>3, <3>1
  <2>. QED  BY <2>2, <2>3
<1>4. ASSUME ~Restart
      PROVE  Taken \subseteq Taken' /\ Kept \subseteq Kept'
  BY <1>4, TakenGrows
<1>5. CASE ScanChunk
  <2>. DEFINE new == Fresh(Chunk)
  <2>1. /\ chunkTo' = Chunk /\ pending' = Enqueued(new) /\ UNCHANGED <<cursor, processed, file>>
    BY <1>5, ScanChunkIs
  <2>2. new \in SUBSET Messages
    BY DEF Fresh
  <2>3. Taken' = Taken \cup new
    BY <2>1, <2>2, EnqueuedFacts DEF Taken, Known, Inv, Records
  <2>4. ASSUME NEW m \in Messages, BlockOf[m] <= Chunk
        PROVE  m \in Taken'
    <3>1. CASE BlockOf[m] <= cursor
      BY <3>1, <1>1, <2>3
    <3>2. CASE ~(BlockOf[m] <= cursor)
      <4>1. BlockOf[m] \in (cursor + 1)..Chunk
        BY <3>2, <2>4, <1>2 DEF Chunk
      <4>. QED  BY <4>1, <2>3 DEF Fresh, Taken
    <3>. QED  BY <3>1, <3>2
  <2>. HIDE DEF new
  <2>. QED  BY <1>1, <2>1, <2>3, <2>4 DEF Kept
<1>6. CASE WriteCursor
  <2>1. /\ at = "cursor" /\ cursor' = chunkTo /\ file' = [file EXCEPT !.cursor = chunkTo]
        /\ at' \in {"scan", "check"} /\ UNCHANGED <<pending, processed>>
    BY <1>6 DEF WriteCursor
  <2>2. file'.cursor = chunkTo /\ Kept' = Kept /\ Taken' = Taken
    BY <1>2, <2>1 DEF Files, Kept, Taken, Known
  <2>3. Taken \subseteq Kept
    BY <2>1 DEF Inv, Saved
  <2>. QED  BY <1>1, <2>1, <2>2, <2>3
<1>7. CASE ~Restart /\ ~ScanChunk /\ ~WriteCursor
  <2>1. /\ UNCHANGED cursor /\ file'.cursor = file.cursor
        /\ at' \in {"persistScan", "cursor"} => at \in {"persistScan", "cursor"} /\ chunkTo' = chunkTo
    BY <1>7, ScanSteps
  <2>. QED  BY <1>1, <1>4, <1>7, <2>1
<1>. QED  BY <1>3, <1>5, <1>6, <1>7

\* A relayer that keeps up loses nothing.
LEMMA ScannedIsEnough ==
    ASSUME Inv, Scanned
    PROVE  NothingLost
<1>1. NoOrphan
  BY DEF NoOrphan, Scanned, Kept
<1>2. WaitingOrSettled
  BY DEF WaitingOrSettled, Scanned, Taken, Inv, Apart
<1>. QED  BY <1>1, <1>2 DEF NothingLost, Inv

\* What the run checks follows: a relayer claims nothing that is not so.
LEMMA ClaimIsEnough ==
    ASSUME Inv, Minted, Reported
    PROVE  NothingClaimed
<1>1. SettledIsMinted
  BY DEF SettledIsMinted, Minted
<1>2. StatusIsTrue
  <2>1. crashes \in Nat
    BY DEF Inv, Records
  <2>2. crashes = 0 \/ crashes > 0
    BY <2>1
  <2>. QED  BY <2>2 DEF StatusIsTrue, Reported, Delivered
<1>3. OneBroadcastInFlight
  BY DEF OneBroadcastInFlight, Inv, Referring, Refers, Handling, Phase, Known
<1>. QED  BY <1>1, <1>2, <1>3 DEF NothingClaimed

\* A burn that is handed out for a broadcast is in the queue, and so is not settled on file.
LEMMA RelayedOnce ==
    ASSUME IrisAssumption, Inv, [Next]_vars
    PROVE  \A i \in DOMAIN txs' \ DOMAIN txs : txs'[i].msg \notin file.processed
<1>. /\ TypeOK /\ txs \in Seq(Mints) /\ DOMAIN txs = 1..Len(txs) /\ Len(txs) \in Nat
  BY TxsType, LenProperties DEF Inv
<1>1. CASE UNCHANGED dest
  BY <1>1 DEF dest
<1>2. ASSUME NEW m \in Messages, Taking(m),
             NEW i \in DOMAIN txs' \ DOMAIN txs
      PROVE  txs'[i].msg \notin file.processed
  <2>1. /\ Len(txs') = Len(txs) + 1 /\ DOMAIN txs' = 1..Len(txs')
        /\ txs'[Len(txs) + 1].msg = m
    <3>1. Take(m)
      BY <1>2 DEF Taking
    <3>2. /\ txs' \in Seq(Mints) /\ Len(txs') = Len(txs) + 1
          /\ txs'[Len(txs) + 1] = [msg |-> m, burn |-> IrisEntry(m), state |-> "pooled"]
      BY <3>1, TakeFacts
    <3>3. DOMAIN txs' = 1..Len(txs')
      BY <3>2, LenProperties
    <3>. QED  BY <3>2, <3>3
  <2>2. i = Len(txs) + 1
    BY <2>1
  <2>3. m \in Known
    BY <1>2 DEF Taking, Inv, Handling, Phase
  <2>. QED  BY <2>1, <2>2, <2>3 DEF Inv, Apart, Behind
<1>3. ASSUME NEW i \in DOMAIN txs, Mine(i) \/ Evict(i)
      PROVE  DOMAIN txs' = DOMAIN txs
  BY <1>3, SettleTxFacts, LenProperties
<1>4. CASE UNCHANGED vars
  BY <1>4 DEF vars, dest
<1>. QED  BY <1>1, <1>2, <1>3, <1>4, TxSteps

-----------------------------------------------------------------------------
(* The theorems *)

(* The real bridge's queue, files and mempool agree with one another in every *)
(* reachable state, whatever fails: nothing is both waiting and settled, the *)
(* files are never ahead of memory and behind it only while they are written, *)
(* and an entry that was broadcast refers to a broadcast of its own burn.   *)
THEOREM IrisInvariant == Spec => []Inv
<1>1. Init => Inv
  BY InvInit, IrisAssumption
<1>2. Inv /\ [Next]_vars => Inv'
  BY InvKept, IrisAssumption
<1>. QED  BY <1>1, <1>2, PTL DEF Spec

(* NothingClaimed, where bytes tell burns apart (each hookData holds a nonce): *)
(* a burn is counted or reported as delivered only once it is minted, and as *)
(* failed only once it is dead-lettered or the process died before.         *)
THEOREM NothingIsClaimed == BodiesDiffer => (Spec => []NothingClaimed)
<1>. SUFFICES ASSUME BodiesDiffer
              PROVE  Spec => []NothingClaimed
  OBVIOUS
<1>1. Init => Minted /\ Reported
  BY DEF Init, Minted, Reported, Delivered, Bodies
<1>2. Inv /\ Minted /\ Reported /\ [Next]_vars => Minted' /\ Reported'
  <2>1. CASE UNCHANGED vars
    BY <2>1 DEF vars, dest, memory, Minted, Reported, Delivered
  <2>. QED  BY <2>1, MintedKept, ReportedKept, IrisAssumption
<1>3. Inv /\ Minted /\ Reported => NothingClaimed
  BY ClaimIsEnough
<1>. QED  BY <1>1, <1>2, <1>3, IrisInvariant, PTL DEF Spec

(* SettledIsNotRelayedAgain: a burn that the pending file records as settled *)
(* is in no later broadcast, over kills, rescans and unwritable files.      *)
THEOREM SettledIsNotPaidAgain == Spec => SettledIsNotRelayedAgain
<1>. DEFINE Fine == \A i \in DOMAIN txs' \ DOMAIN txs : txs'[i].msg \notin file.processed
<1>1. Inv /\ [Next]_vars => [Fine]_vars
  BY RelayedOnce, IrisAssumption
<1>. QED  BY <1>1, IrisInvariant, PTL DEF Spec, SettledIsNotRelayedAgain

(* NothingLost of the real bridge, as long as the relayer does not fall behind *)
(* the chain by more than its lookback: every burn that the cursor has passed *)
(* is waiting or settled, in memory and in the files.                       *)
THEOREM KeepingUpLosesNothing == Spec /\ []KeepsUp => []NothingLost
<1>1. Init => Scanned
  BY IrisAssumption DEF Init, Scanned
<1>2. Inv /\ Scanned /\ KeepsUp /\ [Next]_vars => Scanned'
  <2>1. CASE UNCHANGED vars
    BY <2>1 DEF vars, loop, memory, Scanned, Taken, Kept, Known
  <2>. QED  BY <2>1, ScannedKept, IrisAssumption
<1>3. Inv /\ Scanned => NothingLost
  BY ScannedIsEnough
<1>. QED  BY <1>1, <1>2, <1>3, IrisInvariant, PTL DEF Spec

-----------------------------------------------------------------------------
(* The process that runs one of the two *)

P == INSTANCE CctpProofs WITH
    Messages <- MockMessages, BlockOf <- MockBlockOf, MaxCrashes <- MockCrashes, FaultSets <- MockFaultSets,
    head <- mockHead, minted <- mockMinted, cursor <- mockCursor, scanTo <- mockScanTo,
    processed <- mockProcessed, dead <- mockDead, status <- mockStatus, file <- mockFile,
    crashes <- mockCrashes, faults <- mockFaults

\* The operators of the mock bridge and those CctpProofs speaks about have the
\* same definitions.
LEMMA SameInit == Mock!Init <=> P!Init
BY DEF Mock!Init, P!Init, Mock!Idle, P!Idle, Mock!Threads, P!Threads

\* Their steps, operator by operator.
LEMMA SameNext == Mock!Next <=> P!Next
BY DEF Mock!Next, P!Next, Mock!Loop, P!Loop, Mock!LandWrite, P!LandWrite, Mock!NextTick, P!NextTick,
       Mock!RetryStep, P!RetryStep, Mock!StartRetries, P!StartRetries, Mock!TakeReady, P!TakeReady,
       Mock!EndRetries, P!EndRetries, Mock!ScanStep, P!ScanStep, Mock!BeginScan, P!BeginScan,
       Mock!ScanFails, P!ScanFails, Mock!ScanChunk, P!ScanChunk, Mock!TakeLog, P!TakeLog,
       Mock!WriteCursor, P!WriteCursor, Mock!ChunkEnd, P!ChunkEnd, Mock!ScansDone, P!ScansDone,
       Mock!Attempt, P!Attempt, Mock!Broadcast, P!Broadcast, Mock!AlreadyProcessed,
       P!AlreadyProcessed, Mock!BroadcastFails, P!BroadcastFails, Mock!Confirmed, P!Confirmed,
       Mock!WaitFails, P!WaitFails, Mock!Fail, P!Fail, Mock!EnqueueRetry, P!EnqueueRetry,
       Mock!Snapshot, P!Snapshot, Mock!Resume, P!Resume, Mock!Resumed, P!Resumed,
       Mock!MarkProcessed, P!MarkProcessed, Mock!SaveStatus, P!SaveStatus, Mock!Restart, P!Restart,
       Mock!BootCursor, P!BootCursor, Mock!NewBlock, P!NewBlock, Mock!Mine, P!Mine, Mock!MineStray,
       P!MineStray, Mock!Threads, P!Threads, Mock!Idle, P!Idle, Mock!Queued, P!Queued,
       Mock!Processed, P!Processed, Mock!outside, P!outside, Mock!memory, P!memory

\* A step of the other bridge changes nothing of this one.
LEMMA SameVars == P!vars = Mock!vars /\ (UNCHANGED mockVars => UNCHANGED P!vars)
BY DEF Mock!vars, P!vars, Mock!outside, P!outside, Mock!memory, P!memory, mockVars

\* What is asked of them.
LEMMA SameClaims ==
    /\ Mock!KeepsUp <=> P!KeepsUp
    /\ Mock!NothingLost <=> P!NothingLost
<1>1. Mock!KeepsUp <=> P!KeepsUp
  BY DEF Mock!KeepsUp, P!KeepsUp
<1>2. Mock!NothingLost <=> P!NothingLost
  BY DEF Mock!NothingLost, P!NothingLost, Mock!TypeOK, P!TypeOK, Mock!Threads, P!Threads,
         Mock!Queued, P!Queued, Mock!NoStranding, P!NoStranding, Mock!Processed, P!Processed,
         Mock!ProcessedIsMinted, P!ProcessedIsMinted, Mock!StatusIsTrue, P!StatusIsTrue
<1>. QED  BY <1>1, <1>2

\* The assumption of Bridges is the one CctpProofs needs.
LEMMA MockAssumed == P!CctpAssumption
BY MockAssumption DEF Mock!CctpAssumption, P!CctpAssumption

(* The process does nothing that the bridge it constructed would not do by  *)
(* itself, and never touches the other one: whatever was chosen, its steps  *)
(* are steps of IrisRelay and steps of CctpRelay, or stutter.               *)
THEOREM RunsOneBridge == BridgesSpec => Spec /\ P!Spec
<1>1. BridgesInit => Init /\ P!Init
  BY SameInit DEF BridgesInit
<1>2. [IrisStep \/ MockStep]_<<vars, setting, mockVars>> => [Next]_vars
  BY DEF IrisStep, MockStep
<1>3. [IrisStep \/ MockStep]_<<vars, setting, mockVars>> => [P!Next]_(P!vars)
  BY SameNext, SameVars DEF IrisStep, MockStep
<1>. QED  BY <1>1, <1>2, <1>3, PTL DEF BridgesSpec, Spec, P!Spec

(* NothingLost of both bridges, as long as the relayer does not fall behind *)
(* a chain by more than its lookback: a restart takes up a scan further     *)
(* behind at the lookback floor, and what lies before it is passed over.    *)
THEOREM KeepingUpBridgesLoseNothing ==
    BridgesSpec /\ []KeepsUp /\ []Mock!KeepsUp => []BridgesLoseNothing
<1>1. Mock!KeepsUp => P!KeepsUp
  BY SameClaims
<1>2. P!Spec /\ []P!KeepsUp => []P!NothingLost
  BY MockAssumed, P!CctpKeepsUp
<1>3. NothingLost /\ P!NothingLost => BridgesLoseNothing
  BY SameClaims DEF BridgesLoseNothing
<1>. QED  BY <1>1, <1>2, <1>3, RunsOneBridge, KeepingUpLosesNothing, PTL

(* While an entry of the mock bridge is in the queue file its attempts only *)
(* grow, over rescans, overlapping writes and restarts.                     *)
THEOREM AttemptsGrow == BridgesSpec => AttemptsOnlyGrow
<1>1. P!Spec => P!AttemptsOnlyGrow
  BY MockAssumed, P!CctpAttempts
<1>2. P!AttemptsOnlyGrow <=> AttemptsOnlyGrow
  BY DEF AttemptsOnlyGrow, Mock!AttemptsOnlyGrow, P!AttemptsOnlyGrow, Mock!vars, P!vars,
         Mock!outside, P!outside, Mock!memory, P!memory
<1>. QED  BY <1>1, <1>2, RunsOneBridge

==============================================================================
