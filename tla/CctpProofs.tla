----------------------------- MODULE CctpProofs ------------------------------
(***************************************************************************)
(* Proofs about CctpRelay: under CctpAssumption and for any number of       *)
(* burns, chains, blocks and kills, nothing counts as relayed that is not   *)
(* minted, the cursor file never passes a burn that a restart would then    *)
(* miss, and no attempt of a queued burn is handed out twice.               *)
(***************************************************************************)
EXTENDS CctpRelay, SequenceTheorems, TLAPS

-----------------------------------------------------------------------------
(* The inductive invariant *)

Queues == UNION {[S -> 1..MaxRetries] : S \in SUBSET Messages}
Awaits == {"poll", "scan", "log", "relay", "wait", "persist", "save", "done", "off", "next"}
Jobs == [at : Awaits, todo : SUBSET Messages, msg : Messages \cup {NoMessage},
         tries : 0..MaxRetries, tx : {"none", "pooled", "ok", "reverted"}]
Statuses == [Messages -> {"unknown", "pending", "delivered", "failed"}]
Writes == [by : Threads, entries : Queues]
Files == [queue : Queues, cursor : [Chains -> 0..Blocks \cup {NoCursor}], status : Statuses]

Records ==
    /\ job \in [Threads -> Jobs] /\ queue \in Queues /\ writes \in Seq(Writes) /\ file \in Files
    /\ processed \in [Chains -> Seq(Messages)] /\ spent \subseteq Messages

\* Where a thread can stand, and what it holds there, with Q in the queue.
Fits(t, p, S, m, x, Q) ==
    /\ p \in {"relay", "wait"} <=> m # NoMessage
    /\ x # "none" => p = "wait"
    /\ IF t = "retry"
       THEN p \in {"off", "next", "relay", "wait", "persist", "save"} /\ S \subseteq Q
       ELSE /\ p \in {"poll", "scan", "log", "relay", "wait", "persist", "done"}
            /\ \A k \in S \cup {m} : k # NoMessage => ChainOf[k] = t

Stance(t) == Fits(t, job[t].at, job[t].todo, job[t].msg, job[t].tx, Queued)

\* Retries run while the scans are done.
Holding ==
    /\ \A t \in Threads : Stance(t)
    /\ job["retry"].at # "off" => ScansDone

\* A write under way is one its thread waits for, one per thread.
Written ==
    /\ \A i \in DOMAIN writes : job[writes[i].by].at \in {"persist", "save"}
    /\ \A i, j \in DOMAIN writes : writes[i].by = writes[j].by => i = j
    /\ job["retry"].at = "save" => \A i \in DOMAIN writes : writes[i].by = "retry" => writes[i].entries = queue

Inv == TypeOK /\ Records /\ Holding /\ Written

\* What is said to be minted is minted.
Truthful ==
    /\ \A t \in Threads : job[t].tx = "ok" => job[t].msg \in minted
    /\ ProcessedIsMinted /\ StatusIsTrue
    /\ \A m \in Messages : file.status[m] = "delivered" => m \in minted

\* A write that the chain of m waits for, behind the i-th.
Follows(i, m) == \E j \in DOMAIN writes : j > i /\ writes[j].by = ChainOf[m]

\* Between two rounds of retries the files lag only behind writes under way.
Lagging ==
    "disk" \notin faults /\ job["retry"].at = "off" =>
        /\ DOMAIN file.queue \subseteq Queued
        /\ \A m \in Queued \ DOMAIN file.queue : Follows(0, m)
        /\ \A i \in DOMAIN writes :
              /\ DOMAIN writes[i].entries \subseteq Queued
              /\ \A m \in Queued \ DOMAIN writes[i].entries : Follows(i, m)

\* r's attempts are no fewer than q's where both hold a message.
NoFewer(q, r) == \A m \in DOMAIN q \cap DOMAIN r : q[m] <= r[m]
Held(q) == job["retry"].msg \in DOMAIN q => q[job["retry"].msg] <= job["retry"].tries

Growing ==
    "disk" \notin faults =>
        /\ NoFewer(file.queue, queue) /\ Held(file.queue)
        /\ \A i \in DOMAIN writes :
              /\ NoFewer(file.queue, writes[i].entries) /\ NoFewer(writes[i].entries, queue)
              /\ Held(writes[i].entries)
              /\ \A j \in DOMAIN writes : i < j => NoFewer(writes[i].entries, writes[j].entries)

\* The messages the cursor file has passed, and those of the chunk in hand.
Passed == {m \in Messages : file.cursor[ChainOf[m]] # NoCursor /\ BlockOf[m] <= file.cursor[ChainOf[m]]}
ChunkOf(c) == {m \in Messages : ChainOf[m] = c /\ BlockOf[m] \in (cursor[c] + 1)..ChunkEnd(c)}
Over == minted \cup spent

\* A chain is at work on a chunk, and what a thread has in hand.
Busy(c) == job[c].at \in {"log", "relay", "wait", "persist"}
Hands(t) == job[t].todo \cup {job[t].msg}

\* What the relayer has taken up it holds on to: the cursor file follows the
\* cursor, a chunk's messages are in hand, queued or over, and what the file
\* has passed is in the queue or the retries' hand, in the queue file and in
\* every write of it.
Cursors == \A c \in Chains : cursor[c] = IF file.cursor[c] = NoCursor THEN 0 ELSE file.cursor[c]
Chunks == \A c \in Chains : Busy(c) => ChunkOf(c) \subseteq Hands(c) \cup Queued \cup Over
InHand == Passed \subseteq Queued \cup Over \cup {job["retry"].msg}
OnFile == /\ Passed \subseteq DOMAIN file.queue \cup Over
          /\ \A i \in DOMAIN writes : Passed \subseteq DOMAIN writes[i].entries \cup Over

Carrying == "disk" \notin faults => Cursors /\ Chunks /\ InHand /\ OnFile

-----------------------------------------------------------------------------
(* The retry queue and the threads *)

\* A queue, seen entry by entry.
LEMMA QueueFacts ==
    ASSUME NEW q \in Queues
    PROVE  DOMAIN q \subseteq Messages /\ \A m \in DOMAIN q : q[m] \in 1..MaxRetries
BY DEF Queues

\* A partial function from burns to attempts is a queue.
LEMMA QueueIntro ==
    ASSUME NEW S \in SUBSET Messages, NEW q \in [S -> 1..MaxRetries]
    PROVE  q \in Queues
BY DEF Queues

\* An entry joins the queue, one leaves it, the others stay as they are.
Added(m, n) == [k \in Queued \cup {m} |-> IF k = m THEN n ELSE queue[k]]
Removed(m) == [k \in Queued \ {m} |-> queue[k]]

\* The queue after an entry has joined it ...
LEMMA AddedFacts ==
    ASSUME queue \in Queues, NEW m \in Messages, NEW n \in 1..MaxRetries
    PROVE  /\ Added(m, n) \in Queues /\ DOMAIN Added(m, n) = Queued \cup {m}
           /\ Added(m, n)[m] = n /\ \A k \in Queued \ {m} : Added(m, n)[k] = queue[k]
<1>1. Queued \subseteq Messages /\ \A k \in Queued : queue[k] \in 1..MaxRetries
  BY QueueFacts DEF Queued
<1>2. Added(m, n) \in [Queued \cup {m} -> 1..MaxRetries]
  BY <1>1 DEF Added
<1>3. Queued \cup {m} \in SUBSET Messages
  BY <1>1
<1>. QED  BY <1>2, <1>3, QueueIntro DEF Added

\* ... and after one has left it.
LEMMA RemovedFacts ==
    ASSUME queue \in Queues, NEW m
    PROVE  /\ Removed(m) \in Queues /\ DOMAIN Removed(m) = Queued \ {m}
           /\ \A k \in Queued \ {m} : Removed(m)[k] = queue[k]
<1>1. Queued \subseteq Messages /\ \A k \in Queued : queue[k] \in 1..MaxRetries
  BY QueueFacts DEF Queued
<1>2. Removed(m) \in [Queued \ {m} -> 1..MaxRetries]
  BY <1>1 DEF Removed
<1>. QED  BY <1>1, <1>2, QueueIntro DEF Removed

\* One thread goes on, the others stay where they are.
Becomes(t, rec) ==
    /\ job' \in [Threads -> Jobs] /\ job'[t] = rec
    /\ \A u \in Threads \ {t} : job'[u] = job[u]

\* The same, field by field.
Rec(p, S, m, n, x) == [at |-> p, todo |-> S, msg |-> m, tries |-> n, tx |-> x]
Goes(t, p, S, m, n, x) == Becomes(t, Rec(p, S, m, n, x))

\* An assignment to one thread's record moves that thread only.
LEMMA GoesIntro ==
    ASSUME job \in [Threads -> Jobs], NEW t \in Threads, NEW p \in Awaits, NEW S \in SUBSET Messages,
           NEW m \in Messages \cup {NoMessage}, NEW n \in 0..MaxRetries,
           NEW x \in {"none", "pooled", "ok", "reverted"}, job' = [job EXCEPT ![t] = Rec(p, S, m, n, x)]
    PROVE  Goes(t, p, S, m, n, x)
<1>1. Rec(p, S, m, n, x) \in Jobs
  BY DEF Rec, Jobs
<1>. QED  BY <1>1 DEF Goes, Becomes

\* A move, field by field.
LEMMA GoesFacts ==
    ASSUME NEW t, NEW p, NEW S, NEW m, NEW n, NEW x, Goes(t, p, S, m, n, x)
    PROVE  /\ job'[t].at = p /\ job'[t].todo = S /\ job'[t].msg = m /\ job'[t].tries = n /\ job'[t].tx = x
           /\ \A u \in Threads \ {t} : job'[u] = job[u]
           /\ job' \in [Threads -> Jobs]
BY DEF Goes, Becomes, Rec

\* A record of a thread is its five fields.
LEMMA JobParts ==
    ASSUME NEW rec \in Jobs
    PROVE  /\ rec.at \in Awaits /\ rec.todo \in SUBSET Messages /\ rec.msg \in Messages \cup {NoMessage}
           /\ rec.tries \in 0..MaxRetries /\ rec.tx \in {"none", "pooled", "ok", "reverted"}
           /\ rec = Rec(rec.at, rec.todo, rec.msg, rec.tries, rec.tx)
BY DEF Jobs, Rec

\* Where a thread goes on after an attempt.
Back(t) == IF t = "retry" THEN "next" ELSE "log"

\* Resumed, field by field.
LEMMA ResumedIs ==
    ASSUME CctpAssumption, job \in [Threads -> Jobs], NEW t \in Threads
    PROVE  /\ Resumed(t) = Rec(Back(t), job[t].todo, NoMessage, 0, "none")
           /\ [Resumed(t) EXCEPT !.at = "persist"] = Rec("persist", job[t].todo, NoMessage, 0, "none")
<1>1. job[t] \in Jobs /\ 0 \in 0..MaxRetries
  BY DEF CctpAssumption
<1>2. PICK r : r = Resumed(t)
  OBVIOUS
<1>3. /\ r \in Jobs /\ r.at = Back(t) /\ r.todo = job[t].todo /\ r.msg = NoMessage
      /\ r.tries = 0 /\ r.tx = "none"
  BY <1>1, <1>2 DEF Resumed, Back, Jobs, Awaits
<1>4. PICK w : w = [r EXCEPT !.at = "persist"]
  OBVIOUS
<1>5. /\ w \in Jobs /\ w.at = "persist" /\ w.todo = job[t].todo /\ w.msg = NoMessage
      /\ w.tries = 0 /\ w.tx = "none"
  BY <1>3, <1>4 DEF Jobs, Awaits
<1>6. r = Rec(Back(t), job[t].todo, NoMessage, 0, "none")
  BY <1>3, JobParts
<1>7. w = Rec("persist", job[t].todo, NoMessage, 0, "none")
  BY <1>5, JobParts
<1>. QED  BY <1>2, <1>4, <1>6, <1>7

\* The thread goes on empty-handed.
Empties(t, p) == Goes(t, p, job[t].todo, NoMessage, 0, "none")

\* An assignment of an empty hand moves that thread only.
LEMMA EmptiesIntro ==
    ASSUME CctpAssumption, job \in [Threads -> Jobs], NEW t \in Threads, NEW p \in Awaits,
           job' = [job EXCEPT ![t] = Rec(p, job[t].todo, NoMessage, 0, "none")]
    PROVE  Empties(t, p)
<1>1. job[t].todo \in SUBSET Messages /\ 0 \in 0..MaxRetries
  BY JobParts DEF CctpAssumption
<1>. QED  BY <1>1, GoesIntro DEF Empties

\* Resume is such a move, back to the loop the thread came from.
LEMMA ResumeGoes ==
    ASSUME CctpAssumption, job \in [Threads -> Jobs], NEW t \in Threads, Resume(t)
    PROVE  Empties(t, Back(t))
<1>1. Back(t) \in Awaits
  BY DEF Back, Awaits
<1>2. job' = [job EXCEPT ![t] = Rec(Back(t), job[t].todo, NoMessage, 0, "none")]
  BY ResumedIs DEF Resume
<1>. QED  BY <1>1, <1>2, EmptiesIntro

-----------------------------------------------------------------------------
(* What counts as relayed *)

\* MarkProcessed adds one message at most, and keeps within the cap.
LEMMA MarkFacts ==
    ASSUME CctpAssumption, processed \in [Chains -> Seq(Messages)],
           \A c \in Chains : Len(processed[c]) <= ProcessedCap,
           NEW m \in Messages, MarkProcessed(m)
    PROVE  /\ processed' \in [Chains -> Seq(Messages)]
           /\ \A c \in Chains : Len(processed'[c]) <= ProcessedCap
           /\ \A k \in Messages : Processed(k)' => Processed(k) \/ k = m
<1>. DEFINE c == ChainOf[m]
            old == processed[c]
            new == IF Processed(m) THEN old ELSE Append(old, m)
            cut == IF Len(new) > ProcessedCap THEN Tail(new) ELSE new
<1>1. c \in Chains /\ old \in Seq(Messages) /\ Len(old) <= ProcessedCap /\ ProcessedCap \in Nat \ {0}
  BY DEF CctpAssumption
<1>2. /\ new \in Seq(Messages) /\ Len(new) <= ProcessedCap + 1
      /\ \A i \in 1..Len(new) : new[i] = m \/ \E j \in DOMAIN old : old[j] = new[i]
  <2>1. CASE Processed(m)
    BY <1>1, <2>1, LenProperties
  <2>2. CASE ~Processed(m)
    <3>1. Append(old, m) \in Seq(Messages) /\ Len(Append(old, m)) = Len(old) + 1 /\ Len(old) \in Nat
      BY <1>1
    <3>2. \A i \in 1..Len(old) + 1 : Append(old, m)[i] = IF i = Len(old) + 1 THEN m ELSE old[i]
      BY <1>1
    <3>3. DOMAIN old = 1..Len(old)
      BY <1>1
    <3>. QED  BY <1>1, <2>2, <3>1, <3>2, <3>3
  <2>. QED  BY <2>1, <2>2
<1>. HIDE DEF new
<1>3. /\ cut \in Seq(Messages) /\ Len(cut) <= ProcessedCap
      /\ \A i \in DOMAIN cut : cut[i] = m \/ \E j \in DOMAIN old : old[j] = cut[i]
  <2>1. CASE Len(new) > ProcessedCap
    <3>1. new # << >>
      BY <1>1, <1>2, <2>1, EmptySeq
    <3>2. Tail(new) \in Seq(Messages) /\ Len(Tail(new)) = Len(new) - 1
          /\ \A i \in 1..Len(Tail(new)) : Tail(new)[i] = new[i + 1]
      BY <1>2, <3>1, HeadTailProperties
    <3>3. DOMAIN Tail(new) = 1..Len(Tail(new)) /\ Len(new) \in Nat
      BY <1>2, <3>2, LenProperties
    <3>. QED  BY <1>1, <1>2, <2>1, <3>2, <3>3
  <2>2. CASE ~(Len(new) > ProcessedCap)
    <3>1. DOMAIN new = 1..Len(new) /\ Len(new) \in Nat
      BY <1>2, LenProperties
    <3>. QED  BY <1>1, <1>2, <2>2, <3>1
  <2>. QED  BY <2>1, <2>2
<1>4. processed' = [processed EXCEPT ![c] = cut]
  BY DEF MarkProcessed, new
<1>. HIDE DEF cut
<1>5. /\ processed' \in [Chains -> Seq(Messages)] /\ processed'[c] = cut
      /\ \A d \in Chains : d # c => processed'[d] = processed[d]
  BY <1>1, <1>3, <1>4
<1>6. \A d \in Chains : Len(processed'[d]) <= ProcessedCap
  BY <1>3, <1>5
<1>7. ASSUME NEW k \in Messages, Processed(k)'
      PROVE  Processed(k) \/ k = m
  <2>1. ChainOf[k] \in Chains
    BY DEF CctpAssumption
  <2>2. CASE ChainOf[k] = c
    BY <1>3, <1>5, <1>7, <2>2 DEF Processed
  <2>3. CASE ChainOf[k] # c
    BY <1>5, <1>7, <2>1, <2>3 DEF Processed
  <2>. QED  BY <2>2, <2>3
<1>. QED  BY <1>5, <1>6, <1>7

-----------------------------------------------------------------------------
(* A failed attempt *)

\* The thread puts its message back and waits for the file.
Enqueues(t, n) ==
    /\ queue' = Added(job[t].msg, n)
    /\ writes' = Append(writes, [by |-> t, entries |-> queue'])
    /\ Empties(t, "persist")

\* A failed attempt is dropped as queued already or spent, or goes back to the queue.
LEMMA FailFacts ==
    ASSUME CctpAssumption, Records, Holding, NEW t \in Threads, job[t].at \in {"relay", "wait"}, Fail(t)
    PROVE  /\ job[t].msg \in Messages /\ UNCHANGED <<dead, processed, status>>
           /\ \/ /\ Empties(t, Back(t)) /\ UNCHANGED <<queue, writes>>
                 /\ \/ job[t].msg \in Queued /\ spent' = spent
                    \/ t = "retry" /\ spent' = spent \cup {job[t].msg}
              \/ /\ spent' = spent /\ job[t].msg \notin Queued
                 /\ \E n \in 1..MaxRetries : /\ Enqueues(t, n)
                                             /\ t = "retry" => n = job[t].tries + 1
<1>. job \in [Threads -> Jobs] /\ job[t] \in Jobs
  BY DEF Records
<1>1. job[t].msg \in Messages
  BY DEF Holding, Stance, Fits, Jobs
<1>. DEFINE tries == IF t = "retry" THEN job[t].tries ELSE 0
<1>2. tries \in Nat /\ MaxRetries \in Nat \ {0}
  BY DEF Jobs, CctpAssumption
<1>3. CASE t = "retry" /\ ~(job[t].tries < MaxRetries)
  BY <1>1, <1>3, ResumeGoes DEF Fail
<1>4. CASE ~(t = "retry" /\ ~(job[t].tries < MaxRetries))
  <2>1. tries < MaxRetries
    BY <1>2, <1>4 DEF Jobs
  <2>2. EnqueueRetry(t, job[t].msg, tries) /\ spent' = spent
    BY <1>4 DEF Fail
  <2>. HIDE DEF tries
  <2>3. ~(tries >= MaxRetries) /\ tries + 1 \in 1..MaxRetries
    BY <1>2, <2>1
  <2>4. CASE job[t].msg \in Queued
    BY <1>1, <2>2, <2>3, <2>4, ResumeGoes DEF EnqueueRetry
  <2>5. CASE job[t].msg \notin Queued
    <3>1. /\ UNCHANGED <<dead, processed, status>>
          /\ queue' = Added(job[t].msg, tries + 1)
          /\ Snapshot(t, queue')
          /\ job' = [job EXCEPT ![t] = [Resumed(t) EXCEPT !.at = "persist"]]
      BY <2>2, <2>3, <2>5 DEF EnqueueRetry, Added
    <3>2. Empties(t, "persist")
      BY <3>1, ResumedIs, EmptiesIntro DEF Awaits
    <3>3. Enqueues(t, tries + 1)
      BY <3>1, <3>2 DEF Enqueues, Snapshot
    <3>4. t = "retry" => tries + 1 = job[t].tries + 1
      BY DEF tries
    <3>. QED  BY <1>1, <2>2, <2>3, <2>5, <3>1, <3>3, <3>4
  <2>. QED  BY <2>4, <2>5
<1>. QED  BY <1>3, <1>4

-----------------------------------------------------------------------------
(* What each operation does to its thread *)

\* What a thread can hold.
LEMMA ThreadFacts ==
    ASSUME CctpAssumption, Inv, NEW t \in Threads
    PROVE  /\ job \in [Threads -> Jobs] /\ job[t] \in Jobs /\ queue \in Queues /\ Stance(t)
           /\ job[t].at \in Awaits /\ job[t].todo \in SUBSET Messages
           /\ job[t].msg \in Messages \cup {NoMessage} /\ job[t].tries \in 0..MaxRetries
           /\ job[t].tx \in {"none", "pooled", "ok", "reverted"}
           /\ job[t] = Rec(job[t].at, job[t].todo, job[t].msg, job[t].tries, job[t].tx)
           /\ job[t].at \in {"relay", "wait"} => job[t].msg \in Messages
<1>1. job \in [Threads -> Jobs] /\ job[t] \in Jobs /\ queue \in Queues /\ Stance(t)
  BY DEF Inv, Records, Holding
<1>. QED  BY <1>1, JobParts DEF Stance, Fits

\* The retries are a thread of their own.
LEMMA RetryIsNoChain ==
    ASSUME CctpAssumption
    PROVE  /\ "retry" \in Threads /\ Chains \subseteq Threads /\ NoMessage \notin Messages
           /\ \A c \in Chains : c # "retry"
BY DEF Threads, CctpAssumption

\* A field or two of a thread change.
LEMMA SetAt ==
    ASSUME CctpAssumption, Inv, NEW t \in Threads, NEW p \in Awaits, job' = [job EXCEPT ![t].at = p]
    PROVE  Goes(t, p, job[t].todo, job[t].msg, job[t].tries, job[t].tx)
<1>. /\ job \in [Threads -> Jobs] /\ job[t].todo \in SUBSET Messages
     /\ job[t].msg \in Messages \cup {NoMessage} /\ job[t].tries \in 0..MaxRetries
     /\ job[t].tx \in {"none", "pooled", "ok", "reverted"}
  BY ThreadFacts
<1>1. PICK r : r = [job[t] EXCEPT !.at = p]
  OBVIOUS
<1>2. /\ r \in Jobs /\ r.at = p /\ r.todo = job[t].todo /\ r.msg = job[t].msg
      /\ r.tries = job[t].tries /\ r.tx = job[t].tx
  BY <1>1 DEF Jobs
<1>3. r = Rec(p, job[t].todo, job[t].msg, job[t].tries, job[t].tx)
  BY <1>2, JobParts
<1>4. job' = [job EXCEPT ![t] = r]
  BY <1>1
<1>. QED  BY <1>2, <1>3, <1>4 DEF Goes, Becomes

\* One message less to do, the rest as before.
LEMMA SetTodo ==
    ASSUME CctpAssumption, Inv, NEW t \in Threads, NEW m, job' = [job EXCEPT ![t].todo = @ \ {m}]
    PROVE  Goes(t, job[t].at, job[t].todo \ {m}, job[t].msg, job[t].tries, job[t].tx)
<1>. job \in [Threads -> Jobs] /\ job[t] \in Jobs
  BY ThreadFacts
<1>1. PICK r : r = [job[t] EXCEPT !.todo = @ \ {m}]
  OBVIOUS
<1>2. /\ r \in Jobs /\ r.at = job[t].at /\ r.todo = job[t].todo \ {m} /\ r.msg = job[t].msg
      /\ r.tries = job[t].tries /\ r.tx = job[t].tx
  BY <1>1 DEF Jobs
<1>3. r = Rec(job[t].at, job[t].todo \ {m}, job[t].msg, job[t].tries, job[t].tx)
  BY <1>2, JobParts
<1>4. job' = [job EXCEPT ![t] = r]
  BY <1>1
<1>. QED  BY <1>2, <1>3, <1>4 DEF Goes, Becomes

\* The transaction is settled, the rest as before.
LEMMA SetTx ==
    ASSUME CctpAssumption, Inv, NEW t \in Threads, NEW x \in {"ok", "reverted"},
           job' = [job EXCEPT ![t].tx = x]
    PROVE  Goes(t, job[t].at, job[t].todo, job[t].msg, job[t].tries, x)
<1>. job \in [Threads -> Jobs] /\ job[t] \in Jobs
  BY ThreadFacts
<1>1. PICK r : r = [job[t] EXCEPT !.tx = x]
  OBVIOUS
<1>2. /\ r \in Jobs /\ r.at = job[t].at /\ r.todo = job[t].todo /\ r.msg = job[t].msg
      /\ r.tries = job[t].tries /\ r.tx = x
  BY <1>1 DEF Jobs
<1>3. r = Rec(job[t].at, job[t].todo, job[t].msg, job[t].tries, x)
  BY <1>2, JobParts
<1>4. job' = [job EXCEPT ![t] = r]
  BY <1>1
<1>. QED  BY <1>2, <1>3, <1>4 DEF Goes, Becomes

\* The thread goes idle, or on to a set of messages.
LEMMA SetIdle ==
    ASSUME CctpAssumption, Inv, NEW t \in Threads, NEW p \in Awaits, NEW S \in SUBSET Messages,
           job' = [job EXCEPT ![t] = [Idle(p) EXCEPT !.todo = S]] \/ (S = {} /\ job' = [job EXCEPT ![t] = Idle(p)])
    PROVE  Goes(t, p, S, NoMessage, 0, "none")
<1>. job \in [Threads -> Jobs] /\ 0 \in 0..MaxRetries
  BY ThreadFacts DEF CctpAssumption
<1>1. [Idle(p) EXCEPT !.todo = S] = Rec(p, S, NoMessage, 0, "none")
  BY DEF Idle, Rec
<1>2. S = {} => Idle(p) = Rec(p, S, NoMessage, 0, "none")
  BY DEF Idle, Rec
<1>. QED  BY <1>1, <1>2, GoesIntro

\* TakeLog leaves a processed message and takes any other one in hand.
LEMMA TakeLogEffect ==
    ASSUME CctpAssumption, Inv, NEW c \in Chains, NEW m \in Messages, TakeLog(c, m)
    PROVE  /\ job[c].at = "log" /\ m \in job[c].todo /\ job[c].tx = "none" /\ job[c].msg = NoMessage
           /\ \/ Processed(m) /\ Goes(c, "log", job[c].todo \ {m}, NoMessage, job[c].tries, "none")
                 /\ status' = status
              \/ /\ Goes(c, "relay", job[c].todo \ {m}, m, job[c].tries, "none")
                 /\ status' = [status EXCEPT ![m] = IF @ = "unknown" THEN "pending" ELSE @]
<1>. c \in Threads
  BY RetryIsNoChain
<1>. job \in [Threads -> Jobs] /\ job[c] \in Jobs /\ Stance(c)
  BY ThreadFacts
<1>1. job[c].at = "log" /\ m \in job[c].todo /\ job[c].tx = "none" /\ job[c].msg = NoMessage
  BY DEF TakeLog, Stance, Fits
<1>2. CASE Processed(m)
  BY <1>1, <1>2, SetTodo DEF TakeLog
<1>3. CASE ~Processed(m)
  <2>1. PICK r : r = [job[c] EXCEPT !.todo = @ \ {m}, !.at = "relay", !.msg = m]
    OBVIOUS
  <2>2. /\ r \in Jobs /\ r.at = "relay" /\ r.todo = job[c].todo \ {m} /\ r.msg = m
        /\ r.tries = job[c].tries /\ r.tx = "none"
    BY <1>1, <2>1 DEF Jobs, Awaits
  <2>3. r = Rec("relay", job[c].todo \ {m}, m, job[c].tries, "none")
    BY <2>2, JobParts
  <2>4. job' = [job EXCEPT ![c] = r]
    BY <1>3, <2>1 DEF TakeLog
  <2>5. Goes(c, "relay", job[c].todo \ {m}, m, job[c].tries, "none")
    BY <2>2, <2>3, <2>4 DEF Goes, Becomes
  <2>. QED  BY <1>1, <1>3, <2>5 DEF TakeLog
<1>. QED  BY <1>2, <1>3

\* TakeReady takes its message from the queue, and in hand unless it is processed.
LEMMA TakeReadyEffect ==
    ASSUME CctpAssumption, Inv, NEW m \in Messages, TakeReady(m)
    PROVE  /\ job["retry"].at = "next" /\ m \in job["retry"].todo /\ m \in Queued
           /\ job["retry"].tx = "none" /\ job["retry"].msg = NoMessage
           /\ queue' = Removed(m)
           /\ \/ Processed(m) /\ Goes("retry", "next", job["retry"].todo \ {m}, NoMessage, job["retry"].tries, "none")
              \/ Goes("retry", "relay", job["retry"].todo \ {m}, m, queue[m], "none")
<1>. "retry" \in Threads
  BY RetryIsNoChain
<1>. job \in [Threads -> Jobs] /\ job["retry"] \in Jobs /\ Stance("retry") /\ queue \in Queues
  BY ThreadFacts
<1>1. job["retry"].at = "next" /\ m \in job["retry"].todo /\ job["retry"].tx = "none" /\ job["retry"].msg = NoMessage
  BY DEF TakeReady, Stance, Fits
<1>2. m \in Queued /\ queue[m] \in 0..MaxRetries
  BY <1>1, QueueFacts DEF Stance, Fits, Queued
<1>3. CASE Processed(m)
  <2>1. job' = [job EXCEPT !["retry"].todo = @ \ {m}]
    BY <1>3 DEF TakeReady
  <2>. QED  BY <1>1, <1>2, <1>3, <2>1, SetTodo DEF TakeReady, Removed
<1>4. CASE ~Processed(m)
  <2>1. PICK r : r = [job["retry"] EXCEPT !.todo = @ \ {m}, !.at = "relay", !.msg = m, !.tries = queue[m]]
    OBVIOUS
  <2>2. /\ r \in Jobs /\ r.at = "relay" /\ r.todo = job["retry"].todo \ {m} /\ r.msg = m
        /\ r.tries = queue[m] /\ r.tx = "none"
    BY <1>1, <1>2, <2>1 DEF Jobs, Awaits
  <2>3. r = Rec("relay", job["retry"].todo \ {m}, m, queue[m], "none")
    BY <2>2, JobParts
  <2>4. job' = [job EXCEPT !["retry"] = r]
    BY <1>4, <2>1 DEF TakeReady
  <2>5. Goes("retry", "relay", job["retry"].todo \ {m}, m, queue[m], "none")
    BY <2>2, <2>3, <2>4 DEF Goes, Becomes
  <2>. QED  BY <1>1, <1>2, <1>4, <2>5 DEF TakeReady, Removed
<1>. QED  BY <1>3, <1>4

\* Broadcast makes the thread wait for the transaction.
LEMMA BroadcastEffect ==
    ASSUME CctpAssumption, Inv, NEW t \in Threads, Broadcast(t)
    PROVE  Goes(t, "wait", job[t].todo, job[t].msg, job[t].tries, "pooled")
<1>. job \in [Threads -> Jobs] /\ job[t] \in Jobs
  BY ThreadFacts
<1>1. PICK r : r = [job[t] EXCEPT !.at = "wait", !.tx = "pooled"]
  OBVIOUS
<1>2. /\ r \in Jobs /\ r.at = "wait" /\ r.todo = job[t].todo /\ r.msg = job[t].msg
      /\ r.tries = job[t].tries /\ r.tx = "pooled"
  BY <1>1 DEF Jobs, Awaits
<1>3. r = Rec("wait", job[t].todo, job[t].msg, job[t].tries, "pooled")
  BY <1>2, JobParts
<1>4. job' = [job EXCEPT ![t] = r]
  BY <1>1 DEF Broadcast
<1>. QED  BY <1>2, <1>3, <1>4 DEF Goes, Becomes

\* The oldest write, and the thread that waits for it.
LEMMA HeadFacts ==
    ASSUME CctpAssumption, Inv, writes # << >>
    PROVE  /\ Head(writes) = writes[1] /\ 1 \in DOMAIN writes
           /\ writes[1].by \in Threads /\ writes[1].entries \in Queues
           /\ job[writes[1].by].at \in {"persist", "save"}
           /\ Tail(writes) \in Seq(Writes) /\ Len(writes) \in Nat \ {0}
           /\ DOMAIN writes = 1..Len(writes) /\ DOMAIN Tail(writes) = 1..(Len(writes) - 1)
           /\ \A i \in DOMAIN Tail(writes) : i + 1 \in DOMAIN writes /\ Tail(writes)[i] = writes[i + 1]
<1>. writes \in Seq(Writes) /\ Written
  BY DEF Inv, Records
<1>1. Len(writes) \in Nat \ {0} /\ DOMAIN writes = 1..Len(writes)
  BY EmptySeq, LenProperties
<1>2. Head(writes) = writes[1] /\ writes[1] \in Writes
  BY <1>1, ElementOfSeq
<1>3. /\ Tail(writes) \in Seq(Writes) /\ Len(Tail(writes)) = Len(writes) - 1
      /\ \A i \in 1..Len(Tail(writes)) : Tail(writes)[i] = writes[i + 1]
  BY HeadTailProperties
<1>4. DOMAIN Tail(writes) = 1..(Len(writes) - 1)
  BY <1>3, LenProperties
<1>. QED  BY <1>1, <1>2, <1>3, <1>4 DEF Written, Writes

\* A write that landed lets its thread go on, or ends the retries.
LEMMA LandWriteEffect ==
    ASSUME CctpAssumption, Inv, LandWrite, NEW t, t = writes[1].by
    PROVE  /\ writes # << >> /\ t \in Threads
           /\ \/ job[t].at = "save" /\ t = "retry" /\ Goes(t, "off", {}, NoMessage, 0, "none")
              \/ job[t].at = "persist" /\ Empties(t, Back(t))
<1>1. writes # << >>
  BY DEF LandWrite
<1>2. Head(writes) = writes[1] /\ t \in Threads /\ job[t].at \in {"persist", "save"}
  BY <1>1, HeadFacts
<1>3. job \in [Threads -> Jobs] /\ Stance(t)
  BY <1>2, ThreadFacts
<1>6. Head(writes).by = t
  BY <1>2
<1>7. job' = [job EXCEPT ![t] = IF job[t].at = "save" THEN Idle("off") ELSE Resumed(t)]
  BY <1>6 DEF LandWrite
<1>4. CASE job[t].at = "save"
  <2>1. t = "retry"
    BY <1>3, <1>4 DEF Stance, Fits
  <2>2. job' = [job EXCEPT ![t] = Idle("off")] /\ "off" \in Awaits
    BY <1>4, <1>7 DEF Awaits
  <2>. QED  BY <1>1, <1>2, <1>4, <2>1, <2>2, SetIdle
<1>5. CASE job[t].at = "persist"
  <2>1. Resume(t)
    BY <1>5, <1>7 DEF Resume
  <2>. QED  BY <1>1, <1>2, <1>3, <1>5, <2>1, ResumeGoes
<1>. QED  BY <1>2, <1>4, <1>5

\* The retries start when the scans are done.
LEMMA StartEffect ==
    ASSUME CctpAssumption, Inv, NEW due \in SUBSET Messages, StartRetries(due)
    PROVE  /\ job["retry"].at = "off" /\ ScansDone /\ due \subseteq Queued
           /\ Goes("retry", "next", due, NoMessage, 0, "none")
<1>1. "retry" \in Threads /\ "next" \in Awaits
  BY RetryIsNoChain DEF Awaits
<1>. QED  BY <1>1, SetIdle DEF StartRetries

\* The retries end with a write of the queue.
LEMMA EndEffect ==
    ASSUME CctpAssumption, Inv, EndRetries
    PROVE  /\ job["retry"].at = "next" /\ job["retry"].msg = NoMessage
           /\ Goes("retry", "save", job["retry"].todo, NoMessage, job["retry"].tries, "none")
           /\ writes' = Append(writes, [by |-> "retry", entries |-> queue])
<1>1. "retry" \in Threads /\ "save" \in Awaits
  BY RetryIsNoChain DEF Awaits
<1>2. Stance("retry") /\ job["retry"].at = "next"
  BY <1>1, ThreadFacts DEF EndRetries
<1>3. job["retry"].msg = NoMessage /\ job["retry"].tx = "none"
  BY <1>2 DEF Stance, Fits
<1>4. Goes("retry", "save", job["retry"].todo, job["retry"].msg, job["retry"].tries, job["retry"].tx)
  BY <1>1, SetAt DEF EndRetries
<1>. QED  BY <1>2, <1>3, <1>4 DEF EndRetries, Snapshot

\* A chain begins, leaves or goes on with its scan.
Scans(c, p, S) == Goes(c, p, S, NoMessage, 0, "none")

\* What the steps of a scan do to their thread.
LEMMA ScanEffects ==
    ASSUME CctpAssumption, Inv, NEW c \in Chains
    PROVE  /\ BeginScan(c) => \E p \in {"scan", "done"} : Scans(c, p, {})
           /\ ScanFails(c) => Scans(c, "done", {})
           /\ ScanChunk(c) => Scans(c, "log", ChunkOf(c))
           /\ WriteCursor(c) => \E p \in {"scan", "done"} : Scans(c, p, {})
<1>1. c \in Threads /\ {"scan", "done", "log"} \subseteq Awaits /\ {} \in SUBSET Messages
  BY RetryIsNoChain DEF Awaits
<1>2. ASSUME BeginScan(c)
      PROVE  \E p \in {"scan", "done"} : Scans(c, p, {})
  <2>. DEFINE p == IF head[c] > cursor[c] THEN "scan" ELSE "done"
  <2>1. p \in {"scan", "done"} /\ job' = [job EXCEPT ![c] = Idle(p)]
    BY <1>2 DEF BeginScan
  <2>. HIDE DEF p
  <2>. QED  BY <1>1, <2>1, SetIdle DEF Scans
<1>3. ASSUME ScanFails(c)
      PROVE  Scans(c, "done", {})
  BY <1>1, <1>3, SetIdle DEF ScanFails, Scans
<1>4. ASSUME ScanChunk(c)
      PROVE  Scans(c, "log", ChunkOf(c))
  <2>1. job' = [job EXCEPT ![c] = [Idle("log") EXCEPT !.todo = ChunkOf(c)]] /\ ChunkOf(c) \in SUBSET Messages
    BY <1>4 DEF ScanChunk, ChunkOf
  <2>. QED  BY <1>1, <2>1, SetIdle DEF Scans
<1>5. ASSUME WriteCursor(c)
      PROVE  \E p \in {"scan", "done"} : Scans(c, p, {})
  <2>1. PICK p \in {"scan", "done"} : job' = [job EXCEPT ![c] = Idle(p)]
    BY <1>5 DEF WriteCursor
  <2>. QED  BY <1>1, <2>1, SetIdle DEF Scans
<1>. QED  BY <1>2, <1>3, <1>4, <1>5

\* A mined transaction mints its message or reverts.
LEMMA MineEffect ==
    ASSUME CctpAssumption, Inv, NEW t \in Threads, Mine(t)
    PROVE  /\ job[t].at = "wait" /\ job[t].msg \in Messages
           /\ \/ /\ Goes(t, "wait", job[t].todo, job[t].msg, job[t].tries, "ok")
                 /\ minted' = minted \cup {job[t].msg}
              \/ /\ Goes(t, "wait", job[t].todo, job[t].msg, job[t].tries, "reverted")
                 /\ minted' = minted
<1>1. Stance(t) /\ job[t].tx = "pooled"
  BY ThreadFacts DEF Mine
<1>2. job[t].at = "wait"
  BY <1>1 DEF Stance, Fits
<1>3. job[t].msg \in Messages
  BY <1>2, ThreadFacts
<1>. QED  BY <1>2, <1>3, SetTx DEF Mine

\* Every thread starts over.
Fresh == job' = [t \in Threads |-> Idle(IF t = "retry" THEN "off" ELSE "poll")]

\* Every thread is empty-handed then.
LEMMA FreshFacts ==
    ASSUME CctpAssumption, Fresh
    PROVE  /\ job' \in [Threads -> Jobs]
           /\ \A t \in Threads : /\ job'[t].at = IF t = "retry" THEN "off" ELSE "poll"
                                 /\ job'[t].todo = {} /\ job'[t].msg = NoMessage /\ job'[t].tx = "none"
<1>1. \A p \in Awaits : /\ Idle(p) \in Jobs /\ Idle(p).at = p /\ Idle(p).todo = {}
                        /\ Idle(p).msg = NoMessage /\ Idle(p).tx = "none"
  BY DEF Idle, Jobs, CctpAssumption
<1>2. {"off", "poll"} \subseteq Awaits
  BY DEF Awaits
<1>3. \A t \in Threads : job'[t] = Idle(IF t = "retry" THEN "off" ELSE "poll")
  BY DEF Fresh
<1>4. \A t \in Threads : (IF t = "retry" THEN "off" ELSE "poll") \in Awaits
  BY <1>2
<1>. QED  BY <1>1, <1>3, <1>4 DEF Fresh

-----------------------------------------------------------------------------
(* Where the threads stand *)

\* A thread that moves to a fitting stance leaves the others theirs.
LEMMA MoveHolds ==
    ASSUME CctpAssumption, Inv, NEW t \in Threads, NEW p, NEW S, NEW m, NEW n, NEW x,
           Goes(t, p, S, m, n, x), Fits(t, p, S, m, x, DOMAIN queue'), Queued \subseteq DOMAIN queue' \/ t = "retry",
           IF t = "retry" THEN p # "off" => ScansDone ELSE job[t].at # "done"
    PROVE  Holding'
<1>1. /\ job'[t].at = p /\ job'[t].todo = S /\ job'[t].msg = m /\ job'[t].tx = x
      /\ \A u \in Threads \ {t} : job'[u] = job[u]
  BY GoesFacts
<1>2. \A u \in Threads : Stance(u)'
  <2>1. Fits(t, job'[t].at, job'[t].todo, job'[t].msg, job'[t].tx, DOMAIN queue')
    BY <1>1
  <2>2. ASSUME NEW u \in Threads \ {t}
        PROVE  Fits(u, job'[u].at, job'[u].todo, job'[u].msg, job'[u].tx, DOMAIN queue')
    <3>1. Fits(u, job[u].at, job[u].todo, job[u].msg, job[u].tx, Queued)
      BY DEF Inv, Holding, Stance
    <3>2. Fits(u, job[u].at, job[u].todo, job[u].msg, job[u].tx, DOMAIN queue')
      BY <3>1 DEF Fits
    <3>. QED  BY <1>1, <3>2
  <2>. QED  BY <2>1, <2>2 DEF Stance, Queued
<1>3. job'["retry"].at # "off" => ScansDone'
  <2>1. job["retry"].at # "off" => ScansDone
    BY DEF Inv, Holding
  <2>2. CASE t = "retry"
    BY <1>1, <2>1, <2>2, RetryIsNoChain DEF ScansDone
  <2>3. CASE t # "retry"
    <3>1. t \in Chains /\ job[t].at # "done"
      BY <2>3 DEF Threads
    <3>2. job["retry"].at = "off" /\ job'["retry"] = job["retry"]
      BY <1>1, <2>1, <2>3, <3>1, RetryIsNoChain DEF ScansDone
    <3>. QED  BY <3>2
  <2>. QED  BY <2>2, <2>3
<1>. QED  BY <1>2, <1>3 DEF Holding

\* An idle stance fits.
LEMMA IdleFits ==
    ASSUME CctpAssumption, NEW Q, NEW S \in SUBSET Messages
    PROVE  /\ \A p \in {"off", "next", "persist", "save"} : S \subseteq Q => Fits("retry", p, S, NoMessage, "none", Q)
           /\ \A c \in Chains : \A p \in {"poll", "scan", "log", "persist", "done"} :
                  (\A k \in S : ChainOf[k] = c) => Fits(c, p, S, NoMessage, "none", Q)
BY RetryIsNoChain DEF Fits

\* Whom the retries wait for is idle.
LEMMA Resting ==
    ASSUME CctpAssumption, Inv, job["retry"].at # "off"
    PROVE  ScansDone
BY DEF Inv, Holding

\* An attempt that ends leaves a fitting stance.
LEMMA BackHolds ==
    ASSUME CctpAssumption, Inv, NEW t \in Threads, job[t].at \in {"relay", "wait", "persist"},
           NEW p \in {Back(t), "persist"}, Empties(t, p), Queued \subseteq DOMAIN queue'
    PROVE  Holding'
<1>1. Stance(t) /\ job[t].todo \in SUBSET Messages
  BY ThreadFacts
<1>2. Fits(t, p, job[t].todo, NoMessage, "none", DOMAIN queue')
  BY <1>1, RetryIsNoChain DEF Stance, Fits, Back
<1>3. IF t = "retry" THEN p # "off" => ScansDone ELSE job[t].at # "done"
  BY Resting
<1>. QED  BY <1>2, <1>3, MoveHolds DEF Empties

\* So does one that fails.
LEMMA FailHolds ==
    ASSUME CctpAssumption, Inv, NEW t \in Threads, job[t].at \in {"relay", "wait"}, Fail(t)
    PROVE  Holding'
<1>1. Records /\ Holding
  BY DEF Inv
<1>2. job[t].msg \in Messages /\ queue \in Queues
  BY <1>1, FailFacts DEF Records
<1>3. CASE Empties(t, Back(t)) /\ UNCHANGED <<queue, writes>>
  <2>1. Queued \subseteq DOMAIN queue'
    BY <1>3 DEF Queued
  <2>. QED  BY <1>3, <2>1, BackHolds
<1>4. ASSUME NEW n \in 1..MaxRetries, Enqueues(t, n)
      PROVE  Holding'
  <2>1. queue' = Added(job[t].msg, n) /\ Empties(t, "persist")
    BY <1>4 DEF Enqueues
  <2>2. DOMAIN Added(job[t].msg, n) = Queued \cup {job[t].msg}
    BY <1>2, AddedFacts
  <2>3. Queued \subseteq DOMAIN queue'
    BY <2>1, <2>2
  <2>. QED  BY <2>1, <2>3, BackHolds
<1>. QED  BY <1>1, <1>3, <1>4, FailFacts

\* Every step keeps Holding.
LEMMA HoldingKept ==
    ASSUME CctpAssumption, Inv, Next
    PROVE  Holding'
<1>. "retry" \in Threads /\ Chains \subseteq Threads /\ \A c \in Chains : c # "retry"
  BY RetryIsNoChain
<1>1. ASSUME LandWrite
      PROVE  Holding'
  <2>1. PICK t : t = writes[1].by
    OBVIOUS
  <2>2. queue' = queue
    BY <1>1 DEF LandWrite, memory
  <2>3. t \in Threads
    BY <1>1, <2>1, LandWriteEffect
  <2>4. CASE t = "retry" /\ Goes(t, "off", {}, NoMessage, 0, "none")
    <3>1. Fits("retry", "off", {}, NoMessage, "none", DOMAIN queue')
      BY IdleFits
    <3>. QED  BY <2>4, <3>1, MoveHolds
  <2>5. CASE job[t].at = "persist" /\ Empties(t, Back(t))
    BY <2>2, <2>3, <2>5, BackHolds DEF Queued
  <2>. QED  BY <1>1, <2>1, <2>4, <2>5, LandWriteEffect
<1>2. ASSUME Fresh
      PROVE  Holding'
  <2>1. \A t \in Threads : Fits(t, job'[t].at, job'[t].todo, job'[t].msg, job'[t].tx, DOMAIN queue')
    BY <1>2, FreshFacts DEF Fits
  <2>2. job'["retry"].at = "off"
    BY <1>2, FreshFacts
  <2>. QED  BY <2>1, <2>2 DEF Holding, Stance, Queued
<1>3. ASSUME NEW due \in SUBSET Messages, StartRetries(due)
      PROVE  Holding'
  <2>1. queue' = queue
    BY <1>3 DEF StartRetries, memory
  <2>2. ScansDone /\ due \subseteq DOMAIN queue' /\ Goes("retry", "next", due, NoMessage, 0, "none")
    BY <1>3, <2>1, StartEffect DEF Queued
  <2>3. Fits("retry", "next", due, NoMessage, "none", DOMAIN queue')
    BY <2>2, IdleFits
  <2>. QED  BY <2>2, <2>3, MoveHolds
<1>4. ASSUME NEW m \in Messages, TakeReady(m)
      PROVE  Holding'
  <2>1. /\ job["retry"].at = "next" /\ queue' = Removed(m) /\ Stance("retry") /\ queue \in Queues
        /\ job["retry"].todo \in SUBSET Messages
    BY <1>4, TakeReadyEffect, ThreadFacts
  <2>2. PICK S : S = job["retry"].todo \ {m}
    OBVIOUS
  <2>3. S \in SUBSET Messages /\ S \subseteq DOMAIN queue' /\ ScansDone
    BY <2>1, <2>2, RemovedFacts, Resting DEF Stance, Fits
  <2>4. Fits("retry", "next", S, NoMessage, "none", DOMAIN queue')
    BY <2>3, IdleFits
  <2>5. Fits("retry", "relay", S, m, "none", DOMAIN queue')
    BY <2>3, RetryIsNoChain DEF Fits
  <2>. QED  BY <1>4, <2>2, <2>3, <2>4, <2>5, TakeReadyEffect, MoveHolds
<1>5. ASSUME EndRetries
      PROVE  Holding'
  <2>1. /\ job["retry"].at = "next" /\ Stance("retry") /\ job["retry"].todo \in SUBSET Messages
        /\ Goes("retry", "save", job["retry"].todo, NoMessage, job["retry"].tries, "none")
    BY <1>5, EndEffect, ThreadFacts
  <2>2. queue' = queue /\ ScansDone
    BY <1>5, <2>1, Resting DEF EndRetries, memory
  <2>3. Fits("retry", "save", job["retry"].todo, NoMessage, "none", DOMAIN queue')
    BY <2>1, <2>2 DEF Stance, Fits, Queued
  <2>. QED  BY <2>1, <2>2, <2>3, MoveHolds
<1>6. ASSUME NEW c \in Chains, BeginScan(c) \/ ScanFails(c) \/ ScanChunk(c) \/ WriteCursor(c)
      PROVE  Holding'
  <2>1. queue' = queue /\ job[c].at # "done"
    BY <1>6 DEF BeginScan, ScanFails, ScanChunk, WriteCursor, memory
  <2>2. ASSUME NEW p \in {"scan", "done", "log"}, NEW S \in SUBSET Messages, \A k \in S : ChainOf[k] = c,
               Scans(c, p, S)
        PROVE  Holding'
    <3>1. Fits(c, p, S, NoMessage, "none", DOMAIN queue')
      BY <2>2, IdleFits
    <3>. QED  BY <2>1, <2>2, <3>1, MoveHolds DEF Scans, Queued
  <2>3. ChunkOf(c) \in SUBSET Messages /\ \A k \in ChunkOf(c) : ChainOf[k] = c
    BY DEF ChunkOf
  <2>. QED  BY <1>6, <2>2, <2>3, ScanEffects
<1>7. ASSUME NEW c \in Chains, NEW m \in Messages, TakeLog(c, m)
      PROVE  Holding'
  <2>1. queue' = queue
    BY <1>7 DEF TakeLog
  <2>2. job[c].at = "log" /\ m \in job[c].todo /\ Stance(c) /\ job[c].todo \in SUBSET Messages
    BY <1>7, TakeLogEffect, ThreadFacts
  <2>3. PICK S : S = job[c].todo \ {m}
    OBVIOUS
  <2>4. S \in SUBSET Messages /\ ChainOf[m] = c /\ \A k \in S : ChainOf[k] = c
    BY <2>2, <2>3, RetryIsNoChain DEF Stance, Fits
  <2>5. Fits(c, "log", S, NoMessage, "none", DOMAIN queue')
    BY <2>4, IdleFits
  <2>6. Fits(c, "relay", S, m, "none", DOMAIN queue')
    BY <2>4, RetryIsNoChain DEF Fits
  <2>. QED  BY <1>7, <2>1, <2>2, <2>3, <2>5, <2>6, TakeLogEffect, MoveHolds DEF Queued
<1>8. ASSUME NEW t \in Threads, Broadcast(t) \/ Mine(t)
      PROVE  Holding'
  <2>1. queue' = queue /\ job[t].at \in {"relay", "wait"}
    BY <1>8, MineEffect DEF Broadcast, Mine, memory
  <2>2. PICK x \in {"pooled", "ok", "reverted"} : Goes(t, "wait", job[t].todo, job[t].msg, job[t].tries, x)
    BY <1>8, BroadcastEffect, MineEffect
  <2>3. Fits(t, "wait", job[t].todo, job[t].msg, x, DOMAIN queue')
    BY <2>1, ThreadFacts DEF Stance, Fits, Queued
  <2>4. IF t = "retry" THEN "wait" # "off" => ScansDone ELSE job[t].at # "done"
    BY <2>1, Resting
  <2>. QED  BY <2>1, <2>2, <2>3, <2>4, MoveHolds DEF Queued
<1>9. ASSUME NEW t \in Threads, AlreadyProcessed(t) \/ Confirmed(t)
      PROVE  Holding'
  <2>1. queue' = queue /\ job[t].at \in {"relay", "wait"} /\ Resume(t)
    BY <1>9 DEF AlreadyProcessed, Confirmed
  <2>. QED  BY <2>1, ThreadFacts, ResumeGoes, BackHolds DEF Queued
<1>10. ASSUME NEW t \in Threads, BroadcastFails(t) \/ WaitFails(t)
       PROVE  Holding'
  BY <1>10, FailHolds DEF BroadcastFails, WaitFails
<1>11. ASSUME UNCHANGED <<job, queue>>
       PROVE  Holding'
  BY <1>11 DEF Inv, Holding, Stance, ScansDone, Queued
<1>12. SaveStatus \/ (\E c \in Chains : NewBlock(c)) \/ (\E m \in Messages : MineStray(m)) => UNCHANGED <<job, queue>>
  BY DEF SaveStatus, NewBlock, MineStray, memory
<1>13. NextTick \/ Restart => Fresh
  BY DEF NextTick, Restart, Fresh
<1>. QED  BY <1>1, <1>2, <1>3, <1>4, <1>5, <1>6, <1>7, <1>8, <1>9, <1>10, <1>11, <1>12, <1>13
          DEF Next, Loop, RetryStep, ScanStep, Attempt

-----------------------------------------------------------------------------
(* The writes under way *)

\* A write joins the end, the others keep their places.
LEMMA AppendFacts ==
    ASSUME writes \in Seq(Writes), NEW t \in Threads, NEW q \in Queues,
           writes' = Append(writes, [by |-> t, entries |-> q])
    PROVE  /\ writes' \in Seq(Writes) /\ Len(writes) \in Nat /\ DOMAIN writes = 1..Len(writes)
           /\ DOMAIN writes' = 1..(Len(writes) + 1)
           /\ \A i \in DOMAIN writes : writes'[i] = writes[i]
           /\ writes'[Len(writes) + 1].by = t /\ writes'[Len(writes) + 1].entries = q
<1>1. PICK w : w = [by |-> t, entries |-> q]
  OBVIOUS
<1>2. w \in Writes /\ w.by = t /\ w.entries = q
  BY <1>1 DEF Writes
<1>3. Len(writes) \in Nat /\ DOMAIN writes = 1..Len(writes)
  BY LenProperties
<1>4. /\ writes' \in Seq(Writes) /\ Len(writes') = Len(writes) + 1
      /\ \A i \in 1..Len(writes) : writes'[i] = writes[i]
      /\ writes'[Len(writes) + 1] = w
  BY <1>1, <1>2, AppendProperties
<1>5. DOMAIN writes' = 1..(Len(writes) + 1)
  BY <1>4, LenProperties
<1>. QED  BY <1>2, <1>3, <1>4, <1>5

\* No write is under way for a thread that does not wait for one.
LEMMA NoWriteOf ==
    ASSUME CctpAssumption, Inv, NEW t \in Threads, job[t].at \notin {"persist", "save"}
    PROVE  \A i \in DOMAIN writes : writes[i].by \in Threads \ {t}
<1>1. writes \in Seq(Writes) /\ Written
  BY DEF Inv, Records
<1>2. \A i \in DOMAIN writes : writes[i] \in Writes
  BY <1>1, LenProperties, ElementOfSeq
<1>. QED  BY <1>1, <1>2 DEF Written, Writes

\* A step that starts no write keeps Written ...
LEMMA StayWritten ==
    ASSUME CctpAssumption, Inv, NEW t \in Threads, NEW p, NEW S, NEW m, NEW n, NEW x,
           Goes(t, p, S, m, n, x), job[t].at \notin {"persist", "save"}, p # "save",
           writes' = writes, queue' = queue \/ t = "retry"
    PROVE  Written'
<1>1. job'[t].at = p /\ \A u \in Threads \ {t} : job'[u] = job[u]
  BY GoesFacts
<1>2. \A i \in DOMAIN writes : job'[writes[i].by] = job[writes[i].by]
  BY <1>1, NoWriteOf
<1>3. job'["retry"].at = "save" => job["retry"].at = "save" /\ queue' = queue
  BY <1>1, RetryIsNoChain
<1>. QED  BY <1>2, <1>3 DEF Inv, Written

\* ... and so does one that starts one and waits for it ...
LEMMA AppendWritten ==
    ASSUME CctpAssumption, Inv, NEW t \in Threads, NEW p \in {"persist", "save"}, NEW S, NEW m, NEW n, NEW x,
           Goes(t, p, S, m, n, x), job[t].at \notin {"persist", "save"}, NEW q \in Queues,
           writes' = Append(writes, [by |-> t, entries |-> q]),
           IF t = "retry" THEN p = "save" => q = queue' ELSE job["retry"].at = "off"
    PROVE  Written'
<1>1. job'[t].at = p /\ \A u \in Threads \ {t} : job'[u] = job[u]
  BY GoesFacts
<1>2. writes \in Seq(Writes) /\ Written
  BY DEF Inv, Records
<1>3. PICK k : k = Len(writes) + 1
  OBVIOUS
<1>4. /\ DOMAIN writes' = DOMAIN writes \cup {k} /\ k \notin DOMAIN writes
      /\ \A i \in DOMAIN writes : writes'[i] = writes[i]
      /\ writes'[k].by = t /\ writes'[k].entries = q
  BY <1>2, <1>3, AppendFacts
<1>5. \A i \in DOMAIN writes : writes[i].by \in Threads \ {t}
  BY NoWriteOf
<1>6. \A i \in DOMAIN writes' : job'[writes'[i].by].at \in {"persist", "save"}
  BY <1>1, <1>2, <1>4, <1>5 DEF Written
<1>7. \A i, j \in DOMAIN writes' : writes'[i].by = writes'[j].by => i = j
  BY <1>2, <1>4, <1>5 DEF Written
<1>8. job'["retry"].at = "save" => \A i \in DOMAIN writes' : writes'[i].by = "retry" => writes'[i].entries = queue'
  BY <1>1, <1>4, <1>5, RetryIsNoChain
<1>. QED  BY <1>6, <1>7, <1>8 DEF Written

\* ... a failed attempt among them ...
LEMMA FailWritten ==
    ASSUME CctpAssumption, Inv, NEW t \in Threads, job[t].at \in {"relay", "wait"}, Fail(t)
    PROVE  Written'
<1>1. Records /\ Holding /\ queue \in Queues
  BY DEF Inv, Records
<1>2. CASE Empties(t, Back(t)) /\ UNCHANGED <<queue, writes>>
  <2>1. Back(t) # "save"
    BY DEF Back
  <2>. QED  BY <1>2, <2>1, StayWritten DEF Empties
<1>3. ASSUME NEW n \in 1..MaxRetries, Enqueues(t, n)
      PROVE  Written'
  <2>1. queue' \in Queues
    BY <1>1, <1>3, FailFacts, AddedFacts DEF Enqueues
  <2>2. t # "retry" => job["retry"].at = "off"
    BY Resting DEF Threads, ScansDone
  <2>. QED  BY <1>3, <2>1, <2>2, AppendWritten DEF Enqueues, Empties
<1>. QED  BY <1>1, <1>2, <1>3, FailFacts

\* ... and a write that lands.
LEMMA LandWritten ==
    ASSUME CctpAssumption, Inv, LandWrite
    PROVE  Written'
<1>1. PICK t : t = writes[1].by
  OBVIOUS
<1>2. writes # << >> /\ t \in Threads
  BY <1>1, LandWriteEffect
<1>3. PICK p \in {"off", Back(t)} : /\ job'[t].at = p /\ \A u \in Threads \ {t} : job'[u] = job[u]
  BY <1>1, LandWriteEffect, GoesFacts DEF Empties
<1>4. /\ DOMAIN writes = 1..Len(writes) /\ Len(writes) \in Nat \ {0}
      /\ DOMAIN writes' = 1..(Len(writes) - 1)
      /\ \A i \in DOMAIN writes' : writes'[i] = writes[i + 1] /\ i + 1 \in DOMAIN writes
      /\ 1 \in DOMAIN writes
  BY <1>2, HeadFacts DEF LandWrite
<1>5. writes \in Seq(Writes) /\ Written
  BY DEF Inv, Records
<1>6. \A i \in DOMAIN writes' : writes'[i].by \in Threads \ {t}
  <2>1. ASSUME NEW i \in DOMAIN writes'
        PROVE  writes[i + 1] \in Writes /\ writes[i + 1].by # t
    <3>1. i + 1 # 1 /\ i + 1 \in 1..Len(writes)
      BY <1>4
    <3>. QED  BY <1>1, <1>4, <1>5, <3>1, ElementOfSeq DEF Written
  <2>. QED  BY <1>4, <2>1 DEF Writes
<1>7. \A i \in DOMAIN writes' : job'[writes'[i].by].at \in {"persist", "save"}
  BY <1>3, <1>4, <1>5, <1>6 DEF Written
<1>8. \A i, j \in DOMAIN writes' : writes'[i].by = writes'[j].by => i = j
  <2>1. ASSUME NEW i \in DOMAIN writes', NEW j \in DOMAIN writes', writes'[i].by = writes'[j].by
        PROVE  i = j
    <3>1. i + 1 = j + 1
      BY <1>4, <1>5, <2>1 DEF Written
    <3>. QED  BY <1>4, <3>1
  <2>. QED  BY <2>1
<1>9. ASSUME job'["retry"].at = "save"
      PROVE  \A i \in DOMAIN writes' : writes'[i].by = "retry" => writes'[i].entries = queue'
  <2>1. t # "retry" /\ job["retry"].at = "save"
    BY <1>3, <1>9, RetryIsNoChain DEF Back
  <2>2. queue' = queue
    BY DEF LandWrite, memory
  <2>. QED  BY <1>4, <1>5, <2>1, <2>2 DEF Written
<1>. QED  BY <1>7, <1>8, <1>9 DEF Written

\* Every step keeps Written.
LEMMA WrittenKept ==
    ASSUME CctpAssumption, Inv, Next
    PROVE  Written'
<1>. "retry" \in Threads /\ Chains \subseteq Threads /\ \A c \in Chains : c # "retry"
  BY RetryIsNoChain
<1>1. ASSUME writes' = << >>
      PROVE  Written'
  BY <1>1 DEF Written
<1>2. NextTick => writes = << >> /\ writes' = << >>
  <2>1. SUFFICES ASSUME NextTick, writes # << >>
                 PROVE  FALSE
    BY DEF NextTick
  <2>2. PICK t \in Threads : job[t].at \in {"persist", "save"}
    BY <2>1, HeadFacts
  <2>. QED  BY <2>1, <2>2 DEF NextTick, ScansDone, Threads
<1>3. ASSUME NEW due \in SUBSET Messages, StartRetries(due)
      PROVE  Written'
  BY <1>3, StartEffect, StayWritten DEF StartRetries
<1>4. ASSUME NEW m \in Messages, TakeReady(m)
      PROVE  Written'
  <2>1. job["retry"].at = "next" /\ writes' = writes
    BY <1>4 DEF TakeReady
  <2>. QED  BY <1>4, <2>1, TakeReadyEffect, StayWritten
<1>5. ASSUME EndRetries
      PROVE  Written'
  <2>1. queue' = queue /\ queue \in Queues
    BY <1>5, ThreadFacts DEF EndRetries, memory
  <2>. QED  BY <1>5, <2>1, EndEffect, AppendWritten
<1>6. ASSUME NEW c \in Chains, BeginScan(c) \/ ScanFails(c) \/ ScanChunk(c) \/ WriteCursor(c)
      PROVE  Written'
  <2>1. UNCHANGED <<queue, writes>> /\ job[c].at \notin {"persist", "save"}
    BY <1>6 DEF BeginScan, ScanFails, ScanChunk, WriteCursor, memory
  <2>2. ASSUME NEW p \in {"scan", "done", "log"}, NEW S, Scans(c, p, S)
        PROVE  Written'
    BY <2>1, <2>2, StayWritten DEF Scans
  <2>. QED  BY <1>6, <2>2, ScanEffects
<1>7. ASSUME NEW c \in Chains, NEW m \in Messages, TakeLog(c, m)
      PROVE  Written'
  <2>1. UNCHANGED <<queue, writes>> /\ job[c].at \notin {"persist", "save"}
    BY <1>7 DEF TakeLog
  <2>. QED  BY <1>7, <2>1, TakeLogEffect, StayWritten
<1>8. ASSUME NEW t \in Threads, Broadcast(t) \/ Mine(t)
      PROVE  Written'
  <2>1. UNCHANGED <<queue, writes>> /\ job[t].at \in {"relay", "wait"}
    BY <1>8, MineEffect DEF Broadcast, Mine, memory
  <2>2. PICK x : Goes(t, "wait", job[t].todo, job[t].msg, job[t].tries, x)
    BY <1>8, BroadcastEffect, MineEffect
  <2>. QED  BY <2>1, <2>2, StayWritten
<1>9. ASSUME NEW t \in Threads, AlreadyProcessed(t) \/ Confirmed(t)
      PROVE  Written'
  <2>1. UNCHANGED <<queue, writes>> /\ job[t].at \in {"relay", "wait"} /\ Resume(t) /\ Back(t) # "save"
    BY <1>9 DEF AlreadyProcessed, Confirmed, Back
  <2>2. Empties(t, Back(t))
    BY <2>1, ThreadFacts, ResumeGoes
  <2>. QED  BY <2>1, <2>2, StayWritten DEF Empties
<1>10. ASSUME NEW t \in Threads, BroadcastFails(t) \/ WaitFails(t)
       PROVE  Written'
  BY <1>10, FailWritten DEF BroadcastFails, WaitFails
<1>11. ASSUME UNCHANGED <<job, queue, writes>>
       PROVE  Written'
  BY <1>11 DEF Inv, Written
<1>12. /\ SaveStatus \/ (\E c \in Chains : NewBlock(c)) \/ (\E m \in Messages : MineStray(m))
             => UNCHANGED <<job, queue, writes>>
       /\ Restart => writes' = << >>
  BY DEF SaveStatus, NewBlock, MineStray, Restart, memory
<1>. QED  BY <1>1, <1>2, <1>3, <1>4, <1>5, <1>6, <1>7, <1>8, <1>9, <1>10, <1>11, <1>12, LandWritten
          DEF Next, Loop, RetryStep, ScanStep, Attempt

-----------------------------------------------------------------------------
(* Types *)

\* A failed attempt keeps the types.
LEMMA FailTypes ==
    ASSUME CctpAssumption, Inv, NEW t \in Threads, job[t].at \in {"relay", "wait"}, Fail(t)
    PROVE  /\ job' \in [Threads -> Jobs] /\ queue' \in Queues /\ writes' \in Seq(Writes)
           /\ spent' \subseteq Messages /\ UNCHANGED <<dead, processed, status>>
<1>1. Records /\ Holding /\ queue \in Queues /\ writes \in Seq(Writes) /\ spent \subseteq Messages
  BY DEF Inv, Records
<1>2. job[t].msg \in Messages /\ UNCHANGED <<dead, processed, status>> /\ spent' \subseteq Messages
  BY <1>1, FailFacts
<1>3. CASE Empties(t, Back(t)) /\ UNCHANGED <<queue, writes>>
  BY <1>1, <1>2, <1>3, GoesFacts DEF Empties
<1>4. ASSUME NEW n \in 1..MaxRetries, Enqueues(t, n)
      PROVE  job' \in [Threads -> Jobs] /\ queue' \in Queues /\ writes' \in Seq(Writes)
  <2>1. queue' \in Queues
    BY <1>1, <1>2, <1>4, AddedFacts DEF Enqueues
  <2>2. writes' \in Seq(Writes)
    BY <1>1, <1>4, <2>1, AppendFacts DEF Enqueues
  <2>. QED  BY <1>4, <2>1, <2>2, GoesFacts DEF Enqueues, Empties
<1>. QED  BY <1>1, <1>2, <1>3, <1>4, FailFacts

\* Threads, queue and writes keep their types.
LEMMA MemoryKept ==
    ASSUME CctpAssumption, Inv, Next
    PROVE  job' \in [Threads -> Jobs] /\ queue' \in Queues /\ writes' \in Seq(Writes)
<1>. "retry" \in Threads /\ Chains \subseteq Threads
  BY RetryIsNoChain
<1>. queue \in Queues /\ writes \in Seq(Writes) /\ file.queue \in Queues /\ job \in [Threads -> Jobs]
  BY DEF Inv, Records, Files
<1>. DEFINE Typed == job' \in [Threads -> Jobs] /\ queue' \in Queues /\ writes' \in Seq(Writes)
<1>1. ASSUME LandWrite
      PROVE  Typed
  <2>1. PICK t : t = writes[1].by
    OBVIOUS
  <2>2. job' \in [Threads -> Jobs]
    BY <1>1, <2>1, LandWriteEffect, GoesFacts DEF Empties
  <2>3. writes' \in Seq(Writes) /\ queue' = queue
    BY <1>1, HeadFacts DEF LandWrite, memory
  <2>. QED  BY <2>2, <2>3
<1>2. ASSUME Fresh, UNCHANGED <<queue, writes>> \/ (queue' = file.queue /\ writes' = << >>)
      PROVE  Typed
  <2>1. << >> \in Seq(Writes)
    OBVIOUS
  <2>. QED  BY <1>2, <2>1, FreshFacts
<1>3. ASSUME NEW due \in SUBSET Messages, StartRetries(due)
      PROVE  Typed
  BY <1>3, StartEffect, GoesFacts DEF StartRetries, memory
<1>4. ASSUME NEW m \in Messages, TakeReady(m)
      PROVE  Typed
  <2>1. queue' \in Queues
    BY <1>4, TakeReadyEffect, RemovedFacts
  <2>. QED  BY <1>4, <2>1, TakeReadyEffect, GoesFacts DEF TakeReady
<1>5. ASSUME EndRetries
      PROVE  Typed
  <2>1. writes' \in Seq(Writes)
    BY <1>5, EndEffect, AppendFacts
  <2>. QED  BY <1>5, <2>1, EndEffect, GoesFacts DEF EndRetries, memory
<1>6. ASSUME NEW c \in Chains, BeginScan(c) \/ ScanFails(c) \/ ScanChunk(c) \/ WriteCursor(c)
      PROVE  Typed
  <2>1. job' \in [Threads -> Jobs]
    BY <1>6, ScanEffects, GoesFacts DEF Scans
  <2>. QED  BY <1>6, <2>1 DEF BeginScan, ScanFails, ScanChunk, WriteCursor, memory
<1>7. ASSUME NEW c \in Chains, NEW m \in Messages, TakeLog(c, m)
      PROVE  Typed
  BY <1>7, TakeLogEffect, GoesFacts DEF TakeLog
<1>8. ASSUME NEW t \in Threads, Broadcast(t) \/ Mine(t)
      PROVE  Typed
  BY <1>8, BroadcastEffect, MineEffect, GoesFacts DEF Broadcast, Mine, memory
<1>9. ASSUME NEW t \in Threads, AlreadyProcessed(t) \/ Confirmed(t)
      PROVE  Typed
  <2>1. Resume(t) /\ UNCHANGED <<queue, writes>>
    BY <1>9 DEF AlreadyProcessed, Confirmed
  <2>. QED  BY <2>1, ResumeGoes, GoesFacts DEF Empties
<1>10. ASSUME NEW t \in Threads, BroadcastFails(t) \/ WaitFails(t)
       PROVE  Typed
  BY <1>10, FailTypes DEF BroadcastFails, WaitFails
<1>11. SaveStatus \/ (\E c \in Chains : NewBlock(c)) \/ (\E m \in Messages : MineStray(m)) => Typed
  BY DEF SaveStatus, NewBlock, MineStray, memory
<1>12. /\ NextTick => Fresh /\ UNCHANGED <<queue, writes>>
       /\ Restart => Fresh /\ queue' = file.queue /\ writes' = << >>
  BY DEF NextTick, Restart, Fresh, memory
<1>. HIDE DEF Typed
<1>13. Typed
  BY <1>1, <1>2, <1>3, <1>4, <1>5, <1>6, <1>7, <1>8, <1>9, <1>10, <1>11, <1>12
     DEF Next, Loop, RetryStep, ScanStep, Attempt
<1>. QED  BY <1>13 DEF Typed

\* The blocks a scan covers.
LEMMA ChunkFacts ==
    ASSUME CctpAssumption, Inv, NEW c \in Chains
    PROVE  /\ {head[c], cursor[c], scanTo[c], ChunkEnd(c), BootCursor(c)} \subseteq 0..Blocks
           /\ Blocks \in Nat
<1>1. head[c] \in 0..Blocks /\ cursor[c] \in 0..Blocks /\ scanTo[c] \in 0..Blocks /\ Blocks \in Nat
  BY DEF Inv, TypeOK, CctpAssumption
<1>2. ChunkEnd(c) \in 0..Blocks
  BY <1>1 DEF ChunkEnd, CctpAssumption
<1>3. file.cursor[c] \in 0..Blocks \cup {NoCursor} /\ NoCursor \notin Nat /\ BootLookback \in Nat
  BY DEF Inv, Records, Files, CctpAssumption
<1>4. BootCursor(c) \in 0..Blocks
  BY <1>1, <1>3 DEF BootCursor
<1>. QED  BY <1>1, <1>2, <1>4

\* What a step does to the files.
LEMMA FileStep ==
    ASSUME CctpAssumption, Inv, Next
    PROVE  /\ file' \in Files
           /\ LandWrite \/ (\E c \in Chains : WriteCursor(c)) \/ SaveStatus \/ UNCHANGED file
           /\ ~(\E c \in Chains : WriteCursor(c)) => file'.cursor = file.cursor
           /\ file'.status = file.status \/ file'.status = status
           /\ file'.queue = file.queue \/ LandWrite
<1>. file \in Files /\ status \in Statuses
  BY DEF Inv, Records, TypeOK, Statuses
<1>1. ASSUME LandWrite
      PROVE  file' \in Files /\ file'.status = file.status /\ file'.cursor = file.cursor
  <2>1. Head(writes).entries \in Queues
    BY <1>1, HeadFacts DEF LandWrite
  <2>. QED  BY <1>1, <2>1 DEF LandWrite, Files
<1>2. ASSUME NEW c \in Chains, WriteCursor(c)
      PROVE  file' \in Files /\ file'.status = file.status /\ file'.queue = file.queue
  <2>1. ChunkEnd(c) \in 0..Blocks \cup {NoCursor}
    BY ChunkFacts
  <2>2. PICK b : b = ChunkEnd(c)
    OBVIOUS
  <2>3. file' = file \/ file' = [file EXCEPT !.cursor[c] = b]
    BY <1>2, <2>2 DEF WriteCursor
  <2>. QED  BY <2>1, <2>2, <2>3 DEF Files
<1>3. ASSUME SaveStatus
      PROVE  file' \in Files /\ file'.status = status /\ file'.queue = file.queue /\ file'.cursor = file.cursor
  BY <1>3 DEF SaveStatus, Files
<1>4. LandWrite \/ (\E c \in Chains : WriteCursor(c)) \/ SaveStatus \/ UNCHANGED file
  <2>1. ASSUME NEW t \in Threads, Attempt(t)
        PROVE  UNCHANGED file
    BY <2>1 DEF Attempt, Broadcast, AlreadyProcessed, BroadcastFails, Confirmed, WaitFails
  <2>2. ASSUME NEW c \in Chains, ScanStep(c)
        PROVE  WriteCursor(c) \/ UNCHANGED file
    BY <2>2 DEF ScanStep, BeginScan, ScanFails, ScanChunk, TakeLog
  <2>3. RetryStep \/ NextTick \/ Restart => UNCHANGED file
    BY DEF RetryStep, StartRetries, TakeReady, EndRetries, NextTick, Restart
  <2>4. (\E c \in Chains : NewBlock(c)) \/ (\E t \in Threads : Mine(t)) \/ (\E m \in Messages : MineStray(m))
            => UNCHANGED file
    BY DEF NewBlock, Mine, MineStray
  <2>. QED  BY <2>1, <2>2, <2>3, <2>4 DEF Next, Loop
<1>. QED  BY <1>1, <1>2, <1>3, <1>4

\* What a step does to the messages counted as relayed.
LEMMA ProcessedStep ==
    ASSUME CctpAssumption, Inv, Next
    PROVE  \/ UNCHANGED processed \/ processed' = [c \in Chains |-> << >>]
           \/ \E t \in Threads : /\ AlreadyProcessed(t) \/ Confirmed(t)
                                 /\ job[t].msg \in Messages /\ MarkProcessed(job[t].msg)
<1>1. ASSUME NEW t \in Threads, BroadcastFails(t) \/ WaitFails(t)
      PROVE  UNCHANGED processed
  BY <1>1, FailTypes DEF BroadcastFails, WaitFails
<1>2. ASSUME NEW t \in Threads, AlreadyProcessed(t) \/ Confirmed(t)
      PROVE  job[t].msg \in Messages /\ MarkProcessed(job[t].msg)
  BY <1>2, ThreadFacts DEF AlreadyProcessed, Confirmed
<1>3. ASSUME NEW t \in Threads, Broadcast(t) \/ Mine(t)
      PROVE  UNCHANGED processed
  BY <1>3 DEF Broadcast, Mine, memory
<1>4. ASSUME NEW c \in Chains, ScanStep(c) \/ NewBlock(c)
      PROVE  UNCHANGED processed
  BY <1>4 DEF ScanStep, BeginScan, ScanFails, ScanChunk, TakeLog, WriteCursor, NewBlock, memory
<1>5. LandWrite \/ NextTick \/ RetryStep \/ SaveStatus \/ (\E m \in Messages : MineStray(m)) => UNCHANGED processed
  BY DEF LandWrite, NextTick, RetryStep, StartRetries, TakeReady, EndRetries, SaveStatus, MineStray, memory
<1>6. Restart => processed' = [c \in Chains |-> << >>]
  BY DEF Restart
<1>. QED  BY <1>1, <1>2, <1>3, <1>4, <1>5, <1>6 DEF Next, Loop, Attempt

\* The messages counted as relayed keep their type and their cap.
LEMMA ProcessedKept ==
    ASSUME CctpAssumption, Inv, Next
    PROVE  /\ processed' \in [Chains -> Seq(Messages)]
           /\ \A c \in Chains : Len(processed'[c]) <= ProcessedCap
<1>1. /\ processed \in [Chains -> Seq(Messages)] /\ ProcessedCap \in Nat
      /\ \A c \in Chains : Len(processed[c]) <= ProcessedCap
  BY DEF Inv, Records, TypeOK, CctpAssumption
<1>2. ASSUME processed' = [c \in Chains |-> << >>]
      PROVE  processed' \in [Chains -> Seq(Messages)] /\ \A c \in Chains : Len(processed'[c]) <= ProcessedCap
  <2>1. << >> \in Seq(Messages) /\ Len(<< >>) = 0
    OBVIOUS
  <2>. QED  BY <1>1, <1>2, <2>1
<1>. QED  BY <1>1, <1>2, ProcessedStep, MarkFacts

\* A message whose retries are used up stays so.
LEMMA SpentKept ==
    ASSUME CctpAssumption, Inv, Next
    PROVE  spent \subseteq spent' /\ spent' \subseteq Messages
<1>1. spent \subseteq Messages
  BY DEF Inv, Records
<1>2. ASSUME NEW t \in Threads, BroadcastFails(t) \/ WaitFails(t)
      PROVE  spent \subseteq spent' /\ spent' \subseteq Messages
  <2>1. job[t].at \in {"relay", "wait"} /\ Fail(t) /\ Records /\ Holding
    BY <1>2 DEF BroadcastFails, WaitFails, Inv
  <2>. QED  BY <1>1, <2>1, FailFacts
<1>3. ASSUME NEW t \in Threads, Broadcast(t) \/ Mine(t) \/ AlreadyProcessed(t) \/ Confirmed(t)
      PROVE  UNCHANGED spent
  BY <1>3 DEF Broadcast, Mine, AlreadyProcessed, Confirmed
<1>4. ASSUME NEW c \in Chains, ScanStep(c) \/ NewBlock(c)
      PROVE  UNCHANGED spent
  BY <1>4 DEF ScanStep, BeginScan, ScanFails, ScanChunk, TakeLog, WriteCursor, NewBlock
<1>5. LandWrite \/ NextTick \/ RetryStep \/ SaveStatus \/ Restart \/ (\E m \in Messages : MineStray(m))
          => UNCHANGED spent
  BY DEF LandWrite, NextTick, RetryStep, StartRetries, TakeReady, EndRetries, SaveStatus, Restart, MineStray
<1>. QED  BY <1>1, <1>2, <1>3, <1>4, <1>5 DEF Next, Loop, Attempt

\* What a step does to the delivery index.
LEMMA StatusStep ==
    ASSUME CctpAssumption, Inv, Next
    PROVE  \/ UNCHANGED status
           \/ Restart /\ status' = file.status
           \/ \E c \in Chains, m \in Messages :
                 TakeLog(c, m) /\ status' = [status EXCEPT ![m] = IF @ = "unknown" THEN "pending" ELSE @]
           \/ \E t \in Threads : /\ Confirmed(t) /\ job[t].msg \in Messages
                                 /\ status' = [status EXCEPT ![job[t].msg] = "delivered"]
<1>1. ASSUME NEW t \in Threads, BroadcastFails(t) \/ WaitFails(t)
      PROVE  UNCHANGED status
  BY <1>1, FailTypes DEF BroadcastFails, WaitFails
<1>2. ASSUME NEW t \in Threads, Confirmed(t)
      PROVE  job[t].msg \in Messages /\ status' = [status EXCEPT ![job[t].msg] = "delivered"]
  BY <1>2, ThreadFacts DEF Confirmed
<1>3. ASSUME NEW t \in Threads, Broadcast(t) \/ Mine(t) \/ AlreadyProcessed(t)
      PROVE  UNCHANGED status
  BY <1>3 DEF Broadcast, Mine, AlreadyProcessed, memory
<1>4. ASSUME NEW c \in Chains, NEW m \in Messages, TakeLog(c, m)
      PROVE  UNCHANGED status \/ status' = [status EXCEPT ![m] = IF @ = "unknown" THEN "pending" ELSE @]
  BY <1>4, TakeLogEffect
<1>5. ASSUME NEW c \in Chains, BeginScan(c) \/ ScanFails(c) \/ ScanChunk(c) \/ WriteCursor(c) \/ NewBlock(c)
      PROVE  UNCHANGED status
  BY <1>5 DEF BeginScan, ScanFails, ScanChunk, WriteCursor, NewBlock, memory
<1>6. LandWrite \/ NextTick \/ RetryStep \/ SaveStatus \/ (\E m \in Messages : MineStray(m)) => UNCHANGED status
  BY DEF LandWrite, NextTick, RetryStep, StartRetries, TakeReady, EndRetries, SaveStatus, MineStray, memory
<1>7. Restart => status' = file.status
  BY DEF Restart
<1>. QED  BY <1>1, <1>2, <1>3, <1>4, <1>5, <1>6, <1>7 DEF Next, Loop, Attempt, ScanStep

\* The delivery index keeps its type.
LEMMA StatusKept ==
    ASSUME CctpAssumption, Inv, Next
    PROVE  status' \in Statuses
<1>1. status \in Statuses /\ file.status \in Statuses
  BY DEF Inv, TypeOK, Records, Statuses, Files
<1>2. ASSUME NEW m \in Messages, NEW x \in {"unknown", "pending", "delivered", "failed"}
      PROVE  [status EXCEPT ![m] = x] \in Statuses
  BY <1>1 DEF Statuses
<1>3. ASSUME NEW m \in Messages
      PROVE  [status EXCEPT ![m] = IF @ = "unknown" THEN "pending" ELSE @] \in Statuses
  BY <1>1 DEF Statuses
<1>. QED  BY <1>1, <1>2, <1>3, StatusStep

\* What a step does to the mints.
LEMMA MintStep ==
    ASSUME CctpAssumption, Inv, Next
    PROVE  minted \subseteq minted' /\ minted' \subseteq Messages /\ stray' \subseteq Messages
<1>1. minted \subseteq Messages /\ stray \subseteq Messages
  BY DEF Inv, TypeOK
<1>2. ASSUME NEW t \in Threads, BroadcastFails(t) \/ WaitFails(t)
      PROVE  minted' = minted /\ stray' \subseteq Messages
  <2>1. job[t].msg \in Messages
    BY <1>2, ThreadFacts DEF BroadcastFails, WaitFails
  <2>. QED  BY <1>1, <1>2, <2>1 DEF BroadcastFails, WaitFails
<1>3. ASSUME NEW t \in Threads, Broadcast(t) \/ AlreadyProcessed(t) \/ Confirmed(t)
      PROVE  UNCHANGED <<minted, stray>>
  BY <1>3 DEF Broadcast, AlreadyProcessed, Confirmed, outside
<1>4. ASSUME NEW c \in Chains, ScanStep(c) \/ NewBlock(c)
      PROVE  UNCHANGED <<minted, stray>>
  BY <1>4 DEF ScanStep, BeginScan, ScanFails, ScanChunk, TakeLog, WriteCursor, NewBlock, outside
<1>5. LandWrite \/ NextTick \/ RetryStep \/ SaveStatus => UNCHANGED <<minted, stray>>
  BY DEF LandWrite, NextTick, RetryStep, StartRetries, TakeReady, EndRetries, SaveStatus, outside
<1>6. ASSUME Restart
      PROVE  minted' = minted /\ stray' \subseteq Messages
  <2>1. \A t \in Threads : job[t].tx = "pooled" => job[t].msg \in Messages
    <3>1. SUFFICES ASSUME NEW t \in Threads, job[t].tx = "pooled"
                   PROVE  job[t].msg \in Messages
      OBVIOUS
    <3>2. job[t].at = "wait"
      BY <3>1, ThreadFacts DEF Stance, Fits
    <3>. QED  BY <3>2, ThreadFacts
  <2>2. stray' = stray \cup {job[t].msg : t \in {u \in Threads : job[u].tx = "pooled"}} /\ minted' = minted
    BY <1>6 DEF Restart
  <2>3. {job[t].msg : t \in {u \in Threads : job[u].tx = "pooled"}} \subseteq Messages
    BY <2>1
  <2>. QED  BY <1>1, <2>2, <2>3
<1>7. ASSUME NEW t \in Threads, Mine(t)
      PROVE  minted \subseteq minted' /\ minted' \subseteq Messages /\ stray' = stray
  BY <1>1, <1>7, MineEffect DEF Mine
<1>8. ASSUME NEW m \in Messages, MineStray(m)
      PROVE  minted \subseteq minted' /\ minted' \subseteq Messages /\ stray' \subseteq Messages
  BY <1>1, <1>8 DEF MineStray
<1>. QED  BY <1>1, <1>2, <1>3, <1>4, <1>5, <1>6, <1>7, <1>8 DEF Next, Loop, Attempt

\* The heights keep their types.
LEMMA HeightsKept ==
    ASSUME CctpAssumption, Inv, Next
    PROVE  /\ head' \in [Chains -> 0..Blocks] /\ cursor' \in [Chains -> 0..Blocks]
           /\ scanTo' \in [Chains -> 0..Blocks]
<1>1. head \in [Chains -> 0..Blocks] /\ cursor \in [Chains -> 0..Blocks] /\ scanTo \in [Chains -> 0..Blocks]
  BY DEF Inv, TypeOK
<1>2. ASSUME NEW t \in Threads, Attempt(t) \/ Mine(t)
      PROVE  UNCHANGED <<head, cursor, scanTo>>
  BY <1>2 DEF Attempt, Broadcast, AlreadyProcessed, Confirmed, BroadcastFails, WaitFails, Mine, outside, memory
<1>3. LandWrite \/ NextTick \/ RetryStep \/ SaveStatus \/ (\E m \in Messages : MineStray(m))
          => UNCHANGED <<head, cursor, scanTo>>
  BY DEF LandWrite, NextTick, RetryStep, StartRetries, TakeReady, EndRetries, SaveStatus, MineStray, outside, memory
<1>4. ASSUME NEW c \in Chains, ScanStep(c)
      PROVE  /\ head' = head
             /\ scanTo' = scanTo \/ scanTo' = [scanTo EXCEPT ![c] = head[c]]
             /\ cursor' = cursor \/ cursor' = [cursor EXCEPT ![c] = ChunkEnd(c)]
  BY <1>4 DEF ScanStep, BeginScan, ScanFails, ScanChunk, TakeLog, WriteCursor, outside, memory
<1>5. ASSUME NEW c \in Chains, NewBlock(c)
      PROVE  UNCHANGED <<cursor, scanTo>> /\ head' \in [Chains -> 0..Blocks]
  <2>1. head[c] + 1 \in 0..Blocks
    BY <1>1, <1>5, ChunkFacts DEF NewBlock
  <2>. QED  BY <1>1, <1>5, <2>1 DEF NewBlock, memory
<1>6. ASSUME Restart
      PROVE  /\ head' = head /\ cursor' \in [Chains -> 0..Blocks] /\ scanTo' \in [Chains -> 0..Blocks]
  <2>1. \A c \in Chains : BootCursor(c) \in 0..Blocks
    BY ChunkFacts
  <2>2. 0 \in 0..Blocks
    BY DEF CctpAssumption
  <2>. QED  BY <1>6, <2>1, <2>2 DEF Restart
<1>7. \A c \in Chains : head[c] \in 0..Blocks /\ ChunkEnd(c) \in 0..Blocks
  BY ChunkFacts
<1>8. ASSUME NEW c \in Chains, ScanStep(c)
      PROVE  /\ head' \in [Chains -> 0..Blocks] /\ cursor' \in [Chains -> 0..Blocks]
             /\ scanTo' \in [Chains -> 0..Blocks]
  BY <1>1, <1>4, <1>7, <1>8
<1>. QED  BY <1>1, <1>2, <1>3, <1>5, <1>6, <1>8 DEF Next, Loop

\* The invariant holds at the start.
LEMMA InvInit ==
    ASSUME CctpAssumption, Init
    PROVE  Inv
<1>1. /\ 0 \in 0..Blocks /\ {"off", "poll"} \subseteq Awaits /\ << >> \in Seq(Messages) /\ << >> \in Seq(Writes)
      /\ Len(<< >>) = 0 /\ ProcessedCap \in Nat \ {0}
  BY DEF CctpAssumption, Awaits
<1>2. << >> \in Queues /\ DOMAIN << >> = {}
  <2>1. << >> \in [{} -> 1..MaxRetries]
    OBVIOUS
  <2>. QED  BY <2>1, QueueIntro
<1>3. \A t \in Threads : /\ job[t] \in Jobs /\ job[t].at = IF t = "retry" THEN "off" ELSE "poll"
                         /\ job[t].todo = {} /\ job[t].msg = NoMessage /\ job[t].tx = "none"
  <2>1. \A p \in Awaits : /\ Idle(p) \in Jobs /\ Idle(p).at = p /\ Idle(p).todo = {}
                          /\ Idle(p).msg = NoMessage /\ Idle(p).tx = "none"
    BY DEF Idle, Jobs, CctpAssumption
  <2>2. \A t \in Threads : /\ job[t] = Idle(IF t = "retry" THEN "off" ELSE "poll")
                           /\ (IF t = "retry" THEN "off" ELSE "poll") \in Awaits
    BY <1>1 DEF Init
  <2>. QED  BY <2>1, <2>2
<1>4. job \in [Threads -> Jobs]
  BY <1>3 DEF Init
<1>5. status \in Statuses
  BY DEF Init, Statuses
<1>6. file \in Files
  BY <1>2, <1>5 DEF Init, Files
<1>7. Records
  BY <1>1, <1>2, <1>4, <1>6 DEF Init, Records
<1>8. TypeOK
  <2>1. /\ head \in [Chains -> 0..Blocks] /\ cursor \in [Chains -> 0..Blocks] /\ scanTo \in [Chains -> 0..Blocks]
        /\ minted \subseteq Messages /\ stray \subseteq Messages /\ faults \in FaultSets /\ Queued = {}
    BY <1>1, <1>2 DEF Init, Queued
  <2>2. \A c \in Chains : processed[c] \in Seq(Messages) /\ Len(processed[c]) <= ProcessedCap
    BY <1>1 DEF Init
  <2>3. \A t \in Threads :
        /\ job[t].at \in Awaits /\ job[t].todo \in SUBSET Messages /\ job[t].msg \in Messages \cup {NoMessage}
        /\ job[t].tries \in 0..MaxRetries /\ job[t].tx \in {"none", "pooled", "ok", "reverted"}
    BY <1>3, JobParts
  <2>. QED  BY <1>5, <2>1, <2>2, <2>3 DEF TypeOK, Statuses, Awaits
<1>9. Holding
  BY <1>3, RetryIsNoChain DEF Holding, Stance, Fits
<1>10. Written
  BY DEF Init, Written
<1>. QED  BY <1>7, <1>8, <1>9, <1>10 DEF Inv

\* Every step keeps the invariant.
LEMMA InvKept ==
    ASSUME CctpAssumption, Inv, [Next]_vars
    PROVE  Inv'
<1>1. ASSUME UNCHANGED vars
      PROVE  Inv'
  BY <1>1 DEF vars, outside, memory, Inv, TypeOK, Records, Holding, Stance, Written, ScansDone, Queued
<1>2. ASSUME Next
      PROVE  Inv'
  <2>1. Records'
    BY <1>2, MemoryKept, FileStep, ProcessedKept, SpentKept DEF Records
  <2>2. TypeOK'
    <3>1. \A t \in Threads : job'[t] \in Jobs
      BY <2>1 DEF Records
    <3>2. \A t \in Threads :
        /\ job'[t].at \in Awaits /\ job'[t].todo \in SUBSET Messages /\ job'[t].msg \in Messages \cup {NoMessage}
        /\ job'[t].tries \in 0..MaxRetries /\ job'[t].tx \in {"none", "pooled", "ok", "reverted"}
      BY <3>1, JobParts
    <3>3. DOMAIN queue' \subseteq Messages /\ \A m \in DOMAIN queue' : queue'[m] \in 1..MaxRetries
      BY <2>1, QueueFacts DEF Records
    <3>4. status' \in Statuses
      BY <1>2, StatusKept
    <3>5. \A c \in Chains : processed'[c] \in Seq(Messages) /\ Len(processed'[c]) <= ProcessedCap
      BY <1>2, ProcessedKept
    <3>6. faults' \in FaultSets
      BY <1>2 DEF Next, Inv, TypeOK
    <3>7. /\ head' \in [Chains -> 0..Blocks] /\ cursor' \in [Chains -> 0..Blocks]
          /\ scanTo' \in [Chains -> 0..Blocks] /\ minted' \subseteq Messages /\ stray' \subseteq Messages
      BY <1>2, HeightsKept, MintStep
    <3>. QED  BY <3>2, <3>3, <3>4, <3>5, <3>6, <3>7 DEF TypeOK, Statuses, Awaits, Queued
  <2>. QED  BY <1>2, <2>1, <2>2, HoldingKept, WrittenKept DEF Inv
<1>. QED  BY <1>1, <1>2

-----------------------------------------------------------------------------
(* What is said to be minted *)

\* The thread that moves, if one does, and the state of its transaction.
Sends(t, x) == /\ job'[t].tx = x /\ \A u \in Threads \ {t} : job'[u] = job[u]
               /\ x = "ok" => job'[t].msg \in minted'

\* A step moves one thread at most, or starts all of them over.
LEMMA SendStep ==
    ASSUME CctpAssumption, Inv, Next
    PROVE  UNCHANGED job \/ Fresh \/ \E t \in Threads, x \in {"none", "pooled", "reverted", "ok"} : Sends(t, x)
<1>. "retry" \in Threads /\ Chains \subseteq Threads
  BY RetryIsNoChain
<1>1. ASSUME NEW t \in Threads, NEW p, NEW S, NEW m, NEW n, NEW x \in {"none", "pooled", "reverted"},
             Goes(t, p, S, m, n, x)
      PROVE  \E u \in Threads, y \in {"none", "pooled", "reverted", "ok"} : Sends(u, y)
  <2>1. Sends(t, x)
    BY <1>1, GoesFacts DEF Sends
  <2>. QED  BY <2>1
<1>. DEFINE Shown == UNCHANGED job \/ Fresh
                     \/ \E t \in Threads, x \in {"none", "pooled", "reverted", "ok"} : Sends(t, x)
<1>2. ASSUME LandWrite
      PROVE  Shown
  <2>1. PICK t : t = writes[1].by
    OBVIOUS
  <2>2. t \in Threads
    BY <1>2, <2>1, LandWriteEffect
  <2>. QED  BY <1>1, <1>2, <2>1, <2>2, LandWriteEffect DEF Empties
<1>3. ASSUME NEW due \in SUBSET Messages, StartRetries(due)
      PROVE  Shown
  BY <1>1, <1>3, StartEffect
<1>4. ASSUME NEW m \in Messages, TakeReady(m)
      PROVE  Shown
  BY <1>1, <1>4, TakeReadyEffect
<1>5. ASSUME EndRetries
      PROVE  Shown
  BY <1>1, <1>5, EndEffect
<1>6. ASSUME NEW c \in Chains, BeginScan(c) \/ ScanFails(c) \/ ScanChunk(c) \/ WriteCursor(c)
      PROVE  Shown
  BY <1>1, <1>6, ScanEffects DEF Scans
<1>7. ASSUME NEW c \in Chains, NEW m \in Messages, TakeLog(c, m)
      PROVE  Shown
  BY <1>1, <1>7, TakeLogEffect
<1>8. ASSUME NEW t \in Threads, Broadcast(t)
      PROVE  Shown
  BY <1>1, <1>8, BroadcastEffect
<1>9. ASSUME NEW t \in Threads, AlreadyProcessed(t) \/ Confirmed(t)
      PROVE  Shown
  <2>1. Empties(t, Back(t))
    BY <1>9, ThreadFacts, ResumeGoes DEF AlreadyProcessed, Confirmed
  <2>. QED  BY <1>1, <2>1 DEF Empties
<1>10. ASSUME NEW t \in Threads, BroadcastFails(t) \/ WaitFails(t)
       PROVE  Shown
  <2>1. job[t].at \in {"relay", "wait"} /\ Fail(t) /\ Records /\ Holding
    BY <1>10 DEF BroadcastFails, WaitFails, Inv
  <2>2. \E p : Empties(t, p)
    BY <2>1, FailFacts DEF Enqueues
  <2>. QED  BY <1>1, <2>2 DEF Empties
<1>11. ASSUME NEW t \in Threads, Mine(t)
       PROVE  Shown
  <2>1. CASE /\ Goes(t, "wait", job[t].todo, job[t].msg, job[t].tries, "ok")
             /\ minted' = minted \cup {job[t].msg}
    <3>1. Sends(t, "ok")
      BY <2>1, GoesFacts DEF Sends
    <3>. QED  BY <3>1
  <2>2. CASE Goes(t, "wait", job[t].todo, job[t].msg, job[t].tries, "reverted")
    BY <1>1, <2>2
  <2>. QED  BY <1>11, <2>1, <2>2, MineEffect
<1>12. NextTick \/ Restart => Fresh
  BY DEF NextTick, Restart, Fresh
<1>13. SaveStatus \/ (\E c \in Chains : NewBlock(c)) \/ (\E m \in Messages : MineStray(m)) => UNCHANGED job
  BY DEF SaveStatus, NewBlock, MineStray
<1>. QED  BY <1>2, <1>3, <1>4, <1>5, <1>6, <1>7, <1>8, <1>9, <1>10, <1>11, <1>12, <1>13
          DEF Next, Loop, RetryStep, ScanStep, Attempt

\* Nothing is said to be minted at the start.
LEMMA TruthfulInit ==
    ASSUME CctpAssumption, Init
    PROVE  Truthful
<1>1. \A t \in Threads : job[t].tx = "none"
  BY DEF Init, Idle
<1>2. \A m \in Messages : ~Processed(m)
  BY DEF Init, Processed, CctpAssumption
<1>. QED  BY <1>1, <1>2 DEF Init, Truthful, ProcessedIsMinted, StatusIsTrue

\* No step says minted what is not.
LEMMA TruthfulKept ==
    ASSUME CctpAssumption, Inv, Truthful, [Next]_vars
    PROVE  Truthful'
<1>1. ASSUME UNCHANGED vars
      PROVE  Truthful'
  BY <1>1 DEF vars, outside, memory, Truthful, ProcessedIsMinted, StatusIsTrue, Processed
<1>2. ASSUME Next
      PROVE  Truthful'
  <2>1. minted \subseteq minted'
    BY <1>2, MintStep
  <2>2. \A t \in Threads : job'[t].tx = "ok" => job'[t].msg \in minted'
    <3>1. CASE UNCHANGED job
      BY <2>1, <3>1 DEF Truthful
    <3>2. CASE Fresh
      BY <3>2, FreshFacts
    <3>3. CASE \E t \in Threads, x \in {"none", "pooled", "reverted", "ok"} : Sends(t, x)
      BY <2>1, <3>3 DEF Truthful, Sends
    <3>. QED  BY <1>2, <3>1, <3>2, <3>3, SendStep
  <2>3. ProcessedIsMinted'
    <3>1. CASE UNCHANGED processed
      BY <2>1, <3>1 DEF Truthful, ProcessedIsMinted, Processed
    <3>2. CASE processed' = [c \in Chains |-> << >>]
      BY <3>2 DEF ProcessedIsMinted, Processed, CctpAssumption
    <3>3. ASSUME NEW t \in Threads, AlreadyProcessed(t) \/ Confirmed(t), job[t].msg \in Messages,
                 MarkProcessed(job[t].msg)
          PROVE  ProcessedIsMinted'
      <4>1. job[t].msg \in minted
        BY <3>3 DEF AlreadyProcessed, Confirmed, Truthful
      <4>2. processed \in [Chains -> Seq(Messages)] /\ \A c \in Chains : Len(processed[c]) <= ProcessedCap
        BY DEF Inv, Records, TypeOK
      <4>3. \A k \in Messages : Processed(k)' => Processed(k) \/ k = job[t].msg
        BY <3>3, <4>2, MarkFacts
      <4>. QED  BY <2>1, <4>1, <4>3 DEF Truthful, ProcessedIsMinted
    <3>. QED  BY <1>2, <3>1, <3>2, <3>3, ProcessedStep
  <2>4. StatusIsTrue'
    <3>1. CASE UNCHANGED status \/ status' = file.status
      BY <2>1, <3>1 DEF Truthful, StatusIsTrue
    <3>2. ASSUME NEW m \in Messages, status' = [status EXCEPT ![m] = IF @ = "unknown" THEN "pending" ELSE @]
          PROVE  StatusIsTrue'
      BY <2>1, <3>2 DEF Truthful, StatusIsTrue, Inv, TypeOK
    <3>3. ASSUME NEW t \in Threads, Confirmed(t), job[t].msg \in Messages,
                 status' = [status EXCEPT ![job[t].msg] = "delivered"]
          PROVE  StatusIsTrue'
      <4>1. job[t].msg \in minted
        BY <3>3 DEF Confirmed, Truthful
      <4>. QED  BY <2>1, <3>3, <4>1 DEF Truthful, StatusIsTrue, Inv, TypeOK
    <3>. QED  BY <1>2, <3>1, <3>2, <3>3, StatusStep
  <2>5. \A m \in Messages : file'.status[m] = "delivered" => m \in minted'
    <3>1. file'.status = file.status \/ file'.status = status
      BY <1>2, FileStep
    <3>. QED  BY <2>1, <3>1 DEF Truthful, StatusIsTrue
  <2>. QED  BY <2>2, <2>3, <2>4, <2>5 DEF Truthful
<1>. QED  BY <1>1, <1>2

-----------------------------------------------------------------------------
(* The queue and its file *)

\* The retries keep what they have in hand, or let go of it.
KeepsHand == job'["retry"].msg = NoMessage
             \/ (job'["retry"].msg = job["retry"].msg /\ job'["retry"].tries = job["retry"].tries)

\* What a step does to the queue.
LEMMA QueueStep ==
    ASSUME CctpAssumption, Inv, Next
    PROVE  /\ UNCHANGED faults
           /\ \/ LandWrite \/ (\E m \in Messages : TakeReady(m)) \/ EndRetries
              \/ Restart
              \/ \E t \in Threads : job[t].at \in {"relay", "wait"} /\ Fail(t) /\ UNCHANGED file
              \/ /\ UNCHANGED <<queue, writes>> /\ file'.queue = file.queue /\ KeepsHand
                 /\ job'["retry"].at = "off" => job["retry"].at = "off"
<1>. "retry" \in Threads /\ Chains \subseteq Threads /\ \A c \in Chains : c # "retry"
  BY RetryIsNoChain
<1>. DEFINE Else == /\ UNCHANGED <<queue, writes>> /\ file'.queue = file.queue /\ KeepsHand
                    /\ job'["retry"].at = "off" => job["retry"].at = "off"
<1>1. ASSUME NEW c \in Chains, job' = job \/ (\E p, S, m, n, x : Goes(c, p, S, m, n, x)),
             UNCHANGED <<queue, writes>>, file'.queue = file.queue
      PROVE  Else
  <2>1. job'["retry"] = job["retry"]
    BY <1>1, GoesFacts
  <2>. QED  BY <1>1, <2>1 DEF KeepsHand
<1>2. ASSUME NEW c \in Chains, BeginScan(c) \/ ScanFails(c) \/ ScanChunk(c) \/ WriteCursor(c)
      PROVE  Else
  <2>1. UNCHANGED <<queue, writes>>
    BY <1>2 DEF BeginScan, ScanFails, ScanChunk, WriteCursor, memory
  <2>2. file'.queue = file.queue
    <3>1. WriteCursor(c) => file' = file \/ file' = [file EXCEPT !.cursor[c] = ChunkEnd(c)]
      BY DEF WriteCursor
    <3>2. ~WriteCursor(c) => file' = file
      BY <1>2 DEF BeginScan, ScanFails, ScanChunk
    <3>3. file \in Files
      BY DEF Inv, Records
    <3>. QED  BY <3>1, <3>2, <3>3 DEF Files
  <2>. QED  BY <1>1, <1>2, <2>1, <2>2, ScanEffects DEF Scans
<1>3. ASSUME NEW c \in Chains, NEW m \in Messages, TakeLog(c, m)
      PROVE  Else
  <2>1. UNCHANGED <<queue, writes>> /\ file'.queue = file.queue
    BY <1>3 DEF TakeLog
  <2>. QED  BY <1>1, <1>3, <2>1, TakeLogEffect
<1>4. ASSUME NEW t \in Threads, NEW p, NEW S, NEW n, NEW x, NEW m, Goes(t, p, S, m, n, x),
             p # "off", m = NoMessage \/ (m = job[t].msg /\ n = job[t].tries),
             UNCHANGED <<queue, writes>>, file'.queue = file.queue
      PROVE  Else
  <2>1. /\ job'[t].at = p /\ job'[t].msg = m /\ job'[t].tries = n
        /\ \A u \in Threads \ {t} : job'[u] = job[u]
    BY <1>4, GoesFacts
  <2>. QED  BY <1>4, <2>1 DEF KeepsHand
<1>5. ASSUME NEW t \in Threads, Broadcast(t) \/ Mine(t)
      PROVE  Else
  <2>1. UNCHANGED <<queue, writes>> /\ file'.queue = file.queue
    BY <1>5 DEF Broadcast, Mine, memory
  <2>2. PICK x : Goes(t, "wait", job[t].todo, job[t].msg, job[t].tries, x)
    BY <1>5, BroadcastEffect, MineEffect
  <2>. QED  BY <1>4, <2>1, <2>2
<1>6. ASSUME NEW t \in Threads, AlreadyProcessed(t) \/ Confirmed(t)
      PROVE  Else
  <2>1. UNCHANGED <<queue, writes>> /\ file'.queue = file.queue /\ Resume(t) /\ Back(t) # "off"
    BY <1>6 DEF AlreadyProcessed, Confirmed, Back
  <2>2. Goes(t, Back(t), job[t].todo, NoMessage, 0, "none")
    BY <2>1, ThreadFacts, ResumeGoes DEF Empties
  <2>. QED  BY <1>4, <2>1, <2>2
<1>7. ASSUME NEW due \in SUBSET Messages, StartRetries(due)
      PROVE  Else
  <2>1. UNCHANGED <<queue, writes>> /\ file'.queue = file.queue
    BY <1>7 DEF StartRetries, memory
  <2>. QED  BY <1>4, <1>7, <2>1, StartEffect
<1>8. ASSUME NextTick
      PROVE  Else
  <2>1. Fresh /\ UNCHANGED <<queue, writes>> /\ file'.queue = file.queue /\ job["retry"].at = "off"
    BY <1>8 DEF NextTick, Fresh, memory
  <2>. QED  BY <2>1, FreshFacts DEF KeepsHand
<1>9. ASSUME SaveStatus \/ (\E c \in Chains : NewBlock(c)) \/ (\E m \in Messages : MineStray(m))
      PROVE  Else
  <2>1. UNCHANGED <<job, queue, writes>>
    BY <1>9 DEF SaveStatus, NewBlock, MineStray, memory
  <2>2. file'.queue = file.queue
    BY <1>9 DEF SaveStatus, NewBlock, MineStray, Inv, Records, Files
  <2>. QED  BY <2>1, <2>2 DEF KeepsHand
<1>10. ASSUME NEW t \in Threads, BroadcastFails(t) \/ WaitFails(t)
       PROVE  job[t].at \in {"relay", "wait"} /\ Fail(t) /\ UNCHANGED file
  BY <1>10 DEF BroadcastFails, WaitFails
<1>. HIDE DEF Else
<1>11. \/ LandWrite \/ (\E m \in Messages : TakeReady(m)) \/ EndRetries
       \/ Restart
       \/ \E t \in Threads : job[t].at \in {"relay", "wait"} /\ Fail(t) /\ UNCHANGED file
       \/ Else
  BY <1>2, <1>3, <1>5, <1>6, <1>7, <1>8, <1>9, <1>10 DEF Next, Loop, RetryStep, ScanStep, Attempt
<1>. QED  BY <1>11 DEF Else, Next

\* Landing a write moves the others one place on.
LEMMA LandFacts ==
    ASSUME CctpAssumption, Inv, LandWrite, "disk" \notin faults
    PROVE  /\ DOMAIN writes' = 1..(Len(writes) - 1) /\ Len(writes) \in Nat \ {0} /\ DOMAIN writes = 1..Len(writes)
           /\ \A i \in DOMAIN writes' : writes'[i] = writes[i + 1] /\ i + 1 \in DOMAIN writes
           /\ 1 \in DOMAIN writes /\ file'.queue = writes[1].entries
           /\ UNCHANGED <<queue, spent, minted, cursor>> /\ file'.cursor = file.cursor
<1>1. writes # << >> /\ writes' = Tail(writes) /\ UNCHANGED <<queue, spent, minted, cursor>>
  BY DEF LandWrite, memory, outside
<1>2. file' = [file EXCEPT !.queue = Head(writes).entries] /\ file \in Files
  BY DEF LandWrite, Inv, Records
<1>. QED  BY <1>1, <1>2, HeadFacts DEF Files

\* At the start there is nothing to lag behind.
LEMMA LaggingInit ==
    ASSUME CctpAssumption, Init
    PROVE  Lagging
BY DEF Init, Lagging, Queued

\* A write that lands leaves the file behind the writes after it only.
LEMMA LaggingLands ==
    ASSUME CctpAssumption, Inv, Lagging, LandWrite, UNCHANGED faults
    PROVE  Lagging'
<1>. SUFFICES ASSUME "disk" \notin faults, job'["retry"].at = "off"
              PROVE  /\ DOMAIN file'.queue \subseteq DOMAIN queue'
                     /\ \A m \in DOMAIN queue' \ DOMAIN file'.queue : Follows(0, m)'
                     /\ \A i \in DOMAIN writes' :
                           /\ DOMAIN writes'[i].entries \subseteq DOMAIN queue'
                           /\ \A m \in DOMAIN queue' \ DOMAIN writes'[i].entries : Follows(i, m)'
  BY DEF Lagging, Queued
<1>1. /\ DOMAIN writes' = 1..(Len(writes) - 1) /\ Len(writes) \in Nat \ {0} /\ DOMAIN writes = 1..Len(writes)
      /\ \A i \in DOMAIN writes' : writes'[i] = writes[i + 1] /\ i + 1 \in DOMAIN writes
      /\ 1 \in DOMAIN writes /\ file'.queue = writes[1].entries /\ queue' = queue
  BY LandFacts
<1>2. PICK t : t = writes[1].by
  OBVIOUS
<1>3. CASE job[t].at = "save" /\ t = "retry"
  <2>1. ScansDone /\ Written /\ writes[1].entries = queue
    BY <1>1, <1>2, <1>3, Resting DEF Inv, Written
  <2>2. \A i \in DOMAIN writes : i = 1
    <3>1. ASSUME NEW i \in DOMAIN writes
          PROVE  writes[i].by = "retry"
      <4>1. writes[i] \in Writes /\ job[writes[i].by].at \in {"persist", "save"}
        BY <1>1, <2>1, ElementOfSeq DEF Written, Inv, Records
      <4>. QED  BY <2>1, <4>1 DEF ScansDone, Writes, Threads
    <3>. QED  BY <1>1, <1>2, <1>3, <2>1, <3>1 DEF Written
  <2>3. DOMAIN writes' = {}
    BY <1>1, <2>2
  <2>. QED  BY <1>1, <2>1, <2>3
<1>4. CASE job[t].at = "persist" /\ Empties(t, Back(t))
  <2>1. job["retry"].at = "off"
    <3>1. job'[t].at = Back(t) /\ \A u \in Threads \ {t} : job'[u] = job[u]
      BY <1>4, GoesFacts DEF Empties
    <3>. QED  BY <3>1, RetryIsNoChain DEF Back
  <2>2. \A m : \A i \in Nat : Follows(i + 1, m) => Follows(i, m)'
    <3>1. SUFFICES ASSUME NEW m, NEW i \in Nat, NEW j \in DOMAIN writes, j > i + 1, writes[j].by = ChainOf[m]
                   PROVE  Follows(i, m)'
      BY DEF Follows
    <3>2. j - 1 \in DOMAIN writes' /\ j - 1 > i /\ (j - 1) + 1 = j
      BY <1>1, <3>1
    <3>3. writes'[j - 1].by = ChainOf[m]
      BY <1>1, <3>1, <3>2
    <3>. QED  BY <3>2, <3>3 DEF Follows
  <2>3. /\ \A i \in DOMAIN writes :
              /\ DOMAIN writes[i].entries \subseteq Queued
              /\ \A m \in Queued \ DOMAIN writes[i].entries : Follows(i, m)
    BY <2>1 DEF Lagging
  <2>4. 0 \in Nat /\ 0 + 1 = 1 /\ \A i \in DOMAIN writes' : i \in Nat
    BY <1>1
  <2>5. \A m \in Queued \ DOMAIN writes[1].entries : Follows(0, m)'
    BY <1>1, <2>2, <2>3, <2>4
  <2>6. \A i \in DOMAIN writes' : /\ DOMAIN writes'[i].entries \subseteq Queued
                                  /\ \A m \in Queued \ DOMAIN writes'[i].entries : Follows(i, m)'
    BY <1>1, <2>2, <2>3, <2>4
  <2>. QED  BY <1>1, <2>3, <2>5, <2>6 DEF Queued
<1>. QED  BY <1>2, <1>3, <1>4, LandWriteEffect

\* A chain that puts a message back is waiting for the write that holds it.
LEMMA LaggingGrows ==
    ASSUME CctpAssumption, Inv, Lagging, NEW t \in Chains, job[t].at \in {"relay", "wait"},
           NEW n \in 1..MaxRetries, Enqueues(t, n), UNCHANGED <<faults, file>>
    PROVE  Lagging'
<1>. SUFFICES ASSUME "disk" \notin faults
              PROVE  /\ DOMAIN file.queue \subseteq DOMAIN queue'
                     /\ \A m \in DOMAIN queue' \ DOMAIN file.queue : Follows(0, m)'
                     /\ \A i \in DOMAIN writes' :
                           /\ DOMAIN writes'[i].entries \subseteq DOMAIN queue'
                           /\ \A m \in DOMAIN queue' \ DOMAIN writes'[i].entries : Follows(i, m)'
  BY DEF Lagging, Queued
<1>12. PICK b, k : b = job[t].msg /\ k = Len(writes) + 1
  OBVIOUS
<1>1. t \in Threads /\ t # "retry" /\ queue \in Queues /\ writes \in Seq(Writes)
  BY RetryIsNoChain DEF Inv, Records
<1>2. job["retry"].at = "off"
  BY Resting DEF ScansDone
<1>3. b \in Messages /\ ChainOf[b] = t
  BY <1>1, <1>12, ThreadFacts, RetryIsNoChain DEF Stance, Fits
<1>4. queue' \in Queues /\ DOMAIN queue' = Queued \cup {b}
  BY <1>1, <1>3, <1>12, AddedFacts DEF Enqueues
<1>5. /\ Len(writes) \in Nat /\ DOMAIN writes = 1..Len(writes) /\ DOMAIN writes' = 1..k
      /\ \A i \in DOMAIN writes : writes'[i] = writes[i]
      /\ writes'[k].by = t /\ writes'[k].entries = queue'
  BY <1>1, <1>4, <1>12, AppendFacts DEF Enqueues
<1>6. k \in Nat /\ \A i \in 1..k : i \in DOMAIN writes \/ i = k
  BY <1>5, <1>12
<1>7. \A i \in 0..Len(writes) : \A m : Follows(i, m) \/ m = b => Follows(i, m)'
  <2>1. ASSUME NEW i \in 0..Len(writes)
        PROVE  Follows(i, b)'
    BY <1>3, <1>5, <1>6, <1>12 DEF Follows
  <2>2. ASSUME NEW i \in 0..Len(writes), NEW m, Follows(i, m)
        PROVE  Follows(i, m)'
    <3>1. PICK j \in DOMAIN writes : j > i /\ writes[j].by = ChainOf[m]
      BY <2>2 DEF Follows
    <3>2. j \in DOMAIN writes' /\ writes'[j] = writes[j]
      BY <1>5, <1>12
    <3>. QED  BY <3>1, <3>2 DEF Follows
  <2>. QED  BY <2>1, <2>2
<1>8. /\ DOMAIN file.queue \subseteq Queued
      /\ \A m \in Queued \ DOMAIN file.queue : Follows(0, m)
      /\ \A i \in DOMAIN writes :
            /\ DOMAIN writes[i].entries \subseteq Queued
            /\ \A m \in Queued \ DOMAIN writes[i].entries : Follows(i, m)
  BY <1>2 DEF Lagging
<1>9. 0 \in 0..Len(writes) /\ \A i \in DOMAIN writes : i \in 0..Len(writes)
  BY <1>5
<1>10. \A m \in DOMAIN queue' \ DOMAIN file.queue : Follows(0, m)'
  BY <1>4, <1>7, <1>8, <1>9
<1>11. \A i \in DOMAIN writes : /\ DOMAIN writes'[i].entries \subseteq DOMAIN queue'
                                /\ \A m \in DOMAIN queue' \ DOMAIN writes'[i].entries : Follows(i, m)'
  BY <1>4, <1>5, <1>7, <1>8, <1>9
<1>13. DOMAIN file.queue \subseteq DOMAIN queue'
  BY <1>4, <1>8
<1>14. /\ DOMAIN writes'[k].entries \subseteq DOMAIN queue'
       /\ \A m \in DOMAIN queue' \ DOMAIN writes'[k].entries : Follows(k, m)'
  BY <1>5
<1>15. \A i \in 1..k : /\ DOMAIN writes'[i].entries \subseteq DOMAIN queue'
                       /\ \A m \in DOMAIN queue' \ DOMAIN writes'[i].entries : Follows(i, m)'
  BY <1>6, <1>11, <1>14
<1>16. DOMAIN writes' = 1..k
  BY <1>5
<1>. QED  BY <1>10, <1>13, <1>15, <1>16

\* Every step keeps Lagging.
LEMMA LaggingKept ==
    ASSUME CctpAssumption, Inv, Lagging, [Next]_vars
    PROVE  Lagging'
<1>1. ASSUME UNCHANGED <<queue, writes, faults>>, file'.queue = file.queue,
             job'["retry"].at = "off" => job["retry"].at = "off"
      PROVE  Lagging'
  BY <1>1 DEF Lagging, Queued, Follows
<1>2. ASSUME job'["retry"].at # "off"
      PROVE  Lagging'
  BY <1>2 DEF Lagging
<1>3. ASSUME NEW m \in Messages, TakeReady(m)
      PROVE  Lagging'
  <2>1. \/ Goes("retry", "next", job["retry"].todo \ {m}, NoMessage, job["retry"].tries, "none")
        \/ Goes("retry", "relay", job["retry"].todo \ {m}, m, queue[m], "none")
    BY <1>3, TakeReadyEffect
  <2>2. job'["retry"].at \in {"next", "relay"}
    BY <2>1 DEF Goes, Becomes, Rec
  <2>. QED  BY <1>2, <2>2
<1>4. ASSUME EndRetries
      PROVE  Lagging'
  <2>1. job'["retry"].at = "save"
    BY <1>4, EndEffect, GoesFacts
  <2>. QED  BY <1>2, <2>1
<1>5. ASSUME Restart
      PROVE  Lagging'
  <2>1. queue' = file.queue /\ writes' = << >> /\ file' = file
    BY <1>5 DEF Restart
  <2>. QED  BY <2>1 DEF Lagging, Queued
<1>6. ASSUME NEW t \in Threads, job[t].at \in {"relay", "wait"}, Fail(t), UNCHANGED <<file, faults>>
      PROVE  Lagging'
  <2>1. Records /\ Holding
    BY DEF Inv
  <2>2. CASE t = "retry"
    <3>1. \E p \in {"next", "persist"} : Empties(t, p)
      BY <1>6, <2>1, <2>2, FailFacts DEF Enqueues, Back
    <3>2. job'["retry"].at \in {"next", "persist"}
      BY <2>2, <3>1, GoesFacts DEF Empties
    <3>. QED  BY <1>2, <3>2
  <2>3. CASE t # "retry"
    <3>1. t \in Chains
      BY <2>3 DEF Threads
    <3>2. CASE Empties(t, Back(t)) /\ UNCHANGED <<queue, writes>>
      <4>1. job'["retry"] = job["retry"]
        BY <2>3, <3>2, GoesFacts, RetryIsNoChain DEF Empties
      <4>. QED  BY <1>1, <1>6, <3>2, <4>1
    <3>. QED  BY <1>6, <2>1, <3>1, <3>2, FailFacts, LaggingGrows
  <2>. QED  BY <2>2, <2>3
<1>7. ASSUME UNCHANGED vars
      PROVE  Lagging'
  BY <1>1, <1>7 DEF vars, memory
<1>. QED  BY <1>1, <1>3, <1>4, <1>5, <1>6, <1>7, QueueStep, LaggingLands

-----------------------------------------------------------------------------
(* The attempts of an entry *)

\* A queue has no fewer attempts than itself.
LEMMA NoFewerSelf ==
    ASSUME CctpAssumption, NEW q \in Queues
    PROVE  NoFewer(q, q)
BY QueueFacts DEF NoFewer, CctpAssumption

\* The queue, its file and every write of it are queues.
LEMMA EntriesTyped ==
    ASSUME CctpAssumption, Inv
    PROVE  /\ queue \in Queues /\ file.queue \in Queues /\ writes \in Seq(Writes)
           /\ \A i \in DOMAIN writes : writes[i].entries \in Queues
<1>1. queue \in Queues /\ file.queue \in Queues /\ writes \in Seq(Writes)
  BY DEF Inv, Records, Files
<1>2. \A i \in DOMAIN writes : writes[i] \in Writes
  BY <1>1, LenProperties, ElementOfSeq
<1>. QED  BY <1>1, <1>2 DEF Writes

\* Holding nothing, the retries are behind no entry; otherwise as before.
LEMMA HandKept ==
    ASSUME CctpAssumption, KeepsHand, NEW q \in Queues, Held(q)
    PROVE  Held(q)'
<1>1. DOMAIN q \subseteq Messages /\ NoMessage \notin Messages
  BY QueueFacts, RetryIsNoChain
<1>2. job'["retry"].msg \in DOMAIN q => q[job'["retry"].msg] <= job'["retry"].tries
  BY <1>1 DEF KeepsHand, Held
<1>. QED  BY <1>2 DEF Held

\* At the start there are no attempts.
LEMMA GrowingInit ==
    ASSUME CctpAssumption, Init
    PROVE  Growing
BY DEF Init, Growing, NoFewer, Held

\* A step that leaves queue and writes alone keeps Growing.
LEMMA GrowingStays ==
    ASSUME CctpAssumption, Inv, Growing, KeepsHand, UNCHANGED <<queue, writes, faults>>,
           file'.queue = file.queue
    PROVE  Growing'
<1>. SUFFICES ASSUME "disk" \notin faults
              PROVE  Growing'
  BY DEF Growing
<1>1. Held(file.queue) /\ \A i \in DOMAIN writes : Held(writes[i].entries)
  BY DEF Growing
<1>2. /\ \A q \in Queues : Held(q) => (job'["retry"].msg \in DOMAIN q => q[job'["retry"].msg] <= job'["retry"].tries)
  BY HandKept DEF Held
<1>3. /\ job'["retry"].msg \in DOMAIN file'.queue => file'.queue[job'["retry"].msg] <= job'["retry"].tries
      /\ \A i \in DOMAIN writes' : job'["retry"].msg \in DOMAIN writes'[i].entries
                                       => writes'[i].entries[job'["retry"].msg] <= job'["retry"].tries
  BY <1>1, <1>2, EntriesTyped
<1>. QED  BY <1>3 DEF Growing, NoFewer, Held

\* So does a write of a queue with no fewer attempts than file and writes have.
LEMMA GrowingAppends ==
    ASSUME CctpAssumption, Inv, Growing, "disk" \notin faults, NEW t \in Threads, NEW q \in Queues,
           writes' = Append(writes, [by |-> t, entries |-> q]), q = queue',
           file'.queue = file.queue, UNCHANGED faults, job'["retry"].msg = NoMessage,
           NoFewer(file.queue, q), \A i \in DOMAIN writes : NoFewer(writes[i].entries, q)
    PROVE  Growing'
<1>1. PICK k : k = Len(writes) + 1
  OBVIOUS
<1>2. /\ Len(writes) \in Nat /\ DOMAIN writes = 1..Len(writes)
      /\ DOMAIN writes' = 1..k
      /\ \A i \in DOMAIN writes : writes'[i] = writes[i]
      /\ writes'[k].entries = q
  BY <1>1, EntriesTyped, AppendFacts
<1>3. \A i \in 1..k : i \in DOMAIN writes \/ i = k
  BY <1>1, <1>2
<1>4. DOMAIN file.queue \subseteq Messages /\ DOMAIN q \subseteq Messages
      /\ \A i \in DOMAIN writes : DOMAIN writes[i].entries \subseteq Messages
  BY EntriesTyped, QueueFacts
<1>5. NoMessage \notin Messages /\ NoFewer(q, q)
  BY RetryIsNoChain, NoFewerSelf
<1>6. /\ \A i \in DOMAIN writes : NoFewer(file.queue, writes[i].entries)
      /\ \A i, j \in DOMAIN writes : i < j => NoFewer(writes[i].entries, writes[j].entries)
  BY DEF Growing
<1>7. \A i \in 1..k : /\ NoFewer(file.queue, writes'[i].entries) /\ NoFewer(writes'[i].entries, q)
                      /\ NoMessage \notin DOMAIN writes'[i].entries
  BY <1>2, <1>3, <1>4, <1>5, <1>6
<1>8. \A i, j \in 1..k : i < j => NoFewer(writes'[i].entries, writes'[j].entries)
  <2>1. SUFFICES ASSUME NEW i \in 1..k, NEW j \in 1..k, i < j
                 PROVE  NoFewer(writes'[i].entries, writes'[j].entries)
    OBVIOUS
  <2>2. i \in DOMAIN writes
    BY <1>1, <1>2, <2>1
  <2>. QED  BY <1>2, <1>3, <1>6, <2>1, <2>2
<1>9. /\ job'["retry"].msg \notin DOMAIN file'.queue /\ NoFewer(file'.queue, queue')
      /\ \A i \in 1..k : /\ NoFewer(file'.queue, writes'[i].entries) /\ NoFewer(writes'[i].entries, queue')
                        /\ job'["retry"].msg \notin DOMAIN writes'[i].entries
  BY <1>4, <1>5, <1>7
<1>. QED  BY <1>2, <1>8, <1>9 DEF Growing, Held

\* A write that lands has no fewer attempts than the file it replaces.
LEMMA GrowingLands ==
    ASSUME CctpAssumption, Inv, Growing, "disk" \notin faults, LandWrite, UNCHANGED faults
    PROVE  Growing' /\ NoFewer(file.queue, file'.queue)
<1>1. /\ DOMAIN writes' = 1..(Len(writes) - 1) /\ Len(writes) \in Nat \ {0} /\ DOMAIN writes = 1..Len(writes)
      /\ \A i \in DOMAIN writes' : writes'[i] = writes[i + 1] /\ i + 1 \in DOMAIN writes
      /\ 1 \in DOMAIN writes /\ file'.queue = writes[1].entries /\ queue' = queue
  BY LandFacts
<1>2. KeepsHand
  <2>1. PICK t : t = writes[1].by
    OBVIOUS
  <2>2. \E p : Empties(t, p) \/ Goes(t, p, {}, NoMessage, 0, "none")
    BY <2>1, LandWriteEffect
  <2>3. job'[t].msg = NoMessage /\ \A u \in Threads \ {t} : job'[u] = job[u]
    BY <2>2, GoesFacts DEF Empties
  <2>. QED  BY <2>3, RetryIsNoChain DEF KeepsHand
<1>3. \A i \in DOMAIN writes : job'["retry"].msg \in DOMAIN writes[i].entries
                                   => writes[i].entries[job'["retry"].msg] <= job'["retry"].tries
  <2>1. \A q \in Queues : Held(q) => (job'["retry"].msg \in DOMAIN q => q[job'["retry"].msg] <= job'["retry"].tries)
    BY <1>2, HandKept DEF Held
  <2>. QED  BY <2>1, EntriesTyped DEF Growing
<1>4. \A i, j \in DOMAIN writes : i < j => NoFewer(writes[i].entries, writes[j].entries)
  BY DEF Growing
<1>5. \A i \in DOMAIN writes' : 1 < i + 1 /\ \A j \in DOMAIN writes' : i < j => i + 1 < j + 1
  BY <1>1
<1>6. \A i \in DOMAIN writes' :
         /\ NoFewer(file'.queue, writes'[i].entries) /\ NoFewer(writes'[i].entries, queue')
         /\ job'["retry"].msg \in DOMAIN writes'[i].entries
                => writes'[i].entries[job'["retry"].msg] <= job'["retry"].tries
         /\ \A j \in DOMAIN writes' : i < j => NoFewer(writes'[i].entries, writes'[j].entries)
  BY <1>1, <1>3, <1>4, <1>5 DEF Growing
<1>7. /\ NoFewer(file'.queue, queue')
      /\ job'["retry"].msg \in DOMAIN file'.queue => file'.queue[job'["retry"].msg] <= job'["retry"].tries
  BY <1>1, <1>3 DEF Growing
<1>8. Growing'
  BY <1>6, <1>7 DEF Growing, NoFewer, Held
<1>. QED  BY <1>1, <1>8 DEF Growing

\* A failed attempt counts one more than the one it took.
LEMMA GrowingFails ==
    ASSUME CctpAssumption, Inv, Lagging, Growing, "disk" \notin faults,
           NEW t \in Threads, job[t].at \in {"relay", "wait"}, Fail(t), UNCHANGED <<faults, file>>
    PROVE  Growing'
<1>1. Records /\ Holding /\ job[t].msg \in Messages /\ Stance("retry")
  BY RetryIsNoChain, FailFacts DEF Inv, Holding
<1>2. t # "retry" => job["retry"].at = "off" /\ job["retry"].msg = NoMessage
  BY <1>1, Resting DEF Threads, ScansDone, Stance, Fits
<1>3. ASSUME NEW p, Empties(t, p)
      PROVE  job'["retry"].msg = NoMessage
  <2>1. job'[t].msg = NoMessage /\ \A u \in Threads \ {t} : job'[u] = job[u]
    BY <1>3, GoesFacts DEF Empties
  <2>. QED  BY <1>2, <2>1, RetryIsNoChain
<1>4. CASE Empties(t, Back(t)) /\ UNCHANGED <<queue, writes>>
  BY <1>3, <1>4, GrowingStays DEF KeepsHand
<1>5. ASSUME NEW n \in 1..MaxRetries, Enqueues(t, n), t = "retry" => n = job[t].tries + 1,
             job[t].msg \notin Queued
      PROVE  Growing'
  <2>1. PICK b : b = job[t].msg
    OBVIOUS
  <2>7. queue' = Added(b, n) /\ b \in Messages /\ queue \in Queues
    BY <1>1, <1>5, <2>1, EntriesTyped DEF Enqueues
  <2>2. /\ queue' \in Queues /\ DOMAIN queue' = Queued \cup {b}
        /\ queue'[b] = n /\ \A k \in Queued \ {b} : queue'[k] = queue[k]
    BY <2>7, AddedFacts
  <2>3. ASSUME NEW q \in Queues, NoFewer(q, queue), Held(q), t # "retry" => DOMAIN q \subseteq Queued
        PROVE  NoFewer(q, queue')
    <3>1. ASSUME b \in DOMAIN q
          PROVE  q[b] <= n
      <4>1. t = "retry"
        BY <1>5, <2>1, <2>3, <3>1
      <4>2. q[b] <= job[t].tries /\ q[b] \in Nat /\ job[t].tries \in Nat /\ n = job[t].tries + 1
        BY <1>5, <2>1, <2>3, <3>1, <4>1, QueueFacts, ThreadFacts DEF Held
      <4>. QED  BY <4>2
    <3>2. \A k \in DOMAIN q \cap Queued : k # b => q[k] <= queue'[k]
      BY <2>2, <2>3 DEF NoFewer, Queued
    <3>. QED  BY <2>2, <3>1, <3>2 DEF NoFewer
  <2>4. t # "retry" => /\ DOMAIN file.queue \subseteq Queued
                       /\ \A i \in DOMAIN writes : DOMAIN writes[i].entries \subseteq Queued
    BY <1>2 DEF Lagging
  <2>5. NoFewer(file.queue, queue') /\ \A i \in DOMAIN writes : NoFewer(writes[i].entries, queue')
    BY <2>3, <2>4, EntriesTyped DEF Growing
  <2>6. job'["retry"].msg = NoMessage /\ writes' = Append(writes, [by |-> t, entries |-> queue'])
    BY <1>3, <1>5 DEF Enqueues
  <2>. QED  BY <1>5, <2>2, <2>5, <2>6, GrowingAppends
<1>. QED  BY <1>1, <1>4, <1>5, FailFacts

\* Every step keeps Growing, and takes no attempts from the file.
LEMMA GrowingKept ==
    ASSUME CctpAssumption, Inv, Lagging, Growing, [Next]_vars
    PROVE  /\ Growing'
           /\ "disk" \notin faults => NoFewer(file.queue, file'.queue)
<1>. SUFFICES ASSUME "disk" \notin faults
              PROVE  Growing' /\ NoFewer(file.queue, file'.queue)
  <2>1. "disk" \in faults => Growing'
    BY QueueStep DEF Growing, vars
  <2>. QED  BY <2>1
<1>1. NoFewer(file.queue, file.queue)
  BY EntriesTyped, NoFewerSelf
<1>2. ASSUME UNCHANGED vars
      PROVE  Growing' /\ NoFewer(file.queue, file'.queue)
  <2>1. KeepsHand /\ UNCHANGED <<queue, writes, faults, file>>
    BY <1>2 DEF vars, memory, KeepsHand
  <2>. QED  BY <1>1, <2>1, GrowingStays
<1>3. ASSUME NEW m \in Messages, TakeReady(m), UNCHANGED faults
      PROVE  Growing' /\ NoFewer(file.queue, file'.queue)
  <2>1. /\ m \in Queued /\ queue' = Removed(m) /\ DOMAIN Removed(m) = Queued \ {m}
        /\ \A k \in Queued \ {m} : Removed(m)[k] = queue[k]
    BY <1>3, TakeReadyEffect, EntriesTyped, RemovedFacts
  <2>9. DOMAIN queue' \subseteq DOMAIN queue /\ \A k \in DOMAIN queue' : queue'[k] = queue[k]
    BY <2>1 DEF Queued
  <2>2. \A q : NoFewer(q, queue) => NoFewer(q, queue')
    BY <2>9 DEF NoFewer
  <2>3. job'["retry"].msg = NoMessage \/ (job'["retry"].msg = m /\ job'["retry"].tries = queue[m])
    <3>1. \E p, S, n : Goes("retry", p, S, NoMessage, n, "none") \/ Goes("retry", p, S, m, queue[m], "none")
      BY <1>3, TakeReadyEffect
    <3>. QED  BY <3>1, GoesFacts
  <2>4. \A q \in Queues : NoFewer(q, queue) =>
            (job'["retry"].msg \in DOMAIN q => q[job'["retry"].msg] <= job'["retry"].tries)
    BY <2>1, <2>3, QueueFacts, RetryIsNoChain DEF NoFewer, Queued
  <2>5. UNCHANGED <<file, writes>>
    BY <1>3 DEF TakeReady
  <2>6. /\ NoFewer(file.queue, queue') /\ \A i \in DOMAIN writes : NoFewer(writes[i].entries, queue')
    BY <2>2 DEF Growing
  <2>7. /\ job'["retry"].msg \in DOMAIN file.queue => file.queue[job'["retry"].msg] <= job'["retry"].tries
        /\ \A i \in DOMAIN writes : job'["retry"].msg \in DOMAIN writes[i].entries
                                        => writes[i].entries[job'["retry"].msg] <= job'["retry"].tries
    BY <2>4, EntriesTyped DEF Growing
  <2>8. Growing'
    BY <2>5, <2>6, <2>7 DEF Growing, NoFewer, Held
  <2>. QED  BY <1>1, <2>5, <2>8
<1>4. ASSUME EndRetries, UNCHANGED faults
      PROVE  Growing' /\ NoFewer(file.queue, file'.queue)
  <2>1. job'["retry"].msg = NoMessage /\ writes' = Append(writes, [by |-> "retry", entries |-> queue])
    BY <1>4, EndEffect, GoesFacts
  <2>2. UNCHANGED <<queue, file>> /\ "retry" \in Threads /\ queue \in Queues
    BY <1>4, RetryIsNoChain, EntriesTyped DEF EndRetries, memory
  <2>3. NoFewer(file.queue, queue) /\ \A i \in DOMAIN writes : NoFewer(writes[i].entries, queue)
    BY DEF Growing
  <2>4. Growing'
    BY <1>4, <2>1, <2>2, <2>3, GrowingAppends
  <2>. QED  BY <1>1, <2>2, <2>4
<1>5. ASSUME Restart
      PROVE  Growing' /\ NoFewer(file.queue, file'.queue)
  <2>1. queue' = file.queue /\ writes' = << >> /\ file' = file /\ Fresh
    BY <1>5 DEF Restart, Fresh
  <2>2. job'["retry"].msg = NoMessage
    BY <2>1, FreshFacts, RetryIsNoChain
  <2>3. NoMessage \notin DOMAIN file.queue
    BY EntriesTyped, QueueFacts, RetryIsNoChain
  <2>. QED  BY <1>1, <2>1, <2>2, <2>3 DEF Growing, NoFewer, Held
<1>6. ASSUME NEW t \in Threads, job[t].at \in {"relay", "wait"}, Fail(t), UNCHANGED <<faults, file>>
      PROVE  Growing' /\ NoFewer(file.queue, file'.queue)
  BY <1>1, <1>6, GrowingFails
<1>7. ASSUME UNCHANGED <<queue, writes, faults>>, file'.queue = file.queue, KeepsHand
      PROVE  Growing' /\ NoFewer(file.queue, file'.queue)
  BY <1>1, <1>7, GrowingStays
<1>. QED  BY <1>2, <1>3, <1>4, <1>5, <1>6, <1>7, QueueStep, GrowingLands

-----------------------------------------------------------------------------
(* What the relayer has taken up *)

\* What chain c had in hand or in the queue is there still, or over.
Kept(c) ==
    Busy(c)' =>
        /\ cursor'[c] = cursor[c] /\ scanTo'[c] = scanTo[c]
        /\ \/ Busy(c) /\ Hands(c) \cup Queued \subseteq Hands(c)' \cup DOMAIN queue' \cup Over' \cup {NoMessage}
           \/ ChunkOf(c) \subseteq Hands(c)'

KeptHand == Queued \cup {job["retry"].msg} \subseteq DOMAIN queue' \cup {job'["retry"].msg} \cup Over' \cup {NoMessage}

\* What is minted or given up stays so.
LEMMA OverGrows ==
    ASSUME CctpAssumption, Inv, Next
    PROVE  Over \subseteq Over'
BY MintStep, SpentKept DEF Over

\* If every chain keeps what it had, no message of a chunk is dropped.
LEMMA ChunksStay ==
    ASSUME CctpAssumption, Chunks, \A c \in Chains : Kept(c), Over \subseteq Over'
    PROVE  Chunks'
<1>. SUFFICES ASSUME NEW c \in Chains, Busy(c)'
              PROVE  ChunkOf(c)' \subseteq Hands(c)' \cup DOMAIN queue' \cup Over'
  BY DEF Chunks, Queued
<1>1. ChunkOf(c)' = ChunkOf(c) /\ ChunkOf(c) \subseteq Messages
  BY DEF Kept, ChunkOf, ChunkEnd
<1>2. Busy(c) => ChunkOf(c) \subseteq Hands(c) \cup Queued \cup Over
  BY DEF Chunks
<1>3. NoMessage \notin Messages
  BY RetryIsNoChain
<1>. QED  BY <1>1, <1>2, <1>3 DEF Kept

\* The retries move while no chain is at work.
LEMMA RetryMoves ==
    ASSUME CctpAssumption, ScansDone, NEW p, NEW S, NEW m, NEW n, NEW x, Goes("retry", p, S, m, n, x)
    PROVE  \A c \in Chains : Kept(c)
<1>1. \A c \in Chains : job'[c].at = "done"
  BY GoesFacts, RetryIsNoChain DEF ScansDone
<1>. QED  BY <1>1 DEF Kept, Busy

\* What a chain has to keep when it moves.
LEMMA ChainMoves ==
    ASSUME CctpAssumption, NEW c \in Chains, NEW p, NEW S, NEW m, NEW n, NEW x, Goes(c, p, S, m, n, x),
           \A d \in Chains \ {c} : cursor'[d] = cursor[d] /\ scanTo'[d] = scanTo[d],
           Queued \subseteq DOMAIN queue',
           p \in {"log", "relay", "wait", "persist"} =>
               /\ cursor'[c] = cursor[c] /\ scanTo'[c] = scanTo[c]
               /\ \/ Busy(c) /\ Hands(c) \subseteq S \cup {m} \cup DOMAIN queue' \cup Over' \cup {NoMessage}
                  \/ ChunkOf(c) \subseteq S
    PROVE  (\A d \in Chains : Kept(d)) /\ KeptHand
<1>1. /\ job'[c].at = p /\ job'[c].todo = S /\ job'[c].msg = m /\ \A u \in Threads \ {c} : job'[u] = job[u]
  BY GoesFacts
<1>2. Kept(c)
  BY <1>1 DEF Kept, Busy, Hands
<1>3. \A d \in Chains \ {c} : Kept(d)
  BY <1>1, RetryIsNoChain DEF Kept, Busy, Hands
<1>4. job'["retry"] = job["retry"]
  BY <1>1, RetryIsNoChain
<1>. QED  BY <1>2, <1>3, <1>4 DEF KeptHand

\* An attempt that ends with its message over or back in the queue.
LEMMA AttemptEnds ==
    ASSUME CctpAssumption, Inv, NEW t \in Threads, job[t].at \in {"relay", "wait", "persist"}, NEW p, Empties(t, p),
           UNCHANGED <<cursor, scanTo>>, Queued \subseteq DOMAIN queue',
           job[t].msg \in DOMAIN queue' \cup Over' \cup {NoMessage}
    PROVE  (\A d \in Chains : Kept(d)) /\ KeptHand
<1>1. CASE t = "retry"
  <2>1. ScansDone
    BY <1>1, Resting
  <2>2. \A d \in Chains : Kept(d)
    BY <1>1, <2>1, RetryMoves DEF Empties
  <2>. QED  BY <1>1, <2>2 DEF KeptHand
<1>2. CASE t # "retry"
  <2>1. t \in Chains
    BY <1>2 DEF Threads
  <2>2. Busy(t) /\ Hands(t) \subseteq job[t].todo \cup {NoMessage} \cup DOMAIN queue' \cup Over' \cup {NoMessage}
    BY DEF Busy, Hands
  <2>. QED  BY <2>1, <2>2, ChainMoves DEF Empties
<1>. QED  BY <1>1, <1>2

\* One that goes on with it.
LEMMA AttemptGoesOn ==
    ASSUME CctpAssumption, Inv, NEW t \in Threads, job[t].at \in {"relay", "wait"}, NEW x,
           Goes(t, "wait", job[t].todo, job[t].msg, job[t].tries, x), UNCHANGED <<cursor, scanTo, queue>>
    PROVE  (\A d \in Chains : Kept(d)) /\ KeptHand
<1>1. CASE t = "retry"
  <2>1. ScansDone
    BY <1>1, Resting
  <2>2. \A d \in Chains : Kept(d)
    BY <1>1, <2>1, RetryMoves
  <2>3. job'["retry"].msg = job["retry"].msg
    BY <1>1, GoesFacts
  <2>. QED  BY <2>2, <2>3 DEF KeptHand, Queued
<1>2. CASE t # "retry"
  <2>1. t \in Chains
    BY <1>2 DEF Threads
  <2>2. Busy(t) /\ Hands(t) \subseteq job[t].todo \cup {job[t].msg} \cup DOMAIN queue' \cup Over' \cup {NoMessage}
    BY DEF Busy, Hands
  <2>. QED  BY <2>1, <2>2, ChainMoves DEF Queued
<1>. QED  BY <1>1, <1>2

\* A failed attempt keeps its message: in the queue, or over.
LEMMA FailKeeps ==
    ASSUME CctpAssumption, Inv, NEW t \in Threads, job[t].at \in {"relay", "wait"}, Fail(t),
           UNCHANGED <<cursor, scanTo, minted>>
    PROVE  (\A d \in Chains : Kept(d)) /\ KeptHand
<1>1. Records /\ Holding /\ job[t].msg \in Messages /\ queue \in Queues
  BY FailFacts DEF Inv, Records
<1>2. CASE Empties(t, Back(t)) /\ UNCHANGED <<queue, writes>> /\ (job[t].msg \in Queued \/ job[t].msg \in spent')
  <2>1. job[t].msg \in DOMAIN queue' \cup Over' \cup {NoMessage} /\ Queued \subseteq DOMAIN queue'
    BY <1>2 DEF Over, Queued
  <2>. QED  BY <1>2, <2>1, AttemptEnds
<1>3. ASSUME NEW n \in 1..MaxRetries, Enqueues(t, n)
      PROVE  (\A d \in Chains : Kept(d)) /\ KeptHand
  <2>1. PICK b : b = job[t].msg
    OBVIOUS
  <2>2. queue' = Added(b, n) /\ b \in Messages /\ Empties(t, "persist")
    BY <1>1, <1>3, <2>1 DEF Enqueues
  <2>3. DOMAIN queue' = Queued \cup {b}
    BY <1>1, <2>2, AddedFacts
  <2>. QED  BY <2>1, <2>2, <2>3, AttemptEnds
<1>. QED  BY <1>1, <1>2, <1>3, FailFacts

\* No step but a restart drops a message.
LEMMA KeptStep ==
    ASSUME CctpAssumption, Inv, Truthful, Next
    PROVE  (\A c \in Chains : Kept(c)) /\ (KeptHand \/ Restart)
<1>. "retry" \in Threads /\ Chains \subseteq Threads /\ \A c \in Chains : c # "retry"
  BY RetryIsNoChain
<1>. Over \subseteq Over' /\ minted \subseteq Over' /\ minted \subseteq minted'
  BY OverGrows, MintStep DEF Over
<1>. DEFINE Holds == (\A c \in Chains : Kept(c)) /\ (KeptHand \/ Restart)
<1>1. ASSUME LandWrite
      PROVE  Holds
  <2>1. PICK t : t = writes[1].by
    OBVIOUS
  <2>2. UNCHANGED <<cursor, scanTo, queue>> /\ t \in Threads
    BY <1>1, <2>1, LandWriteEffect DEF LandWrite, memory
  <2>3. job[t].at \in {"persist", "save"} => job[t].msg = NoMessage
    BY <2>2, ThreadFacts DEF Stance, Fits
  <2>4. CASE job[t].at = "save" /\ t = "retry" /\ Goes(t, "off", {}, NoMessage, 0, "none")
    <3>1. ScansDone
      BY <2>4, Resting
    <3>. QED  BY <2>2, <2>3, <2>4, <3>1, RetryMoves DEF KeptHand, Queued
  <2>5. CASE job[t].at = "persist" /\ Empties(t, Back(t))
    BY <2>2, <2>3, <2>5, AttemptEnds DEF Queued
  <2>. QED  BY <1>1, <2>1, <2>4, <2>5, LandWriteEffect
<1>2. ASSUME Fresh
      PROVE  \A c \in Chains : Kept(c)
  BY <1>2, FreshFacts DEF Kept, Busy
<1>3. ASSUME UNCHANGED queue, job["retry"].at = "off"
      PROVE  KeptHand
  BY <1>3, ThreadFacts DEF Stance, Fits, KeptHand, Queued
<1>4. ASSUME NEW due \in SUBSET Messages, StartRetries(due)
      PROVE  Holds
  <2>1. queue' = queue
    BY <1>4 DEF StartRetries, memory
  <2>. QED  BY <1>3, <1>4, <2>1, StartEffect, RetryMoves
<1>5. ASSUME NEW m \in Messages, TakeReady(m)
      PROVE  Holds
  <2>1. ScansDone /\ job["retry"].msg = NoMessage
    BY <1>5, TakeReadyEffect, Resting
  <2>2. DOMAIN queue' = Queued \ {m}
    BY <1>5, TakeReadyEffect, RemovedFacts, EntriesTyped
  <2>3. Processed(m) => m \in minted
    BY DEF Truthful, ProcessedIsMinted
  <2>4. CASE Processed(m) /\ Goes("retry", "next", job["retry"].todo \ {m}, NoMessage, job["retry"].tries, "none")
    <3>1. \A c \in Chains : Kept(c)
      BY <2>1, <2>4, RetryMoves
    <3>. QED  BY <2>1, <2>2, <2>3, <2>4, <3>1 DEF KeptHand
  <2>5. CASE Goes("retry", "relay", job["retry"].todo \ {m}, m, queue[m], "none")
    <3>1. \A c \in Chains : Kept(c)
      BY <2>1, <2>5, RetryMoves
    <3>2. job'["retry"].msg = m
      BY <2>5, GoesFacts
    <3>. QED  BY <2>1, <2>2, <3>1, <3>2 DEF KeptHand
  <2>. QED  BY <1>5, <2>4, <2>5, TakeReadyEffect
<1>6. ASSUME EndRetries
      PROVE  Holds
  <2>1. ScansDone /\ job["retry"].msg = NoMessage /\ queue' = queue
    BY <1>6, EndEffect, Resting DEF EndRetries, memory
  <2>2. \A c \in Chains : Kept(c)
    BY <1>6, <2>1, EndEffect, RetryMoves
  <2>. QED  BY <2>1, <2>2 DEF KeptHand, Queued
<1>7. ASSUME NEW c \in Chains, BeginScan(c) \/ ScanFails(c) \/ ScanChunk(c) \/ WriteCursor(c)
      PROVE  Holds
  <2>1. /\ queue' = queue
        /\ cursor' = cursor \/ cursor' = [cursor EXCEPT ![c] = ChunkEnd(c)]
        /\ scanTo' = scanTo \/ scanTo' = [scanTo EXCEPT ![c] = head[c]]
        /\ ScanChunk(c) => UNCHANGED <<cursor, scanTo>>
    BY <1>7 DEF BeginScan, ScanFails, ScanChunk, WriteCursor, memory
  <2>2. cursor \in [Chains -> 0..Blocks] /\ scanTo \in [Chains -> 0..Blocks]
    BY DEF Inv, TypeOK
  <2>3. \A d \in Chains \ {c} : cursor'[d] = cursor[d] /\ scanTo'[d] = scanTo[d]
    BY <2>1, <2>2
  <2>4. ASSUME NEW p \in {"scan", "done"}, NEW S, Scans(c, p, S)
        PROVE  Holds
    BY <2>1, <2>3, <2>4, ChainMoves DEF Scans, Queued
  <2>5. ASSUME ScanChunk(c), Scans(c, "log", ChunkOf(c))
        PROVE  Holds
    BY <2>1, <2>3, <2>5, ChainMoves DEF Scans, Queued
  <2>. QED  BY <1>7, <2>4, <2>5, ScanEffects
<1>8. ASSUME NEW c \in Chains, NEW m \in Messages, TakeLog(c, m)
      PROVE  Holds
  <2>1. UNCHANGED <<cursor, scanTo, queue>>
    BY <1>8 DEF TakeLog
  <2>2. job[c].at = "log" /\ job[c].msg = NoMessage /\ m \in job[c].todo /\ Busy(c)
    BY <1>8, TakeLogEffect DEF Busy
  <2>3. Processed(m) => m \in minted
    BY DEF Truthful, ProcessedIsMinted
  <2>4. PICK S : S = job[c].todo \ {m}
    OBVIOUS
  <2>5. Hands(c) \subseteq S \cup {m} \cup {NoMessage}
    BY <2>2, <2>4 DEF Hands
  <2>6. CASE Processed(m) /\ Goes(c, "log", job[c].todo \ {m}, NoMessage, job[c].tries, "none")
    BY <2>1, <2>2, <2>3, <2>4, <2>5, <2>6, ChainMoves DEF Queued
  <2>7. CASE Goes(c, "relay", job[c].todo \ {m}, m, job[c].tries, "none")
    BY <2>1, <2>2, <2>4, <2>5, <2>7, ChainMoves DEF Queued
  <2>. QED  BY <1>8, <2>6, <2>7, TakeLogEffect
<1>9. ASSUME NEW t \in Threads, Broadcast(t) \/ Mine(t)
      PROVE  Holds
  <2>1. UNCHANGED <<cursor, scanTo, queue>> /\ job[t].at \in {"relay", "wait"}
    BY <1>9, MineEffect DEF Broadcast, Mine, memory
  <2>2. PICK x : Goes(t, "wait", job[t].todo, job[t].msg, job[t].tries, x)
    BY <1>9, BroadcastEffect, MineEffect
  <2>. QED  BY <2>1, <2>2, AttemptGoesOn
<1>10. ASSUME NEW t \in Threads, AlreadyProcessed(t) \/ Confirmed(t)
       PROVE  Holds
  <2>1. /\ UNCHANGED <<cursor, scanTo, queue>> /\ job[t].at \in {"relay", "wait"} /\ Resume(t)
        /\ job[t].msg \in minted
    BY <1>10 DEF AlreadyProcessed, Confirmed, Truthful
  <2>2. Empties(t, Back(t))
    BY <2>1, ThreadFacts, ResumeGoes
  <2>. QED  BY <2>1, <2>2, AttemptEnds DEF Queued
<1>11. ASSUME NEW t \in Threads, BroadcastFails(t) \/ WaitFails(t)
       PROVE  Holds
  BY <1>11, FailKeeps DEF BroadcastFails, WaitFails
<1>12. ASSUME UNCHANGED <<job, queue, cursor, scanTo>>
       PROVE  Holds
  BY <1>12 DEF Kept, KeptHand, Busy, Hands, Queued
<1>13. SaveStatus \/ (\E c \in Chains : NewBlock(c)) \/ (\E m \in Messages : MineStray(m))
          => UNCHANGED <<job, queue, cursor, scanTo>>
  BY DEF SaveStatus, NewBlock, MineStray, memory
<1>14. NextTick => Fresh /\ UNCHANGED queue /\ job["retry"].at = "off"
  BY DEF NextTick, Fresh, memory
<1>15. Restart => Fresh
  BY DEF Restart, Fresh
<1>16. NextTick \/ Restart => Holds
  BY <1>2, <1>3, <1>14, <1>15
<1>. HIDE DEF Holds
<1>17. Holds
  BY <1>1, <1>4, <1>5, <1>6, <1>7, <1>8, <1>9, <1>10, <1>11, <1>12, <1>13, <1>16
     DEF Next, Loop, RetryStep, ScanStep, Attempt
<1>. QED  BY <1>17 DEF Holds

\* What a step does to the cursors.
LEMMA CursorStep ==
    ASSUME CctpAssumption, Inv, Next
    PROVE  \/ UNCHANGED cursor /\ file'.cursor = file.cursor
           \/ Restart /\ file' = file
           \/ \E c \in Chains : WriteCursor(c)
<1>1. ASSUME NEW t \in Threads, Attempt(t) \/ Mine(t)
      PROVE  UNCHANGED cursor
  BY <1>1 DEF Attempt, Broadcast, AlreadyProcessed, Confirmed, BroadcastFails, WaitFails, Mine, memory
<1>2. LandWrite \/ NextTick \/ RetryStep \/ SaveStatus \/ (\E m \in Messages : MineStray(m)) => UNCHANGED cursor
  BY DEF LandWrite, NextTick, RetryStep, StartRetries, TakeReady, EndRetries, SaveStatus, MineStray, memory
<1>3. ASSUME NEW c \in Chains, ScanStep(c) \/ NewBlock(c), ~WriteCursor(c)
      PROVE  UNCHANGED cursor
  BY <1>3 DEF ScanStep, BeginScan, ScanFails, ScanChunk, TakeLog, NewBlock, memory
<1>4. Restart => file' = file
  BY DEF Restart
<1>. QED  BY <1>1, <1>2, <1>3, <1>4, FileStep DEF Next, Loop

\* A chunk that is done is in the queue or over, and the cursor moves past it.
LEMMA CursorMoves ==
    ASSUME CctpAssumption, Inv, Cursors, Chunks, "disk" \notin faults, NEW c \in Chains, WriteCursor(c)
    PROVE  /\ Cursors' /\ Passed' \subseteq Passed \cup ChunkOf(c) /\ ChunkOf(c) \subseteq Queued \cup Over
           /\ job[c].at = "log" /\ UNCHANGED <<queue, writes, minted, spent>> /\ file'.queue = file.queue
<1>. DEFINE e == ChunkEnd(c)
<1>1. c \in Threads /\ job[c].at = "log" /\ job[c].todo = {}
  BY RetryIsNoChain DEF WriteCursor
<1>2. Hands(c) = {NoMessage} /\ Busy(c)
  BY <1>1, ThreadFacts DEF Stance, Fits, Hands, Busy
<1>3. ChunkOf(c) \subseteq Queued \cup Over
  BY <1>2, RetryIsNoChain DEF Chunks, ChunkOf
<1>4. e \in 0..Blocks /\ cursor[c] \in 0..Blocks /\ Blocks \in Nat /\ NoCursor \notin Nat
  BY ChunkFacts DEF CctpAssumption
<1>5. cursor \in [Chains -> 0..Blocks] /\ file.cursor \in [Chains -> 0..Blocks \cup {NoCursor}] /\ file \in Files
  BY DEF Inv, TypeOK, Records, Files
<1>6. cursor' = [cursor EXCEPT ![c] = e] /\ file' = [file EXCEPT !.cursor[c] = e]
  BY DEF WriteCursor
<1>. HIDE DEF e
<1>7. /\ cursor'[c] = e /\ file'.cursor[c] = e /\ file'.queue = file.queue
      /\ \A d \in Chains \ {c} : cursor'[d] = cursor[d] /\ file'.cursor[d] = file.cursor[d]
  BY <1>5, <1>6 DEF Files
<1>8. Cursors'
  BY <1>4, <1>7 DEF Cursors
<1>9. ASSUME NEW m \in Messages, file'.cursor[ChainOf[m]] # NoCursor, BlockOf[m] <= file'.cursor[ChainOf[m]],
             m \notin Passed
      PROVE  m \in ChunkOf(c)
  <2>1. ChainOf[m] = c
    BY <1>7, <1>9 DEF Passed, CctpAssumption
  <2>2. BlockOf[m] <= e /\ BlockOf[m] \in 1..Blocks
    BY <1>7, <1>9, <2>1 DEF CctpAssumption
  <2>3. BlockOf[m] > cursor[c]
    <3>1. CASE file.cursor[c] = NoCursor
      BY <2>2, <3>1 DEF Cursors
    <3>2. CASE file.cursor[c] # NoCursor
      <4>1. cursor[c] = file.cursor[c] /\ ~(BlockOf[m] <= file.cursor[c])
        BY <1>9, <2>1, <3>2 DEF Cursors, Passed
      <4>. QED  BY <1>4, <2>2, <4>1
    <3>. QED  BY <3>1, <3>2
  <2>4. BlockOf[m] \in (cursor[c] + 1)..e
    BY <1>4, <2>2, <2>3
  <2>. QED  BY <2>1, <2>4 DEF ChunkOf, e
<1>10. Passed' \subseteq Passed \cup ChunkOf(c)
  BY <1>9 DEF Passed
<1>11. UNCHANGED <<queue, writes, minted, spent>>
  BY DEF WriteCursor, outside
<1>. QED  BY <1>1, <1>3, <1>7, <1>8, <1>10, <1>11

\* The cursor stays where its file is, over a restart of a relayer that keeps up as well.
LEMMA CursorsKept ==
    ASSUME CctpAssumption, Inv, Cursors, Chunks, KeepsUp, "disk" \notin faults, Next
    PROVE  Cursors'
<1>1. ASSUME Restart, file' = file
      PROVE  Cursors'
  <2>1. SUFFICES ASSUME NEW c \in Chains
                 PROVE  cursor'[c] = IF file.cursor[c] = NoCursor THEN 0 ELSE file.cursor[c]
    BY <1>1 DEF Cursors
  <2>2. cursor'[c] = BootCursor(c)
    BY <1>1 DEF Restart
  <2>3. head[c] \in Nat /\ file.cursor[c] \in Nat \cup {NoCursor} /\ BootLookback \in Nat /\ MaxBootLookback \in Nat
    BY ChunkFacts DEF CctpAssumption, Inv, Records, Files
  <2>4. CASE file.cursor[c] = NoCursor
    <3>1. head[c] <= BootLookback
      BY <2>4 DEF KeepsUp
    <3>. QED  BY <2>2, <2>3, <2>4, <3>1 DEF BootCursor
  <2>5. CASE file.cursor[c] # NoCursor
    <3>1. head[c] <= file.cursor[c] + MaxBootLookback
      BY <2>5 DEF KeepsUp
    <3>. QED  BY <2>2, <2>3, <2>5, <3>1 DEF BootCursor
  <2>. QED  BY <2>4, <2>5
<1>2. ASSUME UNCHANGED cursor, file'.cursor = file.cursor
      PROVE  Cursors'
  BY <1>2 DEF Cursors
<1>. QED  BY <1>1, <1>2, CursorStep, CursorMoves

\* A message the cursor file has passed stays in the queue, in hand or over.
LEMMA InHandKept ==
    ASSUME CctpAssumption, Inv, Truthful, Cursors, Chunks, InHand, OnFile, "disk" \notin faults, Next
    PROVE  InHand'
<1>1. Over \subseteq Over' /\ Passed \subseteq Messages /\ NoMessage \notin Messages
  BY OverGrows, RetryIsNoChain DEF Passed
<1>2. ASSUME Passed' \subseteq Queued \cup Over \cup {job["retry"].msg}, KeptHand
      PROVE  InHand'
  <2>1. NoMessage \notin Passed'
    BY <1>1 DEF Passed
  <2>2. Passed' \subseteq DOMAIN queue' \cup Over' \cup {job'["retry"].msg}
    BY <1>1, <1>2, <2>1 DEF KeptHand
  <2>. QED  BY <2>2 DEF InHand, Queued
<1>3. ASSUME Restart, file' = file
      PROVE  InHand'
  <2>1. queue' = file.queue /\ Passed' = Passed
    BY <1>3 DEF Restart, Passed
  <2>2. Passed' \subseteq DOMAIN queue' \cup Over'
    BY <1>1, <2>1 DEF OnFile
  <2>. QED  BY <2>2 DEF InHand, Queued
<1>4. ASSUME file'.cursor = file.cursor, KeptHand
      PROVE  InHand'
  <2>1. Passed' = Passed
    BY <1>4 DEF Passed
  <2>. QED  BY <1>2, <1>4, <2>1 DEF InHand
<1>5. ASSUME NEW c \in Chains, WriteCursor(c), KeptHand
      PROVE  InHand'
  BY <1>2, <1>5, CursorMoves DEF InHand
<1>6. Restart => file' = file
  BY DEF Restart
<1>. QED  BY <1>3, <1>4, <1>5, <1>6, CursorStep, KeptStep

\* A write that holds what the cursor file has passed keeps OnFile.
LEMMA OnFileAppends ==
    ASSUME CctpAssumption, Inv, OnFile, NEW t \in Threads, NEW q \in Queues, Over \subseteq Over',
           writes' = Append(writes, [by |-> t, entries |-> q]), file' = file, Passed \subseteq DOMAIN q \cup Over'
    PROVE  OnFile'
<1>1. PICK k : k = Len(writes) + 1
  OBVIOUS
<1>2. /\ Len(writes) \in Nat /\ DOMAIN writes = 1..Len(writes) /\ DOMAIN writes' = 1..k
      /\ \A i \in DOMAIN writes : writes'[i] = writes[i]
      /\ writes'[k].entries = q
  BY <1>1, EntriesTyped, AppendFacts
<1>3. \A i \in 1..k : i \in DOMAIN writes \/ i = k
  BY <1>1, <1>2
<1>4. Passed' = Passed
  BY DEF Passed
<1>. QED  BY <1>2, <1>3, <1>4 DEF OnFile

\* A message the cursor file has passed stays in the queue file, or over.
LEMMA OnFileKept ==
    ASSUME CctpAssumption, Inv, Lagging, Cursors, Chunks, InHand, InHand', OnFile, "disk" \notin faults, Next
    PROVE  OnFile'
<1>1. Over \subseteq Over' /\ Passed \subseteq Messages /\ NoMessage \notin Messages
  BY OverGrows, RetryIsNoChain DEF Passed
<1>2. ASSUME file' = file
      PROVE  Passed' = Passed
  BY <1>2 DEF Passed
<1>3. ASSUME LandWrite
      PROVE  OnFile'
  <2>1. /\ \A i \in DOMAIN writes' : writes'[i] = writes[i + 1] /\ i + 1 \in DOMAIN writes
        /\ 1 \in DOMAIN writes /\ file'.queue = writes[1].entries /\ file'.cursor = file.cursor
    BY <1>3, LandFacts
  <2>2. Passed' = Passed
    BY <2>1 DEF Passed
  <2>. QED  BY <1>1, <2>1, <2>2 DEF OnFile
<1>4. ASSUME UNCHANGED <<writes, file>>
      PROVE  OnFile'
  BY <1>1, <1>2, <1>4 DEF OnFile
<1>5. ASSUME EndRetries
      PROVE  OnFile'
  <2>1. /\ writes' = Append(writes, [by |-> "retry", entries |-> queue]) /\ job["retry"].msg = NoMessage
        /\ file' = file /\ "retry" \in Threads
    BY <1>5, EndEffect, RetryIsNoChain DEF EndRetries
  <2>2. Passed \subseteq DOMAIN queue \cup Over'
    BY <1>1, <2>1 DEF InHand, Queued
  <2>. QED  BY <1>1, <2>1, <2>2, EntriesTyped, OnFileAppends
<1>6. ASSUME Restart
      PROVE  OnFile'
  <2>1. writes' = << >> /\ file' = file
    BY <1>6 DEF Restart
  <2>. QED  BY <1>1, <1>2, <2>1 DEF OnFile
<1>7. ASSUME NEW t \in Threads, job[t].at \in {"relay", "wait"}, Fail(t), UNCHANGED file
      PROVE  OnFile'
  <2>1. Records /\ Holding /\ job[t].msg \in Messages
    BY <1>7, FailFacts DEF Inv
  <2>2. ASSUME NEW n \in 1..MaxRetries, Enqueues(t, n)
        PROVE  OnFile'
    <3>1. writes' = Append(writes, [by |-> t, entries |-> queue']) /\ Empties(t, "persist")
      BY <2>2 DEF Enqueues
    <3>2. queue' \in Queues
      BY <2>1, <2>2, EntriesTyped, AddedFacts DEF Enqueues
    <3>3. job'["retry"].msg = NoMessage
      <4>1. job'[t].msg = NoMessage /\ \A u \in Threads \ {t} : job'[u] = job[u]
        BY <3>1, GoesFacts DEF Empties
      <4>2. t # "retry" => job["retry"].at = "off" /\ Stance("retry")
        BY <1>7, Resting, RetryIsNoChain, ThreadFacts DEF ScansDone, Threads
      <4>. QED  BY <4>1, <4>2, RetryIsNoChain DEF Stance, Fits
    <3>4. Passed \subseteq DOMAIN queue' \cup Over'
      <4>1. Passed' \subseteq DOMAIN queue' \cup Over' \cup {NoMessage}
        BY <3>3 DEF InHand, Queued
      <4>. QED  BY <1>1, <1>2, <1>7, <4>1
    <3>. QED  BY <1>1, <1>7, <3>1, <3>2, <3>4, OnFileAppends
  <2>3. UNCHANGED writes => OnFile'
    BY <1>4, <1>7
  <2>. QED  BY <1>7, <2>1, <2>2, <2>3, FailFacts
<1>8. ASSUME NEW c \in Chains, WriteCursor(c)
      PROVE  OnFile'
  <2>1. /\ Passed' \subseteq Passed \cup ChunkOf(c) /\ ChunkOf(c) \subseteq Queued \cup Over
        /\ job[c].at = "log" /\ UNCHANGED <<queue, writes>> /\ file'.queue = file.queue
    BY <1>8, CursorMoves
  <2>2. job["retry"].at = "off" /\ c \in Threads
    BY <2>1, Resting, RetryIsNoChain DEF ScansDone
  <2>3. \A i \in DOMAIN writes : writes[i].by # c
    BY <2>1, <2>2, NoWriteOf
  <2>4. \A i \in Nat, m \in ChunkOf(c) : ~Follows(i, m)
    BY <2>3 DEF Follows, ChunkOf
  <2>5. \A i \in DOMAIN writes : i \in Nat
    BY EntriesTyped, LenProperties
  <2>6. /\ ChunkOf(c) \cap Queued \subseteq DOMAIN file.queue
        /\ \A i \in DOMAIN writes : ChunkOf(c) \cap Queued \subseteq DOMAIN writes[i].entries
    BY <2>2, <2>4, <2>5 DEF Lagging
  <2>. QED  BY <1>1, <2>1, <2>6 DEF OnFile
<1>9. ASSUME UNCHANGED writes, file'.queue = file.queue, ~(\E c \in Chains : WriteCursor(c))
      PROVE  OnFile'
  <2>1. Passed' = Passed
    BY <1>9, FileStep DEF Passed
  <2>. QED  BY <1>1, <1>9, <2>1 DEF OnFile
<1>10. ASSUME NEW m \in Messages, TakeReady(m)
       PROVE  OnFile'
  BY <1>4, <1>10 DEF TakeReady
<1>. QED  BY <1>3, <1>5, <1>6, <1>7, <1>8, <1>9, <1>10, QueueStep

\* At the start nothing is passed.
LEMMA CarryingInit ==
    ASSUME CctpAssumption, Init
    PROVE  Carrying
<1>1. Cursors /\ Passed = {}
  BY DEF Init, Cursors, Passed, CctpAssumption
<1>2. Chunks
  BY RetryIsNoChain DEF Init, Idle, Chunks, Busy, Threads
<1>3. OnFile /\ InHand
  BY <1>1 DEF Init, OnFile, InHand
<1>. QED  BY <1>1, <1>2, <1>3 DEF Carrying

\* Every step of a relayer that keeps up keeps Carrying.
LEMMA CarryingKept ==
    ASSUME CctpAssumption, Inv, Truthful, Lagging, Carrying, KeepsUp, [Next]_vars
    PROVE  Carrying'
<1>1. ASSUME UNCHANGED vars
      PROVE  Carrying'
  BY <1>1 DEF vars, outside, memory, Carrying, Cursors, Chunks, InHand, OnFile, Passed, Busy, ChunkOf, ChunkEnd,
              Hands, Queued, Over
<1>2. ASSUME Next, "disk" \notin faults
      PROVE  Carrying'
  <2>1. Cursors /\ Chunks /\ InHand /\ OnFile
    BY <1>2 DEF Carrying
  <2>2. Cursors'
    BY <1>2, <2>1, CursorsKept
  <2>3. Chunks'
    BY <1>2, <2>1, ChunksStay, KeptStep, OverGrows
  <2>4. InHand'
    BY <1>2, <2>1, InHandKept
  <2>5. OnFile'
    BY <1>2, <2>1, <2>4, OnFileKept
  <2>. QED  BY <2>2, <2>3, <2>4, <2>5 DEF Carrying
<1>3. Next => UNCHANGED faults
  BY DEF Next
<1>4. ASSUME Next, "disk" \in faults
      PROVE  Carrying'
  BY <1>3, <1>4 DEF Carrying
<1>. QED  BY <1>1, <1>2, <1>4

\* What the run checks follows.
LEMMA CarryingIsEnough ==
    ASSUME CctpAssumption, Inv, Truthful, Carrying
    PROVE  NothingLost
<1>1. NoStranding
  BY DEF NoStranding, Carrying, OnFile, Passed, Over
<1>. QED  BY <1>1 DEF NothingLost, Inv, Truthful

-----------------------------------------------------------------------------
(* Theorems *)

(* The threads of the mock bridge keep to their places in every reachable   *)
(* state: the retries run while no chain is scanned, a thread that waits for *)
(* the queue file has one write under way, and what is said to be minted is. *)
THEOREM CctpInvariant == CctpAssumption => (Spec => [](Inv /\ Truthful))
<1>. SUFFICES ASSUME CctpAssumption
              PROVE  Spec => [](Inv /\ Truthful)
  OBVIOUS
<1>1. Init => Inv /\ Truthful
  BY InvInit, TruthfulInit
<1>2. Inv /\ Truthful /\ [Next]_vars => (Inv /\ Truthful)'
  BY InvKept, TruthfulKept
<1>. QED  BY <1>1, <1>2, PTL DEF Spec

(* ProcessedIsMinted and StatusIsTrue: what counts as relayed or is reported *)
(* as delivered is minted, however waits, timeouts and kills fell.          *)
THEOREM CctpTruthful == CctpAssumption => (Spec => [](ProcessedIsMinted /\ StatusIsTrue))
<1>. SUFFICES ASSUME CctpAssumption
              PROVE  Spec => [](ProcessedIsMinted /\ StatusIsTrue)
  OBVIOUS
<1>1. Spec => [](Inv /\ Truthful)
  BY CctpInvariant
<1>2. Inv /\ Truthful => ProcessedIsMinted /\ StatusIsTrue
  BY DEF Truthful
<1>. QED  BY <1>1, <1>2, PTL

(* NothingLost of the mock bridge, as long as the relayer does not fall behind *)
(* a chain by more than its lookback: a burn that the cursor file has passed *)
(* is in the queue file, minted, or has used up its retries.                *)
THEOREM CctpKeepsUp == CctpAssumption => (Spec /\ []KeepsUp => []NothingLost)
<1>. SUFFICES ASSUME CctpAssumption
              PROVE  Spec /\ []KeepsUp => []NothingLost
  OBVIOUS
<1>1. Init => Inv /\ Truthful /\ Lagging /\ Carrying
  BY InvInit, TruthfulInit, LaggingInit, CarryingInit
<1>2. Inv /\ Truthful /\ Lagging /\ Carrying /\ KeepsUp /\ [Next]_vars => (Inv /\ Truthful /\ Lagging /\ Carrying)'
  BY InvKept, TruthfulKept, LaggingKept, CarryingKept
<1>3. Inv /\ Truthful /\ Lagging /\ Carrying => NothingLost
  BY CarryingIsEnough
<1>. QED  BY <1>1, <1>2, <1>3, PTL DEF Spec

(* AttemptsOnlyGrow: over overlapping writes, rescans and restarts no entry of *)
(* the queue file gets an attempt back, as long as the files can be written. *)
THEOREM CctpAttempts == CctpAssumption => (Spec => AttemptsOnlyGrow)
<1>. SUFFICES ASSUME CctpAssumption
              PROVE  Spec => AttemptsOnlyGrow
  OBVIOUS
<1>. DEFINE Grow == "disk" \notin faults =>
                        \A m \in DOMAIN file.queue \cap DOMAIN file'.queue : file'.queue[m] >= file.queue[m]
<1>1. Init => Inv /\ Lagging /\ Growing
  BY InvInit, LaggingInit, GrowingInit
<1>2. Inv /\ Lagging /\ Growing /\ [Next]_vars => (Inv /\ Lagging /\ Growing)' /\ Grow
  <2>1. SUFFICES ASSUME Inv, Lagging, Growing, [Next]_vars
                 PROVE  (Inv /\ Lagging /\ Growing)' /\ Grow
    OBVIOUS
  <2>2. Inv' /\ Lagging' /\ Growing'
    BY <2>1, InvKept, LaggingKept, GrowingKept
  <2>3. "disk" \notin faults => NoFewer(file.queue, file'.queue)
    BY <2>1, GrowingKept
  <2>4. file.queue \in Queues /\ file'.queue \in Queues
    BY <2>1, <2>2, EntriesTyped DEF Inv, Records, Files
  <2>5. \A m \in DOMAIN file.queue : file.queue[m] \in Nat
    BY <2>4, QueueFacts
  <2>6. \A m \in DOMAIN file'.queue : file'.queue[m] \in Nat
    BY <2>4, QueueFacts
  <2>. QED  BY <2>2, <2>3, <2>5, <2>6 DEF NoFewer
<1>. HIDE DEF Grow
<1>3. Spec => [][Grow]_vars
  BY <1>1, <1>2, PTL DEF Spec
<1>. QED  BY <1>3 DEF AttemptsOnlyGrow, Grow

==============================================================================
