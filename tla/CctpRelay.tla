------------------------------ MODULE CctpRelay ------------------------------
(***************************************************************************)
(* The relayer's mock-CCTP path (relayer/modules/cctp-relay.ts): the source *)
(* chains are scanned in parallel, each message is relayed and confirmed in *)
(* the scan itself, and a failed one goes to a retry queue that all chains  *)
(* share, that is worked off after the scans, and whose file               *)
(* (retry-queue-store.ts) is what recovers it after a crash: the cursor     *)
(* does not wait for failures.  `job` holds where each of these threads of  *)
(* control stands; "retry" is the one of processRetryQueue.                 *)
(***************************************************************************)
EXTENDS Naturals, Sequences, FiniteSets

CONSTANTS
    Chains,         \* source chains
    Messages,       \* burns: one MessageSent log each (a messageKey)
    ChainOf,        \* the source chain of each burn
    BlockOf,        \* its block there
    Blocks,         \* bound: last block of each source chain
    MaxRange,       \* scanner.maxLogRange
    BootLookback,   \* scanner.bootLookbackBlocks
    MaxBootLookback,\* scanner.maxBootLookbackBlocks
    NoCursor,       \* no cursor file
    NoMessage,
    MaxRetries,     \* MAX_RETRIES
    ProcessedCap,   \* PROCESSED_SET_CAP
    MaxCrashes,     \* bound: times the process is killed
    FaultSets       \* the combinations of faults to explore: {"disk"}, writes of state files may fail, or {}

(* What the relay relies on; the module that instantiates it assumes it.   *)
CctpAssumption ==
    /\ {Blocks, MaxCrashes} \subseteq Nat
    /\ ChainOf \in [Messages -> Chains] /\ BlockOf \in [Messages -> 1..Blocks]
    /\ MaxRange \in Nat \ {0} /\ MaxRetries \in Nat \ {0} /\ ProcessedCap \in Nat \ {0}
    /\ BootLookback \in Nat /\ MaxBootLookback \in Nat
    /\ FaultSets \subseteq SUBSET {"disk"}
    /\ NoCursor \notin Nat /\ NoMessage \notin Messages /\ "retry" \notin Chains

VARIABLES
    head,       \* source chain -> its head less the confirmation depth
    minted,     \* burns minted on the destination chain
    stray,      \* mint transactions in the mempool that nobody waits for
    job,        \* thread -> [at, todo, msg, tries, tx]
    cursor,     \* source chain -> lastProcessedBlock
    scanTo,     \* source chain -> toBlock of the scan under way
    queue,      \* retryQueue: message -> attempts, a partial function
    writes,     \* writes of the queue file under way, in order: [by, entries]
    processed,  \* source chain -> processedMessages, oldest first
    dead,       \* deadLetters
    spent,      \* messages whose last retry failed (history: the code keeps no trace)
    status,     \* delivery index in memory
    file,       \* the state files: [queue, cursor, status]
    crashes,    \* times the process was killed
    faults      \* what may go wrong in this behaviour

outside == <<head, minted, stray>>
memory == <<cursor, queue, processed, dead, status>>
vars == <<outside, job, scanTo, writes, memory, spent, file, crashes, faults>>

Threads == Chains \cup {"retry"}
Idle(at) == [at |-> at, todo |-> {}, msg |-> NoMessage, tries |-> 0, tx |-> "none"]
Queued == DOMAIN queue
Processed(m) == \E i \in DOMAIN processed[ChainOf[m]] : processed[ChainOf[m]][i] = m

TypeOK ==
    /\ head \in [Chains -> 0..Blocks] /\ cursor \in [Chains -> 0..Blocks] /\ scanTo \in [Chains -> 0..Blocks]
    /\ minted \subseteq Messages /\ stray \subseteq Messages
    /\ \A t \in Threads :
        /\ job[t].at \in {"poll", "scan", "log", "relay", "wait", "persist", "save", "done", "off", "next"}
        /\ job[t].todo \subseteq Messages /\ job[t].msg \in Messages \cup {NoMessage}
        /\ job[t].tries \in 0..MaxRetries /\ job[t].tx \in {"none", "pooled", "ok", "reverted"}
    /\ Queued \subseteq Messages /\ \A m \in Queued : queue[m] \in 1..MaxRetries
    /\ \A c \in Chains : processed[c] \in Seq(Messages) /\ Len(processed[c]) <= ProcessedCap
    /\ status \in [Messages -> {"unknown", "pending", "delivered", "failed"}]
    /\ faults \in FaultSets

Init ==
    /\ head = [c \in Chains |-> 0] /\ cursor = head /\ scanTo = head
    /\ minted = {} /\ stray = {} /\ queue = << >> /\ writes = << >> /\ dead = {} /\ spent = {}
    /\ job = [t \in Threads |-> Idle(IF t = "retry" THEN "off" ELSE "poll")]
    /\ processed = [c \in Chains |-> << >>]
    /\ status = [m \in Messages |-> "unknown"]
    /\ file = [queue |-> << >>, cursor |-> [c \in Chains |-> NoCursor], status |-> status]
    /\ crashes = 0
    /\ faults \in FaultSets

(* A set in insertion order; over the cap the oldest goes. *)
MarkProcessed(m) ==
    LET old == processed[ChainOf[m]]
        new == IF Processed(m) THEN old ELSE Append(old, m)
    IN processed' = [processed EXCEPT ![ChainOf[m]] = IF Len(new) > ProcessedCap THEN Tail(new) ELSE new]

(* Back to the loop over logs, or over ready entries. *)
Resumed(t) == [job[t] EXCEPT !.at = IF t = "retry" THEN "next" ELSE "log", !.msg = NoMessage, !.tries = 0, !.tx = "none"]
Resume(t) == job' = [job EXCEPT ![t] = Resumed(t)]

(* persistRetryQueue takes its snapshot now; writes of one file land in order. *)
Snapshot(t, entries) == writes' = Append(writes, [by |-> t, entries |-> entries])

(* At the limit the message would be dead-lettered. *)
EnqueueRetry(t, m, tries) ==
    IF tries >= MaxRetries
    THEN /\ dead' = dead \cup {m} /\ MarkProcessed(m)
         /\ status' = [status EXCEPT ![m] = "failed"]
         /\ Resume(t) /\ UNCHANGED <<queue, writes>>
    ELSE /\ UNCHANGED <<dead, processed, status>>
         /\ IF m \in Queued
            THEN Resume(t) /\ UNCHANGED <<queue, writes>>
            ELSE /\ queue' = [k \in Queued \cup {m} |-> IF k = m THEN tries + 1 ELSE queue[k]]
                 /\ Snapshot(t, queue')
                 /\ job' = [job EXCEPT ![t] = [Resumed(t) EXCEPT !.at = "persist"]]

(* What follows a relay attempt of thread t that threw. *)
Fail(t) ==
    LET m == job[t].msg IN
    IF t # "retry"
    THEN EnqueueRetry(t, m, 0) /\ UNCHANGED spent
    ELSE IF job[t].tries < MaxRetries
         THEN EnqueueRetry(t, m, job[t].tries) /\ UNCHANGED spent
         ELSE /\ Resume(t) /\ spent' = spent \cup {m}
              /\ UNCHANGED <<queue, writes, dead, processed, status>>

(***************************************************************************)
(* pollChain                                                               *)
(***************************************************************************)
BeginScan(c) ==
    /\ job[c].at = "poll"
    /\ scanTo' = [scanTo EXCEPT ![c] = head[c]]
    /\ job' = [job EXCEPT ![c] = Idle(IF head[c] > cursor[c] THEN "scan" ELSE "done")]
    /\ UNCHANGED <<outside, writes, memory, spent, file, crashes>>

ScanFails(c) ==
    /\ job[c].at = "scan"
    /\ job' = [job EXCEPT ![c] = Idle("done")]
    /\ UNCHANGED <<outside, scanTo, writes, memory, spent, file, crashes>>

ChunkEnd(c) == IF cursor[c] + MaxRange < scanTo[c] THEN cursor[c] + MaxRange ELSE scanTo[c]

ScanChunk(c) ==
    /\ job[c].at = "scan"
    /\ job' = [job EXCEPT ![c] = [Idle("log") EXCEPT !.todo =
                {m \in Messages : ChainOf[m] = c /\ BlockOf[m] \in (cursor[c] + 1)..ChunkEnd(c)}]]
    /\ UNCHANGED <<outside, scanTo, writes, memory, spent, file, crashes>>

(* relayMessage up to the broadcast; the logs' order is left open. *)
TakeLog(c, m) ==
    /\ job[c].at = "log" /\ m \in job[c].todo
    /\ IF Processed(m)
       THEN /\ job' = [job EXCEPT ![c].todo = @ \ {m}]
            /\ UNCHANGED status
       ELSE /\ job' = [job EXCEPT ![c].todo = @ \ {m}, ![c].at = "relay", ![c].msg = m]
            /\ status' = [status EXCEPT ![m] = IF @ = "unknown" THEN "pending" ELSE @]
    /\ UNCHANGED <<outside, scanTo, writes, cursor, queue, processed, dead, spent, file, crashes>>

(* All logs of the chunk are relayed or queued: the cursor advances in      *)
(* memory and on disk; a failed write throws and ends the scan.             *)
WriteCursor(c) ==
    /\ job[c].at = "log" /\ job[c].todo = {}
    /\ cursor' = [cursor EXCEPT ![c] = ChunkEnd(c)]
    /\ \/ /\ file' = [file EXCEPT !.cursor[c] = ChunkEnd(c)]
          /\ job' = [job EXCEPT ![c] = Idle(IF ChunkEnd(c) < scanTo[c] THEN "scan" ELSE "done")]
       \/ "disk" \in faults /\ UNCHANGED file /\ job' = [job EXCEPT ![c] = Idle("done")]
    /\ UNCHANGED <<outside, scanTo, writes, queue, processed, dead, status, spent, crashes>>

(***************************************************************************)
(* processRetryQueue                                                       *)
(***************************************************************************)
ScansDone == \A c \in Chains : job[c].at = "done"

\* Mutant: due entries are retried while chains are still being scanned.
StartRetriesEarly(due) ==
    /\ job["retry"].at = "off" /\ due # {} /\ due \subseteq Queued
    /\ job' = [job EXCEPT !["retry"] = [Idle("next") EXCEPT !.todo = due]]
    /\ UNCHANGED <<outside, scanTo, writes, memory, spent, file, crashes>>

(* The entries whose backoff is over, after the scans of the tick. *)
StartRetries(due) ==
    /\ ScansDone /\ job["retry"].at = "off" /\ due # {} /\ due \subseteq Queued
    /\ job' = [job EXCEPT !["retry"] = [Idle("next") EXCEPT !.todo = due]]
    /\ UNCHANGED <<outside, scanTo, writes, memory, spent, file, crashes>>

(* Removed from the queue in memory before the attempt. *)
TakeReady(m) ==
    /\ job["retry"].at = "next" /\ m \in job["retry"].todo
    /\ queue' = [k \in Queued \ {m} |-> queue[k]]
    /\ job' = IF Processed(m)
              THEN [job EXCEPT !["retry"].todo = @ \ {m}]
              ELSE [job EXCEPT !["retry"].todo = @ \ {m}, !["retry"].at = "relay",
                               !["retry"].msg = m, !["retry"].tries = queue[m]]
    /\ UNCHANGED <<outside, scanTo, writes, cursor, processed, dead, status, spent, file, crashes>>

(* The net queue is written once more. *)
EndRetries ==
    /\ job["retry"].at = "next" /\ job["retry"].todo = {}
    /\ Snapshot("retry", queue)
    /\ job' = [job EXCEPT !["retry"].at = "save"]
    /\ UNCHANGED <<outside, scanTo, memory, spent, file, crashes>>

(* The next tick of runPollLoop. *)
NextTick ==
    /\ ScansDone /\ job["retry"].at = "off"
    /\ job' = [t \in Threads |-> Idle(IF t = "retry" THEN "off" ELSE "poll")]
    /\ UNCHANGED <<outside, scanTo, writes, memory, spent, file, crashes>>

(* The oldest write lands, or fails and is only logged; its thread goes on, *)
(* or ends when it was the write of EndRetries.                             *)
LandWrite ==
    /\ writes # << >>
    /\ \/ file' = [file EXCEPT !.queue = Head(writes).entries]
       \/ "disk" \in faults /\ UNCHANGED file
    /\ LET t == Head(writes).by IN
       job' = [job EXCEPT ![t] = IF job[t].at = "save" THEN Idle("off") ELSE Resumed(t)]
    /\ writes' = Tail(writes)
    /\ UNCHANGED <<outside, scanTo, memory, spent, crashes>>

(***************************************************************************)
(* One attempt, by a scan or by the retry queue                            *)
(***************************************************************************)
Broadcast(t) ==
    /\ job[t].at = "relay" /\ job[t].msg \notin minted
    /\ job' = [job EXCEPT ![t].at = "wait", ![t].tx = "pooled"]
    /\ UNCHANGED <<outside, scanTo, writes, memory, spent, file, crashes>>

(* The destination reports the message as processed. *)
AlreadyProcessed(t) ==
    /\ job[t].at = "relay" /\ job[t].msg \in minted
    /\ MarkProcessed(job[t].msg)
    /\ Resume(t)
    /\ UNCHANGED <<outside, scanTo, writes, cursor, queue, dead, status, spent, file, crashes>>

(* The broadcast is refused, or times out here and reaches the node anyway: *)
(* withTimeout does not cancel it.                                          *)
BroadcastFails(t) ==
    /\ job[t].at = "relay"
    /\ stray' \in {stray, stray \cup {job[t].msg}}
    /\ Fail(t)
    /\ UNCHANGED <<head, minted, scanTo, cursor, file, crashes>>

Confirmed(t) ==
    /\ job[t].at = "wait" /\ job[t].tx = "ok"
    /\ MarkProcessed(job[t].msg)
    /\ status' = [status EXCEPT ![job[t].msg] = "delivered"]
    /\ Resume(t)
    /\ UNCHANGED <<outside, scanTo, writes, cursor, queue, dead, spent, file, crashes>>

(* tx.wait throws for a reverted transaction, and times out for any other,  *)
(* which may then be mined with nobody waiting.                             *)
WaitFails(t) ==
    /\ job[t].at = "wait"
    /\ stray' = IF job[t].tx = "pooled" THEN stray \cup {job[t].msg} ELSE stray
    /\ Fail(t)
    /\ UNCHANGED <<head, minted, scanTo, cursor, file, crashes>>

(***************************************************************************)
(* The process and its surroundings                                        *)
(***************************************************************************)
(* A fire-and-forget write of the delivery index lands. *)
SaveStatus ==
    /\ file.status # status
    /\ file' = [file EXCEPT !.status = status]
    /\ UNCHANGED <<outside, job, scanTo, writes, memory, spent, crashes>>

(* resolveBootCursor. *)
BootCursor(c) ==
    IF file.cursor[c] = NoCursor \/ (file.cursor[c] # NoCursor /\ head[c] > file.cursor[c] + MaxBootLookback)
    THEN IF head[c] > BootLookback THEN head[c] - BootLookback ELSE 0
    ELSE file.cursor[c]

(* The process dies; initialize reads the files back.  Processed messages   *)
(* are not kept.                                                            *)
Restart ==
    /\ crashes < MaxCrashes
    /\ crashes' = crashes + 1
    /\ stray' = stray \cup {job[t].msg : t \in {u \in Threads : job[u].tx = "pooled"}}
    /\ job' = [t \in Threads |-> Idle(IF t = "retry" THEN "off" ELSE "poll")]
    /\ cursor' = [c \in Chains |-> BootCursor(c)] /\ scanTo' = [c \in Chains |-> 0]
    /\ queue' = file.queue /\ status' = file.status /\ writes' = << >>
    /\ processed' = [c \in Chains |-> << >>]
    /\ UNCHANGED <<head, minted, dead, spent, file>>

NewBlock(c) ==
    /\ head[c] < Blocks
    /\ head' = [head EXCEPT ![c] = @ + 1]
    /\ UNCHANGED <<minted, stray, job, scanTo, writes, memory, spent, file, crashes>>

(* A mint is mined; it reverts when the burn is minted already, and may     *)
(* revert for reasons of its own.                                           *)
Mine(t) ==
    /\ job[t].tx = "pooled"
    /\ \/ /\ job[t].msg \notin minted
          /\ minted' = minted \cup {job[t].msg}
          /\ job' = [job EXCEPT ![t].tx = "ok"]
       \/ job' = [job EXCEPT ![t].tx = "reverted"] /\ UNCHANGED minted
    /\ UNCHANGED <<head, stray, scanTo, writes, memory, spent, file, crashes>>

MineStray(m) ==
    /\ m \in stray
    /\ stray' = stray \ {m}
    /\ minted' \in {minted, minted \cup {m}}
    /\ UNCHANGED <<head, job, scanTo, writes, memory, spent, file, crashes>>

ScanStep(c) ==
    \/ BeginScan(c) \/ ScanFails(c) \/ ScanChunk(c) \/ WriteCursor(c)
    \/ \E m \in Messages : TakeLog(c, m)

Attempt(t) == Broadcast(t) \/ AlreadyProcessed(t) \/ BroadcastFails(t) \/ Confirmed(t) \/ WaitFails(t)

RetryStep ==
    \/ \E due \in SUBSET Messages : StartRetries(due)
    \/ \E m \in Messages : TakeReady(m)
    \/ EndRetries

Loop == LandWrite \/ NextTick \/ RetryStep \/ (\E c \in Chains : ScanStep(c)) \/ (\E t \in Threads : Attempt(t))

Next ==
    /\ \/ Loop \/ SaveStatus \/ Restart
       \/ \E c \in Chains : NewBlock(c)
       \/ \E t \in Threads : Mine(t)
       \/ \E m \in Messages : MineStray(m)
    /\ UNCHANGED faults

Spec == Init /\ [][Next]_vars

(* The event loop runs every thread of control; a backoff runs out while    *)
(* ticks go by; the source RPC answers in the end.                          *)
Fairness ==
    /\ WF_vars(LandWrite /\ UNCHANGED faults) /\ WF_vars(Loop /\ UNCHANGED faults)
    /\ \A t \in Threads : WF_vars(Attempt(t) /\ UNCHANGED faults)
    /\ \A c \in Chains : WF_vars(ScanStep(c) /\ UNCHANGED faults) /\ SF_vars(ScanChunk(c) /\ UNCHANGED faults)
    /\ \A m \in Messages :
          SF_vars(\E due \in SUBSET Messages : m \in due /\ StartRetries(due) /\ UNCHANGED faults)

FairSpec == Spec /\ Fairness

(***************************************************************************)
(* Properties                                                              *)
(***************************************************************************)
(* The relayer is never further behind a chain than its lookback, so that a *)
(* restart takes up the scan where the files left it.                       *)
KeepsUp ==
    \A c \in Chains :
        IF file.cursor[c] = NoCursor
        THEN head[c] <= BootLookback
        ELSE head[c] <= file.cursor[c] + MaxBootLookback

(* The cursor may pass a failed message because the queue file holds it:    *)
(* what a crash leaves behind the cursor file is minted, in the queue file, *)
(* or has used up its retries, as long as the file can be written.          *)
NoStranding ==
    "disk" \notin faults => \A m \in Messages : file.cursor[ChainOf[m]] # NoCursor =>
        (BlockOf[m] <= file.cursor[ChainOf[m]] => m \in DOMAIN file.queue \cup minted \cup spent)

(* What counts as relayed is minted, however waits and timeouts fell.       *)
ProcessedIsMinted == \A m \in Messages : Processed(m) => m \in minted

(* The delivery index reports no mint that has not happened.                *)
StatusIsTrue == \A m \in Messages : status[m] = "delivered" => m \in minted

(* No burn is forgotten before it is minted or given up, and none counts as *)
(* done that is not.                                                        *)
NothingLost == TypeOK /\ NoStranding /\ ProcessedIsMinted /\ StatusIsTrue

(* While an entry is in the queue file its attempts only grow: neither a    *)
(* rescan of its log nor a restart gives it fresh ones, as long as the      *)
(* files can be written.                                                    *)
AttemptsOnlyGrow ==
    []["disk" \notin faults => \A m \in DOMAIN file.queue \cap DOMAIN file'.queue : file'.queue[m] >= file.queue[m]]_vars

(* A message that used up its retries is recorded for manual relay.         *)
GivenUpIsDeadLettered == spent \ minted \subseteq dead

(* Every burn is minted in the end unless its retries run out, whatever     *)
(* fails on the way but the disk.                                           *)
EveryBurnSettles ==
    \A m \in Messages :
        "disk" \notin faults /\ BlockOf[m] <= head[ChainOf[m]] ~> m \in minted \cup spent

=============================================================================
