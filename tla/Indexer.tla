------------------------------ MODULE Indexer -------------------------------
(*****************************************************************************)
(* How the crowdfund indexer ingests the sale's logs                         *)
(* (crowdfund-ui/packages/indexer/src/ingest/): ranges of confirmed blocks   *)
(* are fetched, staged, fetched again from an auditor, and the verified      *)
(* cursor moves to the end of what is verified without a gap.  The poller    *)
(* and an operator's command are processes of their own that share the       *)
(* store; a process may be killed between any two writes.                    *)
(*                                                                           *)
(* A block has at most one log, and a digest is the set of rows it was made  *)
(* from.  Times are kept as far as they decide: a backoff window is open or  *)
(* has elapsed.  Confirmed blocks do not change; what a provider says of     *)
(* the blocks above them, which only an operator asks for, is any part of    *)
(* the logs they will have.                                                  *)
(*****************************************************************************)
EXTENDS Naturals, FiniteSets, Sequences

CONSTANTS
    Logged,             \* the blocks that have a log of the sale
    ConfirmationDepth,  \* CROWDFUND_CONFIRMATION_DEPTH
    MaxBlockRange,      \* CROWDFUND_MAX_BLOCK_RANGE
    MaxAttempts,        \* CROWDFUND_REPAIR_MAX_ATTEMPTS
    MaxHead,            \* bound: blocks mined
    MaxFaults,          \* bound: fetches that fail or come back empty
    MaxCommands,        \* bound: commands of the operator
    MaxCrashes          \* bound: processes killed

ASSUME IndexerAssumption ==
    /\ Logged \subseteq 1..MaxHead
    /\ ConfirmationDepth \in Nat /\ MaxBlockRange \in Nat \ {0} /\ MaxAttempts \in Nat \ {0}
    /\ MaxHead \in Nat /\ MaxFaults \in Nat /\ MaxCommands \in Nat /\ MaxCrashes \in Nat

VARIABLES
    head,               \* the height of the chain
    rawLogs,            \* the blocks whose log has a row in the store
    ranges,             \* <<from, to>> -> the record of that range
    verifiedCursor,
    process,            \* "poller" and "cli": what each is doing
    early,              \* blocks an operator asked for before they were confirmed
    faults, commands, crashes   \* used of the bounds

store == <<rawLogs, ranges, verifiedCursor>>
bounds == <<faults, commands, crashes>>
ingestVars == <<head, store, process, early, bounds>>

Processes == {"poller", "cli"}
Blocks == 1..MaxHead
Ranges == {r \in Blocks \X Blocks : r[1] <= r[2] /\ r[2] - r[1] < MaxBlockRange}
Confirmed == IF head > ConfirmationDepth THEN head - ConfirmationDepth ELSE 0
Span(r) == r[1]..r[2]

Idle == [mode |-> "idle", at |-> "idle", work |-> <<>>, cursor |-> 0, logs |-> {}, status |-> "none",
         attempts |-> 0]
NoRecord == [status |-> "none", attempts |-> 0, waiting |-> FALSE]
Fresh(status, attempts) == [status |-> status, attempts |-> attempts, waiting |-> FALSE]

IngestInit ==
    /\ head = 0
    /\ rawLogs = {} /\ ranges = [r \in Ranges |-> NoRecord] /\ verifiedCursor = 0
    /\ process = [p \in Processes |-> Idle] /\ early = {}
    /\ faults = 0 /\ commands = 0 /\ crashes = 0

-----------------------------------------------------------------------------
Mine == head < MaxHead /\ head' = head + 1 /\ UNCHANGED <<store, process, early, bounds>>

\* The rows a provider that has the range may answer with.
Answers(r) ==
    {(Logged \cap Span(r) \cap 1..Confirmed) \cup unsettled :
        unsettled \in SUBSET (Logged \cap Span(r) \cap (Confirmed + 1)..head)}

-----------------------------------------------------------------------------
(* Records of ranges.                                                        *)
IsRepairCandidate(record) == record.status \in {"failed", "suspicious"}
IsExhausted(record) == IsRepairCandidate(record) /\ record.attempts >= MaxAttempts
Candidates == {r \in Ranges : IsRepairCandidate(ranges[r])}

\* Mutant: whatever is not verified waits for a repair.
NotVerified(record) == record.status \in {"staged", "failed", "suspicious"}

\* Backfill leaves a range to auto-reconcile: it is used up, or its window is open.
IsDeferred(record) == IsRepairCandidate(record) /\ (record.attempts >= MaxAttempts \/ record.waiting)

VerifiedBlocks == UNION {Span(r) : r \in {x \in Ranges : ranges[x].status = "verified"}}

\* Mutant: the end of the last verified range.
LastVerified ==
    CHOOSE b \in {verifiedCursor} \cup VerifiedBlocks :
       \A c \in {verifiedCursor} \cup VerifiedBlocks : c <= b

\* The end of the verified ranges that follow the cursor without a gap.
ContiguousVerifiedCursor ==
    CHOOSE b \in verifiedCursor..MaxHead :
       /\ (verifiedCursor + 1)..b \subseteq VerifiedBlocks
       /\ b + 1 \notin VerifiedBlocks

\* Ascending, by the block a range starts with, then by its end.
Before(r, s) == r[1] < s[1] \/ (r[1] = s[1] /\ r[2] < s[2])
Sorted(S) == CHOOSE q \in [1..Cardinality(S) -> S] :
                \A i, j \in DOMAIN q : i < j => Before(q[i], q[j])

\* Chunks from one block to another.
Planned(from, to) ==
    LET count == IF from > to THEN 0 ELSE (to - from) \div MaxBlockRange + 1
        start(i) == from + (i - 1) * MaxBlockRange
    IN [i \in 1..count |-> <<start(i), IF start(i) + MaxBlockRange - 1 < to
                                       THEN start(i) + MaxBlockRange - 1 ELSE to>>]
-----------------------------------------------------------------------------
(* verifyRange() of the first range of a process's work.                     *)
RangeOf(p) == Head(process[p].work)
At(p, step) == process[p].at = step
Become(p, record) == process' = [process EXCEPT ![p] = record]
Fault == faults < MaxFaults /\ faults' = faults + 1
NoFault == faults' = faults

\* One more attempt, as far as the limit tells attempts apart.
OneMore(attempts) == IF attempts < MaxAttempts THEN attempts + 1 ELSE attempts

\* On to the next range; after the last one the poller's repairs give way to its backfill.
Proceed(q) ==
    CASE Len(q.work) > 1 -> [Idle EXCEPT !.mode = q.mode, !.at = "stage", !.work = Tail(q.work)]
      [] Len(q.work) <= 1 /\ q.mode = "reconcile" -> [Idle EXCEPT !.mode = "backfill", !.at = "plan"]
      [] OTHER -> Idle

\* Backfill stops at a range it could not verify, and a repair opens a backoff window for it.
Finished(q, status) ==
    CASE status # "verified" /\ q.mode = "backfill" -> Idle
      [] status # "verified" /\ q.mode = "reconcile" -> [q EXCEPT !.at = "readBack"]
      [] OTHER -> Proceed(q)

\* stageRange(): fetch from the primary, then read the store.
Stage(p) ==
    /\ At(p, "stage")
    /\ LET read == [process[p] EXCEPT !.attempts = OneMore(ranges[RangeOf(p)].attempts),
                                      !.cursor = verifiedCursor]
           failed == [read EXCEPT !.at = "patchRange", !.status = "failed", !.cursor = 0]
       IN \/ \E logs \in Answers(RangeOf(p)) \cup {{}} :
                /\ IF logs \in Answers(RangeOf(p)) THEN NoFault ELSE Fault
                /\ Become(p, [read EXCEPT !.at = "append", !.logs = logs, !.status = "staged"])
          \/ Fault /\ Become(p, failed)
    /\ UNCHANGED <<head, store, early, commands, crashes>>

AppendRawLogs(p) ==
    /\ At(p, "append")
    /\ rawLogs' = rawLogs \cup process[p].logs
    /\ Become(p, [process[p] EXCEPT !.at = "patchRange"])
    /\ UNCHANGED <<head, ranges, verifiedCursor, early, bounds>>

\* The record of the range is written as staged, then as what the audit made of it.
PatchRange(p) ==
    LET q == process[p] IN
    /\ At(p, "patchRange")
    /\ ranges' = [ranges EXCEPT ![RangeOf(p)] = Fresh(q.status, q.attempts)]
    /\ Become(p, CASE q.status = "staged"   -> [q EXCEPT !.at = "patchIngested"]
                   [] q.status = "verified" -> [q EXCEPT !.at = "readCursor", !.attempts = 0]
                   [] OTHER                 -> Finished(q, q.status))
    /\ UNCHANGED <<head, rawLogs, verifiedCursor, early, bounds>>

\* patchMeta() replaces the cursors wholesale, by those read when the range was staged.
PatchIngested(p) ==
    /\ At(p, "patchIngested")
    /\ verifiedCursor' = process[p].cursor
    /\ Become(p, [process[p] EXCEPT !.at = "audit", !.cursor = 0])
    /\ UNCHANGED <<head, rawLogs, ranges, early, bounds>>

\* Fetched again, from the auditor, which does not miss what the primary missed.
Audit(p) ==
    LET q == process[p]
        missed == IF q.logs = {} THEN {} ELSE {{}}
    IN
    /\ At(p, "audit")
    /\ \/ \E logs \in Answers(RangeOf(p)) \cup missed :
             /\ IF logs \in Answers(RangeOf(p)) THEN NoFault ELSE Fault
             /\ Become(p, [q EXCEPT !.at = "patchRange", !.logs = {},
                                    !.status = IF logs = q.logs THEN "verified" ELSE "suspicious"])
       \/ Fault /\ Become(p, [q EXCEPT !.at = "patchRange", !.logs = {}, !.status = "failed"])
    /\ UNCHANGED <<head, store, early, commands, crashes>>

ReadCursor(p) ==
    /\ At(p, "readCursor")
    /\ Become(p, [process[p] EXCEPT !.at = "patchCursor", !.cursor = ContiguousVerifiedCursor])
    /\ UNCHANGED <<head, store, early, bounds>>

PatchCursor(p) ==
    /\ At(p, "patchCursor")
    /\ verifiedCursor' = process[p].cursor
    /\ Become(p, Finished(process[p], "verified"))
    /\ UNCHANGED <<head, rawLogs, ranges, early, bounds>>

-----------------------------------------------------------------------------
(* A cycle of the poller: repairs, then backfill.                            *)
StartReconcile(p) ==
    LET eligible == {r \in Candidates : ~IsExhausted(ranges[r]) /\ ~ranges[r].waiting} IN
    /\ p = "poller" /\ At(p, "idle")
    /\ Become(p, IF eligible = {} THEN [Idle EXCEPT !.mode = "backfill", !.at = "plan"]
                 ELSE [Idle EXCEPT !.mode = "reconcile", !.at = "stage", !.work = Sorted(eligible)])
    /\ UNCHANGED <<head, store, early, bounds>>

\* A repair that did not verify its range reads the record back ...
ReadBack(p) ==
    LET record == ranges[RangeOf(p)] IN
    /\ At(p, "readBack")
    /\ Become(p, [process[p] EXCEPT !.at = "schedule", !.status = record.status,
                                    !.attempts = record.attempts])
    /\ UNCHANGED <<head, store, early, bounds>>

\* ... and writes it again with a time to retry at.
ScheduleRetry(p) ==
    LET q == process[p] IN
    /\ At(p, "schedule")
    /\ ranges' = [ranges EXCEPT ![RangeOf(p)] =
                    [status |-> q.status, attempts |-> q.attempts, waiting |-> TRUE]]
    /\ Become(p, Proceed(q))
    /\ UNCHANGED <<head, rawLogs, verifiedCursor, early, bounds>>

\* The poller's backfill ends before a deferred range; one in its window may be out of it by the
\* time it is looked at.  The operator's backfill defers nothing.
Worklists(p, plan) ==
    {SubSeq(plan, 1, n) : n \in {k \in 0..Len(plan) :
        p = "poller" =>
          /\ \A i \in 1..k : IsDeferred(ranges[plan[i]]) => ~IsExhausted(ranges[plan[i]])
          /\ k < Len(plan) => IsDeferred(ranges[plan[k + 1]])}}

\* readMeta() and getBlockNumber(), which may fail and end the cycle.  The operator may end a
\* backfill before the confirmed head, not after it.
PlanBackfill(p) ==
    /\ At(p, "plan")
    /\ \/ /\ NoFault
          /\ \E to \in IF p = "cli" THEN 0..Confirmed ELSE {Confirmed} :
             \E work \in Worklists(p, Planned(verifiedCursor + 1, to)) :
               Become(p, [process[p] EXCEPT !.at = "patchHead", !.work = work, !.cursor = verifiedCursor])
       \/ Fault /\ Become(p, Idle)
    /\ UNCHANGED <<head, store, early, commands, crashes>>

\* The cursors are replaced by those read, with the new head.
PatchHead(p) ==
    LET q == process[p] IN
    /\ At(p, "patchHead")
    /\ verifiedCursor' = q.cursor
    /\ Become(p, IF q.work = <<>> THEN Idle ELSE [q EXCEPT !.at = "stage", !.cursor = 0])
    /\ UNCHANGED <<head, rawLogs, ranges, early, bounds>>

-----------------------------------------------------------------------------
(* The operator: "repair" takes what is failed or suspicious, "verify" (and  *)
(* "repair" of a span) any span, also of blocks that are not confirmed or    *)
(* not mined, "backfill" goes on from the cursor.                            *)
Asked == {Sorted(Candidates)} \cup {Planned(from, to) : from \in Blocks, to \in Blocks}

Command(p) ==
    /\ p = "cli" /\ At(p, "idle") /\ commands < MaxCommands
    /\ \/ /\ Become(p, [Idle EXCEPT !.mode = "backfill", !.at = "plan"])
          /\ early' = early
       \/ \E work \in Asked :
             /\ work # <<>>
             /\ Become(p, [Idle EXCEPT !.mode = "command", !.at = "stage", !.work = work])
             /\ early' = early \cup ((UNION {Span(work[i]) : i \in DOMAIN work}) \ (1..Confirmed))
    /\ commands' = commands + 1
    /\ UNCHANGED <<head, store, faults, crashes>>

\* A backoff window elapses.
Elapse(r) ==
    /\ ranges[r].waiting
    /\ ranges' = [ranges EXCEPT ![r].waiting = FALSE]
    /\ UNCHANGED <<head, rawLogs, verifiedCursor, process, early, bounds>>

\* A process is killed: what it held in memory is gone.
Crash(p) ==
    /\ ~At(p, "idle") /\ crashes < MaxCrashes
    /\ crashes' = crashes + 1 /\ Become(p, Idle)
    /\ UNCHANGED <<head, store, early, faults, commands>>

Step(p) ==
    \/ Stage(p) \/ AppendRawLogs(p) \/ PatchRange(p) \/ PatchIngested(p) \/ Audit(p)
    \/ ReadCursor(p) \/ PatchCursor(p) \/ StartReconcile(p) \/ ReadBack(p) \/ ScheduleRetry(p)
    \/ PlanBackfill(p) \/ PatchHead(p)

IngestNext ==
    \/ Mine
    \/ \E p \in Processes : Step(p) \/ Command(p) \/ Crash(p)
    \/ \E r \in Ranges : Elapse(r)

IngestSpec == IngestInit /\ [][IngestNext]_ingestVars

\* The poller's loop keeps turning and time passes.
PollerFairness == WF_ingestVars(Step("poller")) /\ \A r \in Ranges : WF_ingestVars(Elapse(r))

FairIngestSpec == IngestSpec /\ PollerFairness

-----------------------------------------------------------------------------
(* What the indexer calls verified is confirmed and every log of it is       *)
(* stored: across failed and misleading fetches, kills between two writes,   *)
(* and two processes that overwrite each other's cursors (verifyRange,       *)
(* getContiguousVerifiedCursor).  It says nothing of the blocks an operator  *)
(* asked for before they were confirmed: their "--to" is taken as it is.     *)
VerifiedIsComplete ==
    /\ 1..verifiedCursor \subseteq (1..Confirmed) \cup early
    /\ Logged \cap 1..verifiedCursor \subseteq rawLogs \cup early

(* Only data as far behind the head as the confirmation depth is verified    *)
(* (CROWDFUND_INDEXER_RUNBOOK.md, "Reorg Handling").                         *)
OnlyConfirmedIsVerified == verifiedCursor <= Confirmed

(* Whatever went wrong on the way, the cursor ends at the confirmed head or  *)
(* past it, unless a range without attempts left starts right after it: no   *)
(* staged record, open window or overwritten cursor holds the poller up      *)
(* (isDeferredByPolicy, classifyRepairableRanges).                           *)
OnlyExhaustedRangesHoldBack ==
    <>[](\/ verifiedCursor >= Confirmed
         \/ \E r \in Ranges : r[1] = verifiedCursor + 1 /\ IsExhausted(ranges[r]))
=============================================================================
