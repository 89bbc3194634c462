------------------------------- MODULE MCPool -------------------------------
(***************************************************************************)
(* The pool in two settings, of which a behaviour keeps one.  "mixing":    *)
(* every operation, over the first few notes, where a fee may take half of *)
(* a note.  "filling": trees filled by shields of one to four notes, in    *)
(* every order of batches.                                                 *)
(***************************************************************************)
EXTENDS PrivacyPool

CONSTANTS
    MixedNotes,     \* bound: notes of the mixing setting
    MixedBatch,     \* bound: notes of one of its shields
    MixedBalance    \* bound: what its notes are worth

VARIABLE setting

MCInit == Init /\ setting \in {"mixing", "filling"}

MixingStep ==
    /\ setting = "mixing"
    /\ \/ \E values \in UpTo(Amounts, MixedBatch) : Shield(values)
       \/ \E values \in UpTo(Amounts, 2), maxFee \in MaxFees : CrossChainShield(values, maxFee)
       \/ Deliver \/ Transact \/ AtomicCrossChainUnshield \/ SetWindDownActive
    /\ Len(notes') <= MixedNotes /\ balance' <= MixedBalance

FillingStep ==
    /\ setting = "filling"
    /\ \E values \in UpTo({1}, Capacity) : Shield(values)

MCNext == (MixingStep \/ FillingStep) /\ UNCHANGED setting

MCSpec == MCInit /\ [][MCNext]_<<vars, setting>>
=============================================================================
