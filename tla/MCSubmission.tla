---------------------------- MODULE MCSubmission ----------------------------
(***************************************************************************)
(* The two halves of the relayer's submission path, checked together: a    *)
(* behaviour runs the HTTP side of a chain, or the nonce authority that its *)
(* broadcasts go through, and leaves the other at its initial state.        *)
(***************************************************************************)
EXTENDS NonceCoordinator, RelaySubmission, TLC

CONSTANTS http, cctp, iris, first, retry, twin, keyless, k1, k2, d1, d2

VARIABLE part

\* A request and its retry under one key, another key with the same
\* calldata, and a request without a key.
Key == first :> k1 @@ retry :> k1 @@ twin :> k2 @@ keyless :> None
Calldata == first :> d1 @@ retry :> d1 @@ twin :> d1 @@ keyless :> d2

\* The half that stands still has no faults to choose.
SubmissionInit ==
    /\ Init /\ PostInit
    /\ \/ part = "nonces" /\ postFaults = {}
       \/ part = "posts" /\ faults = {}

\* Bounds: the request without a key comes where nothing fails, and a file
\* has two writes waiting.
WithinBounds ==
    /\ postFaults # {} => stage'[keyless] = "new"
    /\ Len(writes') <= 2

NonceStep == part = "nonces" /\ Next /\ UNCHANGED <<part, postVars>>
PostStep  == part = "posts" /\ PostNext /\ WithinBounds /\ UNCHANGED <<part, vars>>

\* FairSpec and PostFairSpec, for the behaviours that run each half.
SubmissionSpec ==
    /\ SubmissionInit /\ [][NonceStep \/ PostStep]_<<vars, part, postVars>>
    /\ \A c \in Callers :
          /\ WF_vars(part = "nonces" /\ Enter(c) /\ UNCHANGED faults)
          /\ WF_vars(part = "nonces" /\ (Seed(c) \/ Settle(c) \/ Answer(c)) /\ UNCHANGED faults)
    /\ WF_postVars(part = "posts" /\ WriteSettles /\ UNCHANGED postFaults)
    /\ \A r \in Requests : WF_postVars(part = "posts" /\ Continue(r))

(* No caller of withNonce waits for ever, and every request that was taken  *)
(* up is answered: one failure does not poison the chain for the next.      *)
EveryCallSettles == CallsSettle /\ EveryPostSettles

=============================================================================
