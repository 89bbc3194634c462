------------------------- MODULE ProposalLifecycle -------------------------
(***************************************************************************)
(* What contracts/governance/ArmadaGovernor.sol promises about the phases  *)
(* of its proposals, without votes, payloads, delays or a timelock.  The   *)
(* phases are those of state(); the governor implements this specification.*)
(***************************************************************************)
CONSTANT Ids

VARIABLES
    phase,      \* of every proposal, "None" before it exists
    ratifies,   \* the proposal whose veto it decides, 0 for an ordinary proposal
    ended       \* governance has ended

vars == <<phase, ratifies, ended>>

Init ==
    /\ phase = [i \in Ids |-> "None"]
    /\ ratifies = [i \in Ids |-> 0]
    /\ ended = FALSE

Moves(i, from, to) == phase[i] \in from /\ phase'[i] = to

\* A ratification decides a veto: the one proposal that may still be enacted when defeated.
IsRatification(i) == ratifies[i] # 0

\* Ordinary proposals are created only while governance lasts.
Create(i) ==
    \/ ~ended /\ phase[i] = "None" /\ phase'[i] \in {"Pending", "Active"} /\ ratifies'[i] = 0
    \/ /\ Moves(i, {"None"}, "Active")
       /\ ratifies'[i] \in Ids
       /\ phase[ratifies'[i]] = "Queued" /\ phase'[ratifies'[i]] = "Canceled"

Open(i)     == Moves(i, {"Pending"}, "Active")
Withdraw(i) == Moves(i, {"Pending", "Active"}, "Canceled")
Close(i)    == phase[i] = "Active" /\ phase'[i] \in {"Succeeded", "Defeated"}
Expire(i)   == Moves(i, {"Succeeded"}, "Defeated") /\ ~IsRatification(i)
Queue(i)    == Moves(i, {"Succeeded"}, "Queued") /\ ~ended /\ ~IsRatification(i)
Enact(i)    == Moves(i, {"Queued"}, "Executed") /\ ~ended

\* At most one veto in the life of a proposal.
Veto(i) ==
    /\ Moves(i, {"Queued"}, "Canceled")
    /\ ~ \E r \in Ids : ratifies[r] = i
    /\ \E r \in Ids : ratifies'[r] = i

Resolve(i) == Moves(i, {"Succeeded", "Defeated"}, "Executed") /\ IsRatification(i)

\* A vetoed proposal returns exactly when its ratification, lost, is resolved.
Restore(i) ==
    /\ Moves(i, {"Canceled"}, "Queued")
    /\ \E r \in Ids : ratifies[r] = i /\ Moves(r, {"Defeated"}, "Executed")

Step(i) ==
    \/ phase'[i] = phase[i] /\ ratifies'[i] = ratifies[i]
    \/ Create(i)
    \/ /\ ratifies'[i] = ratifies[i]
       /\ \/ Open(i) \/ Withdraw(i) \/ Close(i) \/ Expire(i) \/ Queue(i)
          \/ Enact(i) \/ Veto(i) \/ Resolve(i) \/ Restore(i)

Next ==
    /\ \A i \in Ids : Step(i)
    /\ ended => ended'
    /\ DOMAIN phase' = Ids /\ DOMAIN ratifies' = Ids

Spec == Init /\ [][Next]_vars
=============================================================================
