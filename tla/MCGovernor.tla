----------------------------- MODULE MCGovernor -----------------------------
(***************************************************************************)
(* Small instances of Governor.  The unit of time stands for a few days;   *)
(* every delay keeps its order against the others, as in the deployment:   *)
(* the minimum timelock delay is the shortest execution delay, the         *)
(* ratification vote is as long as the longest one.                        *)
(***************************************************************************)
EXTENDS Governor

CONSTANTS alice, bob, council1, council2, steward1

Shared   == [votingDelay |-> 1, votingPeriod |-> 1, executionDelay |-> 1, quorumBps |-> 2000]
Longer   == [votingDelay |-> 1, votingPeriod |-> 2, executionDelay |-> 2, quorumBps |-> 3000]
Easier   == [Longer EXCEPT !.quorumBps = 1000]
Harder   == [Shared EXCEPT !.quorumBps = 5000]
TooLong  == [Longer EXCEPT !.votingDelay = 2]

SetSC(sc)   == [kind |-> "setSecurityCouncil", arg |-> sc]
SetParams(type, p) == [kind |-> "setProposalTypeParams", type |-> type, arg |-> p]
Call(kind, arg) == [kind |-> kind, arg |-> arg]

Calling(call) == [NoPayload EXCEPT !.call = call]
Other   == Calling([kind |-> "other"])
Paying(amount) == [NoPayload EXCEPT !.distribute = [t \in Tokens |-> amount]]
Spending(amount, who) == [NoPayload EXCEPT !.stewardSpend = [t \in Tokens |-> amount],
                                           !.recipients = who]

OneVoter      == {[v \in Voters |-> IF v = bob THEN 0 ELSE 5]}
MovingVotes   == {[v \in Voters |-> IF v = alice THEN 3 ELSE 2],
                  [v \in Voters |-> IF v = alice THEN 0 ELSE 5]}
SomeHoldings  == {[h \in Holders \cup {Treasury} |-> 2]}
MoreHoldings  == SomeHoldings \cup {[h \in Holders \cup {Treasury} |-> 6]}
OneTreasury   == {[balance |-> [t \in Tokens |-> 100], limit |-> [t \in Tokens |-> 10],
                   budget |-> [t \in Tokens |-> 3]]}

EverythingSet == {"excluded", "crowdfund", "steward"}
ExtendedOnly  == {"setSecurityCouncil", "setProposalTypeParams", "addStandardSelector",
                  "addExtendedSelector", "removeExtendedSelector", "electSteward"}
StandardOnly  == {"distribute", "stewardSpend", "removeSteward", "other"}

CouncilPayloads == {Calling(SetSC(council2))}
OtherPayload    == {Other}
SelectorPayloads ==
    {Calling(Call(k, "other")) : k \in {"addExtendedSelector", "removeStandardSelector"}}
    \cup {Calling(Call(k, "electSteward")) :
             k \in {"addStandardSelector", "removeExtendedSelector"}}
ChangePayloads ==
    SelectorPayloads
    \cup {Calling(Call("updateDelay", d)) : d \in {0, 2}}
    \cup {Calling(Call("revokeRole", r)) : r \in {"canceller", "backup"}}
    \cup {Calling(Call("renounceRole", "admin")),
          Calling(SetParams("Standard", Harder)), Calling(SetParams("Extended", Easier)),
          Calling(SetParams("Extended", TooLong)),
          Calling([kind |-> "setWindDownContract"]),
          Calling([kind |-> "governanceTriggerWindDown"]),
          Calling(Call("addExcludedAddress", "revenueLock")), Other}
StewardPayloads ==
    {Spending(2, {alice}), Spending(4, {alice}), Spending(2, {steward1}), Paying(6),
     Calling([kind |-> "removeSteward"]), Calling(Call("electSteward", steward1))}
AllVetoPayloads   == CouncilPayloads \cup OtherPayload
AllChangePayloads == ChangePayloads \cup StewardPayloads

(***************************************************************************)
(* One run checks the governor in settings that differ in what is deployed *)
(* at the start and in what proposals carry.  A behaviour keeps its        *)
(* setting; the properties are those of Governor itself and hold in each.  *)
(* GovernorVeto: two councils and proposals that replace them; one council *)
(* that vetoes again after a denied veto while the deployer still has its  *)
(* powers; two voters who vote and vote again while votes and excluded     *)
(* balances move.  GovernorChange: parameters, selectors, roles and delays *)
(* changed by votes; an elected steward who spends.  Without votes, bob    *)
(* takes no part.                                                          *)
(***************************************************************************)
VARIABLE setting

Replaced == INSTANCE Governor WITH Payloads <- CouncilPayloads, HoldingStates <- SomeHoldings,
                InitialWindDownContract <- TRUE, InitialDeployer <- FALSE,
                InitialMinDelay <- 0, MaxTime <- 8
Repeated == INSTANCE Governor WITH Payloads <- OtherPayload, HoldingStates <- SomeHoldings
Voted    == INSTANCE Governor WITH Payloads <- OtherPayload, InitialSetup <- {},
                VoteStates <- MovingVotes, HoldingStates <- SomeHoldings,
                DeclaredTypes <- {"Standard", "Signaling"}, FinalizeTimes <- {1}, MaxTime <- 3
Counted  == INSTANCE Governor WITH Payloads <- OtherPayload, InitialSetup <- {"crowdfund", "steward"},
                VoteStates <- MovingVotes, StandardParams <- Harder, InitialCouncil <- NoOne,
                Councils <- {}, MaxTime <- 5
Changed  == INSTANCE Governor WITH Payloads <- ChangePayloads
Elected  == INSTANCE Governor WITH Payloads <- StewardPayloads,
                InitialWindDownContract <- TRUE, InitialCouncil <- council1,
                InitialSteward <- steward1, InitialMinDelay <- 0, FinalizeTimes <- {1},
                MaxTime <- 6

VetoInit == \/ setting = "replaced" /\ Replaced!Init
            \/ setting = "repeated" /\ Repeated!Init
            \/ setting = "voted"    /\ Voted!Init
            \/ setting = "counted"  /\ Counted!Init
VetoNext == /\ UNCHANGED setting
            /\ \/ setting = "replaced" /\ Replaced!Next
               \/ setting = "repeated" /\ Repeated!Next
               \/ setting = "voted"    /\ Voted!Next /\ proposalCount' <= 1
               \/ setting = "counted"  /\ Counted!Next /\ proposalCount' <= 1
VetoSpec == VetoInit /\ [][VetoNext]_<<vars, setting>>

ChangeInit == \/ setting = "changed" /\ Changed!Init
              \/ setting = "elected" /\ Elected!Init
ChangeNext == /\ UNCHANGED setting
              /\ \/ setting = "changed" /\ Changed!Next
                 \/ setting = "elected" /\ Elected!Next
ChangeSpec == ChangeInit /\ [][ChangeNext]_<<vars, setting>>

=============================================================================
