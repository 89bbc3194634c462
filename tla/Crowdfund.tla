----------------------------- MODULE Crowdfund -----------------------------
(***************************************************************************)
(* contracts/crowdfund/ArmadaCrowdfund.sol: a token sale with three hops   *)
(* of invitations, an escrow of USDC, a one-shot finalization and lazy     *)
(* settlement.                                                             *)
(*                                                                         *)
(* A transaction is one step: the EVM runs it to the end or reverts it, so *)
(* every external function is one action whose guard is the conjunction of *)
(* its require()s.  The steps of different accounts interleave freely, and *)
(* block time only grows.                                                  *)
(*                                                                         *)
(* An (address, hop) pair is a node.  The flag isWhitelisted and the array *)
(* participantNodes change together and only in _initParticipant; they are *)
(* the set participantNodes here, since the array is only iterated to sum. *)
(***************************************************************************)
EXTENDS CrowdfundWaterfall, NaturalSums

CONSTANTS
    Users,              \* accounts that may take part in the sale
    LaunchTeam,         \* the sentinel that seeds the sale, never a participant
    NoOne,              \* address(0), the inviter of a seed
    Tickets,            \* off-chain invites whose EIP-712 signature is valid
    Nonces,             \* the nonces accounts use for such invites
    Amounts,            \* the deposits accounts try
    InitialWallet,      \* USDC every account owns before the sale
    ArmGrants,          \* ARM transfers that may arrive at the contract
    ArmPerUsdc,         \* 1e18 / ARM_PRICE: ARM units per USDC unit
    BaseSale, MaxSale, MinSale, ElasticTrigger, MinCommit,
    Cap,                \* hopConfigs[h].capUsdc
    MaxInvites,         \* hopConfigs[h].maxInvites
    MaxInvitesReceived, \* hopConfigs[h].maxInvitesReceived
    MaxSeeds, LaunchTeamBudget, MaxFinalizeNodes,
    WindowStart, WindowEnd, ClaimDeadlineDuration,
    MaxTime             \* bound on the clock

Addresses == Users \cup {LaunchTeam}
Nodes     == Addresses \X Hops

ASSUME RolesAssumption ==
    /\ IsFiniteSet(Users)
    /\ LaunchTeam \notin Users /\ NoOne \notin Addresses

ASSUME SaleAssumption ==
    /\ {BaseSale, MaxSale, MinSale, ElasticTrigger, MinCommit} \subseteq Nat \ {0}
    /\ BaseSale <= MaxSale
    /\ ArmPerUsdc \in Nat \ {0}
    /\ MaxFinalizeNodes \in Nat /\ MaxFinalizeNodes < MinSale

ASSUME HopAssumption ==
    /\ Cap \in [Hops -> Nat]
    /\ MaxInvites \in [Hops -> Nat]
    /\ MaxInvitesReceived \in [Hops -> Nat \ {0}]
    /\ LaunchTeamBudget \in [1..2 -> Nat]
    /\ MaxSeeds \in Nat

ASSUME TimeAssumption ==
    /\ {WindowStart, WindowEnd, ClaimDeadlineDuration, MaxTime} \subseteq Nat
    /\ WindowStart <= WindowEnd

ASSUME InputAssumption ==
    /\ Tickets \subseteq [inviter : Addresses, fromHop : Hops,
                          nonce : Nonces, deadline : Nat]
    /\ Nonces \subseteq Nat \ {0}
    /\ Amounts \subseteq Nat /\ ArmGrants \subseteq Nat /\ InitialWallet \in Nat

LaunchTeamInviteEnd == WindowEnd
RequiredArm == MaxSale * ArmPerUsdc

VARIABLES
    now,                 \* block.timestamp
    phase, armLoaded, refundMode,
    participantNodes, invitesReceived, invitesSent, invitedBy,
    launchTeamUsed,      \* launchTeamHop1Used, launchTeamHop2Used
    usedNonces,
    committed, hopCommitted, uniqueCommitters, totalCommitted,
    cappedDemand, saleSize, finalCeilings, finalDemands,
    totalAllocatedUsdc, totalAllocatedArm, claimDeadline, finalizedAt,
    claimed, totalArmTransferred,
    wallet,              \* USDC balance of each account
    escrow,              \* USDC balance of the contract
    treasuryUsdc,        \* USDC the treasury received from the sale
    armHeld,             \* ARM balance of each account
    armBalance           \* ARM balance of the contract

inviteVars == <<participantNodes, invitesReceived, invitesSent, invitedBy,
                launchTeamUsed, usedNonces>>
commitVars == <<committed, hopCommitted, uniqueCommitters, totalCommitted>>
resultVars == <<cappedDemand, saleSize, finalCeilings, finalDemands,
                totalAllocatedUsdc, totalAllocatedArm, claimDeadline, finalizedAt>>
settleVars == <<claimed, totalArmTransferred>>
usdcVars   == <<wallet, escrow, treasuryUsdc>>
armVars    == <<armHeld, armBalance>>

vars == <<now, phase, armLoaded, refundMode, inviteVars, commitVars,
          resultVars, settleVars, usdcVars, armVars>>

Zeros == [h \in Hops |-> 0]

NodesAt(h) == {n \in participantNodes : n[2] = h}

\* The invites a node may still send: a budget that grows with every invite received.
InviteBudget(n) == invitesReceived[n] * MaxInvites[n[2]]

EffectiveCap(n) == invitesReceived[n] * Cap[n[2]]

-----------------------------------------------------------------------------
Init ==
    /\ now = 0
    /\ phase = "Active" /\ armLoaded = FALSE /\ refundMode = FALSE
    /\ participantNodes = {}
    /\ invitesReceived = [n \in Nodes |-> 0]
    /\ invitesSent = [n \in Nodes |-> 0]
    /\ invitedBy = [n \in Nodes |-> NoOne]
    /\ launchTeamUsed = [h \in 1..2 |-> 0]
    /\ usedNonces = [a \in Addresses |-> {}]
    /\ committed = [n \in Nodes |-> 0]
    /\ hopCommitted = Zeros /\ uniqueCommitters = Zeros /\ totalCommitted = 0
    /\ cappedDemand = 0 /\ saleSize = 0
    /\ finalCeilings = Zeros /\ finalDemands = Zeros
    /\ totalAllocatedUsdc = 0 /\ totalAllocatedArm = 0
    /\ claimDeadline = 0 /\ finalizedAt = 0
    /\ claimed = [a \in Addresses |-> FALSE] /\ totalArmTransferred = 0
    /\ wallet = [a \in Addresses |-> InitialWallet] /\ escrow = 0 /\ treasuryUsdc = 0
    /\ armHeld = [a \in Addresses |-> 0] /\ armBalance = 0

-----------------------------------------------------------------------------
(* Whitelisting *)

InLaunchTeamWindow ==
    /\ phase = "Active"
    /\ armLoaded
    /\ WindowStart <= now /\ now < LaunchTeamInviteEnd

\* _initParticipant, for every node of a set.
InitParticipants(nodes, inviter) ==
    /\ Cardinality(participantNodes) + Cardinality(nodes) <= MaxFinalizeNodes
    /\ participantNodes' = participantNodes \cup nodes
    /\ invitesReceived' =
          [n \in Nodes |-> IF n \in nodes THEN 1 ELSE invitesReceived[n]]
    /\ invitedBy' = [n \in Nodes |-> IF n \in nodes THEN inviter ELSE invitedBy[n]]

\* Mutant: a full node accepts the invite and does not count it.
StackSilently(node, inviter) ==
    \/ /\ node \notin participantNodes
       /\ InitParticipants({node}, inviter)
    \/ /\ node \in participantNodes
       /\ invitesReceived' = [invitesReceived EXCEPT
             ![node] = Smaller(@ + 1, MaxInvitesReceived[node[2]])]
       /\ UNCHANGED <<participantNodes, invitedBy>>

\* Mutant: the invitee is recorded as its own inviter.
RegisterSelf(node, inviter) ==
    \/ /\ node \notin participantNodes
       /\ InitParticipants({node}, node[1])
    \/ /\ node \in participantNodes
       /\ invitesReceived[node] < MaxInvitesReceived[node[2]]
       /\ invitesReceived' = [invitesReceived EXCEPT ![node] = @ + 1]
       /\ UNCHANGED <<participantNodes, invitedBy>>

RegisterOrStackInvite(node, inviter) ==
    \/ /\ node \notin participantNodes
       /\ InitParticipants({node}, inviter)
    \/ /\ node \in participantNodes
       /\ invitesReceived[node] < MaxInvitesReceived[node[2]]
       /\ invitesReceived' = [invitesReceived EXCEPT ![node] = @ + 1]
       /\ UNCHANGED <<participantNodes, invitedBy>>

MayInvite(node) ==
    /\ node \in participantNodes
    /\ node[2] < 2
    /\ invitesSent[node] < InviteBudget(node)

\* addSeeds, and addSeed for a singleton.
AddSeeds(seeds) ==
    /\ InLaunchTeamWindow
    /\ LaunchTeam \notin seeds
    /\ Cardinality(NodesAt(0)) + Cardinality(seeds) <= MaxSeeds
    /\ \A s \in seeds : <<s, 0>> \notin participantNodes
    /\ InitParticipants(seeds \X {0}, NoOne)
    /\ UNCHANGED <<now, phase, armLoaded, refundMode, invitesSent, launchTeamUsed,
                   usedNonces, commitVars, resultVars, settleVars, usdcVars, armVars>>

\* No lower time bound: a seed could invite as soon as it is whitelisted.
Invite(sender, invitee, inviterHop) ==
    /\ phase = "Active" /\ armLoaded /\ now <= WindowEnd
    /\ sender # LaunchTeam /\ invitee # LaunchTeam
    /\ MayInvite(<<sender, inviterHop>>)
    /\ RegisterOrStackInvite(<<invitee, inviterHop + 1>>, sender)
    /\ invitesSent' = [invitesSent EXCEPT ![<<sender, inviterHop>>] = @ + 1]
    /\ UNCHANGED <<now, phase, armLoaded, refundMode, launchTeamUsed, usedNonces,
                   commitVars, resultVars, settleVars, usdcVars, armVars>>

LaunchTeamInvite(invitee, fromHop) ==
    /\ InLaunchTeamWindow
    /\ fromHop \in 0..1
    /\ invitee # LaunchTeam
    /\ launchTeamUsed[fromHop + 1] < LaunchTeamBudget[fromHop + 1]
    /\ launchTeamUsed' = [launchTeamUsed EXCEPT ![fromHop + 1] = @ + 1]
    /\ RegisterOrStackInvite(<<invitee, fromHop + 1>>, LaunchTeam)
    /\ UNCHANGED <<now, phase, armLoaded, refundMode, invitesSent, usedNonces,
                   commitVars, resultVars, settleVars, usdcVars, armVars>>

\* Mutant: a used nonce is not refused.
ReuseNonce(inviter, nonce) ==
    usedNonces' = [usedNonces EXCEPT ![inviter] = @ \cup {nonce}]

UseNonce(inviter, nonce) ==
    /\ nonce > 0
    /\ nonce \notin usedNonces[inviter]
    /\ usedNonces' = [usedNonces EXCEPT ![inviter] = @ \cup {nonce}]

RevokeInviteNonce(sender, nonce) ==
    /\ UseNonce(sender, nonce)
    /\ UNCHANGED <<now, phase, armLoaded, refundMode, participantNodes,
                   invitesReceived, invitesSent, invitedBy, launchTeamUsed,
                   commitVars, resultVars, settleVars, usdcVars, armVars>>

-----------------------------------------------------------------------------
(* Commitments *)

\* Mutant: the phase is not checked.
InAnyCommitWindow == armLoaded /\ WindowStart <= now /\ now <= WindowEnd

InCommitWindow ==
    /\ phase = "Active"
    /\ armLoaded
    /\ WindowStart <= now /\ now <= WindowEnd

\* _escrowCommit followed by the USDC transfer that pays for it.
EscrowCommit(user, hop, amount) ==
    /\ committed' = [committed EXCEPT ![<<user, hop>>] = @ + amount]
    /\ hopCommitted' = [hopCommitted EXCEPT ![hop] = @ + amount]
    /\ totalCommitted' = totalCommitted + amount
    /\ uniqueCommitters' = [uniqueCommitters EXCEPT
          ![hop] = @ + (IF committed[<<user, hop>>] = 0 THEN 1 ELSE 0)]
    /\ wallet[user] >= amount
    /\ wallet' = [wallet EXCEPT ![user] = @ - amount]
    /\ escrow' = escrow + amount
    /\ UNCHANGED treasuryUsdc

\* Deposits over the node's cap are accepted; the excess is refunded later.
Commit(sender, hop, amount) ==
    /\ InCommitWindow
    /\ sender # LaunchTeam
    /\ <<sender, hop>> \in participantNodes
    /\ amount >= MinCommit
    /\ EscrowCommit(sender, hop, amount)
    /\ UNCHANGED <<now, phase, armLoaded, refundMode, inviteVars, resultVars,
                   settleVars, armVars>>

\* The bearer of a signed invite registers and commits in one transaction.
CommitWithInvite(sender, ticket, amount) ==
    LET inviter == <<ticket.inviter, ticket.fromHop>> IN
    /\ InCommitWindow
    /\ now <= ticket.deadline
    /\ UseNonce(ticket.inviter, ticket.nonce)
    /\ MayInvite(inviter)
    /\ RegisterOrStackInvite(<<sender, ticket.fromHop + 1>>, ticket.inviter)
    /\ invitesSent' = [invitesSent EXCEPT ![inviter] = @ + 1]
    /\ sender # LaunchTeam
    /\ amount >= MinCommit
    /\ EscrowCommit(sender, ticket.fromHop + 1, amount)
    /\ UNCHANGED <<now, phase, armLoaded, refundMode, launchTeamUsed, resultVars,
                   settleVars, armVars>>

-----------------------------------------------------------------------------
(* Loading, cancelling and finalizing the sale *)

\* A funding transfer by the deployer or anyone; the guard bounds how often.
ReceiveArm(amount) ==
    /\ armBalance < RequiredArm
    /\ armBalance' = armBalance + amount
    /\ UNCHANGED <<now, phase, armLoaded, refundMode, inviteVars, commitVars,
                   resultVars, settleVars, usdcVars, armHeld>>

LoadArm ==
    /\ ~armLoaded
    /\ armBalance >= RequiredArm
    /\ armLoaded' = TRUE
    /\ UNCHANGED <<now, phase, refundMode, inviteVars, commitVars, resultVars,
                   settleVars, usdcVars, armVars>>

\* The security council; at any time before finalization.
Cancel ==
    /\ phase \notin {"Finalized", "Canceled"}
    /\ phase' = "Canceled"
    /\ UNCHANGED <<now, armLoaded, refundMode, inviteVars, commitVars, resultVars,
                   settleVars, usdcVars, armVars>>

\* _iterateCappedDemand for one hop.
CappedCommitted(h) ==
    SumOver([n \in Nodes |-> Accepted(committed[n], EffectiveCap(n))],
                     NodesAt(h))

RoundingBuffer == Cardinality(participantNodes)

\* Mutant: no rounding buffer is kept.
PushEverything(allocation) == allocation

ProceedsPush(allocation) ==
    IF allocation > RoundingBuffer THEN allocation - RoundingBuffer ELSE 0

\* Mutant: the expansion looks at raw deposits.
SizeForRawDeposits(capped) ==
    IF totalCommitted >= ElasticTrigger THEN MaxSale ELSE BaseSale

SizeFor(capped) == IF capped >= ElasticTrigger THEN MaxSale ELSE BaseSale

EnterRefundMode ==
    /\ refundMode' = TRUE
    /\ UNCHANGED <<totalAllocatedUsdc, totalAllocatedArm, claimDeadline, usdcVars>>

RecordSale(allocation) ==
    /\ totalAllocatedUsdc' = allocation
    /\ totalAllocatedArm' = allocation * ArmPerUsdc
    /\ claimDeadline' = now + ClaimDeadlineDuration
    /\ treasuryUsdc' = treasuryUsdc + ProceedsPush(allocation)
    /\ escrow >= ProceedsPush(allocation)
    /\ escrow' = escrow - ProceedsPush(allocation)
    /\ UNCHANGED <<refundMode, wallet>>

(***************************************************************************)
(* Three outcomes: the capped demand misses the minimum raise, the         *)
(* allocation misses it after the waterfall, or the sale succeeds and its  *)
(* proceeds less a rounding buffer go to the treasury.                     *)
(***************************************************************************)
Finalize ==
    LET demand     == [h \in Hops |-> CappedCommitted(h)]
        capped     == demand[0] + demand[1] + demand[2]
        size       == SizeFor(capped)
        allocation == TotalAllocation(size, demand)
    IN
    /\ now > WindowEnd
    /\ phase = "Active"
    /\ phase' = "Finalized"
    /\ finalizedAt' = now
    /\ cappedDemand' = capped
    /\ \/ /\ capped < MinSale
          /\ EnterRefundMode
          /\ UNCHANGED <<saleSize, finalCeilings, finalDemands>>
       \/ /\ capped >= MinSale
          /\ saleSize' = size
          /\ finalCeilings' = HopCeilings(size, demand)
          /\ finalDemands' = demand
          /\ \/ allocation < MinSale /\ EnterRefundMode
             \/ allocation >= MinSale /\ RecordSale(allocation)
    /\ UNCHANGED <<now, armLoaded, inviteVars, commitVars, settleVars, armVars>>

-----------------------------------------------------------------------------
(* Settlement *)

Allocation(n) ==
    AllocatedUsdc(committed[n], EffectiveCap(n), finalCeilings[n[2]], finalDemands[n[2]])

\* Sums over the three nodes of a user.
CommittedBy(u)  == committed[<<u, 0>>] + committed[<<u, 1>>] + committed[<<u, 2>>]
AllocatedTo(u)  == Allocation(<<u, 0>>) + Allocation(<<u, 1>>) + Allocation(<<u, 2>>)
RefundTo(u)     == CommittedBy(u) - AllocatedTo(u)

HasUnsettledCommitment(u) == ~claimed[u] /\ CommittedBy(u) > 0

PayUsdc(u, amount) ==
    /\ escrow >= amount
    /\ wallet' = [wallet EXCEPT ![u] = @ + amount]
    /\ escrow' = escrow - amount
    /\ UNCHANGED treasuryUsdc

\* transferAndDelegate: the buyer must name a delegate to receive ARM.
PayArm(u, amount) ==
    /\ armBalance >= amount
    /\ totalArmTransferred' = totalArmTransferred + amount
    /\ armHeld' = [armHeld EXCEPT ![u] = @ + amount]
    /\ armBalance' = armBalance - amount

\* Mutant: the deadline itself is already too late.
ArmDueBefore(u) == IF now < claimDeadline THEN AllocatedTo(u) * ArmPerUsdc ELSE 0

ArmDue(u) == IF now <= claimDeadline THEN AllocatedTo(u) * ArmPerUsdc ELSE 0

Claim(sender, namesDelegate) ==
    /\ phase = "Finalized" /\ ~refundMode
    /\ HasUnsettledCommitment(sender)
    /\ claimed' = [claimed EXCEPT ![sender] = TRUE]
    /\ ArmDue(sender) > 0 => namesDelegate
    /\ PayArm(sender, ArmDue(sender))
    /\ PayUsdc(sender, RefundTo(sender))
    /\ UNCHANGED <<now, phase, armLoaded, refundMode, inviteVars, commitVars, resultVars>>

\* Mutant: a cancelled sale does not refund.
ClaimRefundOfRefundMode(sender) ==
    /\ refundMode
    /\ HasUnsettledCommitment(sender)
    /\ claimed' = [claimed EXCEPT ![sender] = TRUE]
    /\ PayUsdc(sender, CommittedBy(sender))
    /\ UNCHANGED <<now, phase, armLoaded, refundMode, inviteVars, commitVars,
                   resultVars, totalArmTransferred, armVars>>

ClaimRefund(sender) ==
    /\ refundMode \/ phase = "Canceled"
    /\ HasUnsettledCommitment(sender)
    /\ claimed' = [claimed EXCEPT ![sender] = TRUE]
    /\ PayUsdc(sender, CommittedBy(sender))
    /\ UNCHANGED <<now, phase, armLoaded, refundMode, inviteVars, commitVars,
                   resultVars, totalArmTransferred, armVars>>

ArmStillOwed ==
    IF phase = "Finalized" /\ ~refundMode /\ now <= claimDeadline
    THEN totalAllocatedArm - totalArmTransferred ELSE 0

WithdrawUnallocatedArm ==
    /\ phase \in {"Finalized", "Canceled"}
    /\ ArmStillOwed >= 0              \* checked subtraction
    /\ armBalance - ArmStillOwed > 0
    /\ armBalance' = ArmStillOwed
    /\ UNCHANGED <<now, phase, armLoaded, refundMode, inviteVars, commitVars,
                   resultVars, settleVars, usdcVars, armHeld>>

\* Blocks are mined; MaxTime bounds the clock.
Tick ==
    /\ now < MaxTime
    /\ now' = now + 1
    /\ UNCHANGED <<phase, armLoaded, refundMode, inviteVars, commitVars, resultVars,
                   settleVars, usdcVars, armVars>>

-----------------------------------------------------------------------------
Whitelisting ==
    \/ \E seeds \in SUBSET Addresses \ {{}} : AddSeeds(seeds)
    \/ \E sender, invitee \in Addresses, hop \in Hops : Invite(sender, invitee, hop)
    \/ \E invitee \in Addresses, hop \in Hops : LaunchTeamInvite(invitee, hop)
    \/ \E sender \in Addresses, nonce \in Nonces : RevokeInviteNonce(sender, nonce)

Committing ==
    \/ \E sender \in Addresses, hop \in Hops, amount \in Amounts : Commit(sender, hop, amount)
    \/ \E sender \in Addresses, ticket \in Tickets, amount \in Amounts :
          CommitWithInvite(sender, ticket, amount)

Settling ==
    \/ \E sender \in Addresses, namesDelegate \in BOOLEAN : Claim(sender, namesDelegate)
    \/ \E sender \in Addresses : ClaimRefund(sender)
    \/ WithdrawUnallocatedArm

Next ==
    \/ Whitelisting
    \/ Committing
    \/ \E amount \in ArmGrants : ReceiveArm(amount)
    \/ LoadArm \/ Cancel \/ Finalize
    \/ Settling
    \/ Tick

Spec == Init /\ [][Next]_vars

(***************************************************************************)
(* Fairness, for the liveness property only: time passes, finalize() is    *)
(* permissionless ("anyone may call"), and every depositor calls the one   *)
(* settlement function that its sale outcome offers.                       *)
(***************************************************************************)
Fairness ==
    /\ WF_vars(Tick)
    /\ WF_vars(Finalize)
    /\ \A a \in Addresses : WF_vars(Claim(a, TRUE)) /\ WF_vars(ClaimRefund(a))

FairSpec == Spec /\ Fairness

-----------------------------------------------------------------------------
TypeOK ==
    /\ now \in Nat
    /\ phase \in {"Active", "Finalized", "Canceled"}
    /\ {armLoaded, refundMode} \subseteq BOOLEAN
    /\ participantNodes \subseteq Nodes
    /\ invitesReceived \in [Nodes -> Nat]
    /\ invitesSent \in [Nodes -> Nat]
    /\ invitedBy \in [Nodes -> Addresses \cup {NoOne}]
    /\ launchTeamUsed \in [1..2 -> Nat]
    /\ usedNonces \in [Addresses -> SUBSET Nonces]
    /\ committed \in [Nodes -> Nat]
    /\ hopCommitted \in [Hops -> Nat]
    /\ uniqueCommitters \in [Hops -> Nat]
    /\ totalCommitted \in Nat
    /\ cappedDemand \in Nat
    /\ saleSize \in {0, BaseSale, MaxSale}
    /\ finalCeilings \in [Hops -> Nat]
    /\ finalDemands \in [Hops -> Nat]
    /\ {totalAllocatedUsdc, totalAllocatedArm, claimDeadline, finalizedAt} \subseteq Nat
    /\ claimed \in [Addresses -> BOOLEAN]
    /\ totalArmTransferred \in Nat
    /\ wallet \in [Addresses -> Nat]
    /\ {escrow, treasuryUsdc, armBalance} \subseteq Nat
    /\ armHeld \in [Addresses -> Nat]

SoldOut == phase = "Finalized" /\ ~refundMode

(***************************************************************************)
(* Every invite a node received was paid for by exactly one slot of        *)
(* somebody's budget: a participant one hop up, or the launch team.        *)
(* (invite, commitWithInvite and launchTeamInvite each move both counters.)*)
(***************************************************************************)
InvitesConserved ==
    \A h \in 1..2 :
        SumOver(invitesReceived, NodesAt(h)) =
            SumOver(invitesSent, NodesAt(h - 1)) + launchTeamUsed[h]

(***************************************************************************)
(* The structural maximum the comment on _iterateCappedDemand derives from *)
(* the budgets (2,220 nodes with the deployed constants), and the node cap *)
(* that keeps the one-shot finalize() within a transaction's gas.          *)
(***************************************************************************)
StructuralMaximum ==
    LET edges1 == MaxSeeds * MaxInvites[0] + LaunchTeamBudget[1]
        edges2 == edges1 * MaxInvites[1] + LaunchTeamBudget[2]
    IN  /\ Cardinality(NodesAt(0)) <= MaxSeeds
        /\ Cardinality(NodesAt(1)) <= edges1
        /\ Cardinality(NodesAt(2)) <= edges2
        /\ Cardinality(participantNodes) <= MaxFinalizeNodes

(***************************************************************************)
(* The invite graph is a forest rooted at the seeds and the launch team: a *)
(* node's inviter is the launch team or was whitelisted one hop up and has *)
(* spent an invite.                                                        *)
(***************************************************************************)
InviteForest ==
    \A n \in participantNodes :
        IF n[2] = 0 THEN invitedBy[n] = NoOne
        ELSE \/ invitedBy[n] = LaunchTeam
             \/ /\ <<invitedBy[n], n[2] - 1>> \in participantNodes
                /\ invitesSent[<<invitedBy[n], n[2] - 1>>] > 0

(***************************************************************************)
(* The launch team hands out invites and never takes part: it is never     *)
(* whitelisted, holds no deposit and receives no ARM, by any of the paths  *)
(* that create nodes, its own signed invites included.                     *)
(***************************************************************************)
LaunchTeamStaysOut ==
    /\ \A h \in Hops : <<LaunchTeam, h>> \notin participantNodes
    /\ CommittedBy(LaunchTeam) = 0 /\ armHeld[LaunchTeam] = 0

\* Nobody issued more invites than the ones received grant, and the launch
\* team none beyond its budget of each hop.
SpendingWithinBudgets ==
    /\ \A n \in Nodes : invitesSent[n] <= InviteBudget(n)
    /\ \A h \in 1..2 : launchTeamUsed[h] <= LaunchTeamBudget[h]

(***************************************************************************)
(* Hop by hop, the invites received are the invites spent one hop up plus  *)
(* the launch team's, and every node and the launch team spent at most its *)
(* own budget; so the budgets bound the nodes of each hop and the node cap *)
(* bounds the one-shot finalize().  The launch team issues from a budget   *)
(* of its own and never holds a node.                                      *)
(***************************************************************************)
BudgetsAreKept ==
    InvitesConserved /\ SpendingWithinBudgets /\ LaunchTeamStaysOut /\ StructuralMaximum

(***************************************************************************)
(* The running totals agree with the nodes they summarise, at each hop and *)
(* globally; a deposit is only ever held for a whitelisted node.           *)
(***************************************************************************)
TotalsAgree ==
    /\ \A h \in Hops :
        /\ hopCommitted[h] = SumOver(committed, NodesAt(h))
        /\ uniqueCommitters[h] = Cardinality({n \in NodesAt(h) : committed[n] > 0})
    /\ totalCommitted = SumOver(committed, Nodes)

\* What the contract owes in USDC if everybody unsettled were settled now.
RefundOwed(u) ==
    IF claimed[u] THEN 0 ELSE IF SoldOut THEN RefundTo(u) ELSE CommittedBy(u)

(***************************************************************************)
(* The escrow always covers every outstanding refund, in whatever order    *)
(* the depositors settle, and strands at most one unit per node.  Until a  *)
(* sale succeeds it covers them exactly.  (finalize's rounding buffer      *)
(* against claim's floor divisions.)                                       *)
(***************************************************************************)
EscrowSolvent ==
    LET owed == SumOver([a \in Addresses |-> RefundOwed(a)], Addresses)
    IN  /\ escrow >= owed
        /\ escrow <= owed + (IF SoldOut THEN RoundingBuffer ELSE 0)

(***************************************************************************)
(* While ARM can still be claimed, what is reserved (armStillOwed) covers  *)
(* every outstanding allocation and the contract holds it: no sweep of     *)
(* unallocated ARM takes what a buyer is owed.                             *)
(***************************************************************************)
ArmReserved ==
    /\ armBalance >= ArmStillOwed
    /\ SoldOut /\ now <= claimDeadline =>
          ArmStillOwed >= SumOver([a \in Addresses |->
              IF claimed[a] THEN 0 ELSE AllocatedTo(a) * ArmPerUsdc], Addresses)

(***************************************************************************)
(* The books are sound at every moment: totals kept on commit agree with   *)
(* the nodes, the escrow covers every refund and the ARM held covers every *)
(* allocation (hopStats, finalize()'s buffer and armStillOwed() together). *)
(***************************************************************************)
Solvent == TotalsAgree /\ EscrowSolvent /\ ArmReserved

\* What the accounts hold: before settlement a deposit, afterwards what the sale owes them.
SettledBooks ==
    \A a \in Addresses :
        LET paid == InitialWallet - wallet[a] IN
        IF ~claimed[a] THEN paid = CommittedBy(a) /\ armHeld[a] = 0
        ELSE IF ~SoldOut THEN paid = 0 /\ armHeld[a] = 0
        ELSE /\ paid = AllocatedTo(a)
             /\ armHeld[a] \in {0, paid * ArmPerUsdc}
             /\ \A h \in Hops : Allocation(<<a, h>>) <= EffectiveCap(<<a, h>>)

\* The price of what a sold-out sale kept of a deposit is owed for a fixed time
\* since finalize(), the last second included.
ArmOwedNow(paid) ==
    IF SoldOut /\ now <= finalizedAt + ClaimDeadlineDuration THEN paid * ArmPerUsdc ELSE 0

\* What a step may do to an account that it settles, or that was settled.
SettlesOnce ==
    \A a \in Addresses :
        IF claimed[a]
        THEN claimed'[a] /\ UNCHANGED <<wallet[a], armHeld[a]>>
        ELSE claimed'[a] => armHeld'[a] = ArmOwedNow(InitialWallet - wallet'[a])

(***************************************************************************)
(* A settled account is made whole.  With the sale cancelled or refunded   *)
(* it has its whole deposit back; after a sale it paid exactly its         *)
(* allocation, never more than the caps of its nodes.  The step that       *)
(* settles it brings the ARM for what it paid as long as the claim period  *)
(* since finalize() runs, and none later; no step after that, its own or   *)
(* another's, touches what it holds or settles it again.                   *)
(***************************************************************************)
SettledExactly == [][SettledBooks' /\ SettlesOnce]_vars

(***************************************************************************)
(* Proceeds leave the escrow only for a sale that met the minimum raise,   *)
(* sold no more than its size and expanded only on enough capped demand; a *)
(* sale that did not left the treasury nothing and allocated nothing.      *)
(***************************************************************************)
ProceedsOnlyFromAFullSale ==
    IF SoldOut
    THEN /\ MinSale <= totalAllocatedUsdc /\ totalAllocatedUsdc <= saleSize
         /\ saleSize = MaxSale => cappedDemand >= ElasticTrigger \/ MaxSale = BaseSale
         /\ totalAllocatedUsdc <= cappedDemand /\ cappedDemand <= totalCommitted
         /\ treasuryUsdc + RoundingBuffer = totalAllocatedUsdc
    ELSE treasuryUsdc = 0 /\ totalAllocatedArm = 0 /\ totalArmTransferred = 0

(***************************************************************************)
(* A signed invite is spent at most once.  A step that both charges an     *)
(* inviter and takes a deposit is a redemption, and each one burns a nonce *)
(* of the inviter that was neither redeemed nor revoked before.            *)
(***************************************************************************)
RedemptionBurnsNonce ==
    [][\A n \in Nodes :
          invitesSent'[n] > invitesSent[n] /\ totalCommitted' > totalCommitted
          => /\ usedNonces[n[1]] \subseteq usedNonces'[n[1]]
             /\ Cardinality(usedNonces'[n[1]]) = Cardinality(usedNonces[n[1]]) + 1]_vars

(***************************************************************************)
(* Once the sale is no longer active its outcome and its inputs are final: *)
(* nothing lazy settlement reads can change between two claims.            *)
(***************************************************************************)
OutcomeIsFinal ==
    [][phase # "Active" =>
          UNCHANGED <<phase, refundMode, participantNodes, invitesReceived,
                      invitesSent, commitVars, resultVars>>]_vars

(***************************************************************************)
(* Under the stated fairness every deposit is eventually settled, whether  *)
(* the sale succeeds, falls short or is cancelled.                         *)
(***************************************************************************)
EveryDepositSettles ==
    \A a \in Addresses : CommittedBy(a) > 0 ~> claimed[a]

=============================================================================
