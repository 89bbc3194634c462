---------------------------- MODULE MCCrowdfund ----------------------------
(* Small instances of Crowdfund for TLC. *)
EXTENDS Crowdfund, TLC

CONSTANTS a, b, c    \* accounts

ByHop(zero, one, two) == (0 :> zero) @@ (1 :> one) @@ (2 :> two)

MCCap                == ByHop(60, 40, 20)
MCMaxInvitesReceived == ByHop(1, 2, 2)

\* Invites: budgets of one that stack, tickets that race revocation, expiry and each other.
OneInvite == ByHop(1, 1, 0)
OneEach   == [h \in 1..2 |-> 1]
InviteTickets ==
    {[inviter |-> a, fromHop |-> 0, nonce |-> 1, deadline |-> 9],
     [inviter |-> a, fromHop |-> 1, nonce |-> 1, deadline |-> 1],
     [inviter |-> LaunchTeam, fromHop |-> 0, nonce |-> 1, deadline |-> 9]}

\* Settlement: deposits over the caps, several outcomes of the waterfall.
BudgetHop1 == (1 :> 1) @@ (2 :> 0)

Symmetric      == Permutations({a, b})

=============================================================================
