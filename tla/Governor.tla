------------------------------ MODULE Governor ------------------------------
(***************************************************************************)
(* contracts/governance/ArmadaGovernor.sol with the parts of               *)
(* TreasurySteward.sol and of OpenZeppelin's TimelockController that it    *)
(* drives: typed proposals, votes on snapshots, a timelock, a security     *)
(* council whose veto is itself put to a vote, and the wind-down switch.   *)
(*                                                                         *)
(* Every external function is one atomic action.  A proposal carries a     *)
(* payload: payments out of the treasury, summed per token as the code     *)
(* sums them, and at most one call that changes governance.  Executing it  *)
(* performs that call in the same step.                                    *)
(***************************************************************************)
EXTENDS Integers, FiniteSets, NaturalSums

CONSTANTS
    Voters,             \* accounts that hold delegated votes
    Stewards,           \* accounts that may be elected
    Councils,           \* security councils
    NoOne,              \* address(0)
    Tokens,             \* tokens of the treasury
    Holders,            \* contracts whose ARM may be excluded from the quorum
    Payloads,           \* what proposals carry, NoPayload excepted
    DeclaredTypes,      \* the types proposers ask for
    VoteStates,         \* distributions of delegated votes
    HoldingStates,      \* ARM balances of the treasury and the holders
    TreasuryStates,     \* balances, outflow limits and steward budgets
    Supply,             \* ARM total supply
    FinalizeTimes,      \* when the crowdfund may finalize
    StandardParams, ExtendedParams,                   \* initial, governable
    RatificationPeriod, StewardPeriod, StewardDelay,  \* immutable
    SignalingParams, FixedQuorumBps,
    InitialExtendedSelectors, InitialStandardSelectors,
    InitialMinDelay, InitialSetup, InitialDeployer,
    InitialCouncil, InitialSteward, InitialWindDownContract,
    PROPOSAL_THRESHOLD, QUORUM_FLOOR, QUEUE_GRACE_PERIOD, QUIET_PERIOD_DURATION,
    TERM_DURATION, TREASURY_OUTFLOW_ACTIVATION_DELAY,
    MIN_VOTING_DELAY, MAX_VOTING_DELAY, MIN_VOTING_PERIOD, MAX_VOTING_PERIOD,
    MIN_EXECUTION_DELAY, MAX_EXECUTION_DELAY, MIN_QUORUM_BPS, MAX_QUORUM_BPS,
    MaxProposals, MaxTime     \* bounds

Treasury == "treasury"
Roles    == {"proposer", "executor", "canceller", "admin"}
Types    == {"Standard", "Extended", "VetoRatification", "Steward", "Signaling"}
Ids      == 1..MaxProposals
Accounts == Voters \cup Stewards \cup Councils
Params   == [votingDelay : Nat, votingPeriod : Nat, executionDelay : Nat, quorumBps : Nat]

NoSpend   == [t \in Tokens |-> 0]
NoCall    == [kind |-> "none"]
NoPayload == [call |-> NoCall, distribute |-> NoSpend, stewardSpend |-> NoSpend,
              recipients |-> {}]

\* The payloads of propose(), and those that proposeStewardSpend() builds.
Carried == Payloads \cup {NoPayload} \cup
    {[NoPayload EXCEPT !.stewardSpend = p.stewardSpend, !.recipients = p.recipients] :
        p \in Payloads}

WellTyped(call) ==
    /\ call.kind \in {"addExtendedSelector", "removeExtendedSelector",
                      "addStandardSelector", "removeStandardSelector"} => call.arg \in STRING
    /\ call.kind = "setProposalTypeParams" => call.arg \in Params
    /\ call.kind = "setSecurityCouncil" => call.arg \in Councils \cup {NoOne}
    /\ call.kind = "electSteward" => call.arg \in Stewards
    /\ call.kind = "updateDelay" => call.arg \in Nat

ASSUME GovernorInputs ==
    /\ {MaxProposals, Supply, QUORUM_FLOOR, RatificationPeriod, StewardPeriod, StewardDelay,
        FixedQuorumBps, QUEUE_GRACE_PERIOD, TERM_DURATION, InitialMinDelay} \subseteq Nat
    /\ {StandardParams, ExtendedParams, SignalingParams} \subseteq Params
    /\ IsFiniteSet(Voters) /\ IsFiniteSet(Holders) /\ Treasury \notin Holders
    /\ VoteStates \subseteq [Voters -> Nat]
    /\ HoldingStates \subseteq [Holders \cup {Treasury} -> Nat]
    /\ InitialCouncil \in Councils \cup {NoOne} /\ InitialSteward \in Stewards \cup {NoOne}
    /\ InitialSetup \subseteq {"excluded", "crowdfund", "steward"}
    /\ InitialExtendedSelectors \subseteq STRING /\ InitialStandardSelectors \subseteq STRING
    /\ {InitialDeployer, InitialWindDownContract} \subseteq BOOLEAN
    /\ \A p \in Payloads : WellTyped(p.call)

\* The delays initialize() sets respect the bounds, as those of every later proposal will.
ASSUME GovernorDelays ==
    /\ {MIN_EXECUTION_DELAY, MAX_EXECUTION_DELAY} \subseteq Nat
    /\ InitialMinDelay <= MIN_EXECUTION_DELAY
    /\ MAX_EXECUTION_DELAY <= RatificationPeriod
    /\ {StandardParams.executionDelay, ExtendedParams.executionDelay, StewardDelay}
          \subseteq MIN_EXECUTION_DELAY..MAX_EXECUTION_DELAY

\* initialize() lists every selector once.
ASSUME GovernorSelectors == InitialExtendedSelectors \cap InitialStandardSelectors = {}

VARIABLES
    now,
    votes, pastVotes,     \* delegated votes now and at the end of the previous block
    holdings,             \* ARM balances that may be excluded from the quorum
    treasury,             \* what the governor reads of the treasury
    finalizedAt,          \* of the crowdfund; 0 until then
    proposalCount, proposals, ratificationOf, vetoRatificationId,
    operations,           \* the timelock's operations, one per proposal
    settings,             \* everything a passed proposal can change
    deployer              \* the deployer's powers that are left

environment  == <<votes, pastVotes, holdings, treasury, finalizedAt>>
proposalVars == <<proposalCount, proposals, ratificationOf, vetoRatificationId>>
vars == <<now, environment, proposalVars, operations, settings, deployer>>

Blank ==
    [proposer |-> NoOne, type |-> "Standard", payload |-> NoPayload,
     executed |-> FALSE, canceled |-> FALSE, queued |-> FALSE,
     vetoRatificationDenied |-> FALSE,
     voteStart |-> 0, voteEnd |-> 0, executionDelay |-> 0,
     snapshotVotes |-> [v \in Voters |-> 0], snapshotEligibleSupply |-> 0,
     snapshotQuorumBps |-> 0, choice |-> [v \in Voters |-> "none"],
     tally |-> [c \in {"against", "for", "abstain"} |-> 0]]

Unset == [status |-> "unset", readyAt |-> 0]

Init ==
    /\ now = 1
    /\ votes \in VoteStates /\ pastVotes = votes
    /\ holdings \in HoldingStates /\ treasury \in TreasuryStates /\ finalizedAt = 0
    /\ proposalCount = 0 /\ proposals = [i \in Ids |-> Blank]
    /\ ratificationOf = [i \in Ids |-> 0] /\ vetoRatificationId = [i \in Ids |-> 0]
    /\ operations = [i \in Ids |-> Unset]
    /\ settings =
         [securityCouncil |-> InitialCouncil,
          Standard |-> StandardParams, Extended |-> ExtendedParams,
          minDelay |-> InitialMinDelay, roles |-> Roles,
          extendedSelectors |-> InitialExtendedSelectors,
          standardSelectors |-> InitialStandardSelectors,
          steward |-> InitialSteward, termStart |-> IF InitialSteward = NoOne THEN 0 ELSE 1,
          excluded |-> {}, windDownContractSet |-> InitialWindDownContract, windDownActive |-> FALSE]
    /\ deployer = [present |-> InitialDeployer, setup |-> InitialSetup]

-----------------------------------------------------------------------------
(* Views *)

Larger(a, b) == IF a > b THEN a ELSE b

Quorum(p) ==
    Larger((p.snapshotEligibleSupply * p.snapshotQuorumBps) \div 10000, QUORUM_FLOOR)

QuorumReached(p) == p.tally["for"] + p.tally["against"] + p.tally["abstain"] >= Quorum(p)

PassesByDefault(p) == p.type \in {"Steward", "VetoRatification"}

\* The vote itself, once it is over.
VotedDown(p) ==
    IF PassesByDefault(p)
    THEN QuorumReached(p) /\ p.tally["against"] > p.tally["for"]
    ELSE ~(QuorumReached(p) /\ p.tally["for"] > p.tally["against"])

State(i) ==
    LET p == proposals[i] IN
    IF p.canceled THEN "Canceled"
    ELSE IF p.executed THEN "Executed"
    ELSE IF now < p.voteStart THEN "Pending"
    ELSE IF now <= p.voteEnd THEN "Active"
    ELSE IF VotedDown(p) THEN "Defeated"
    ELSE IF p.type \in {"VetoRatification", "Signaling"} THEN "Succeeded"
    ELSE IF p.queued THEN "Queued"
    ELSE IF now > p.voteEnd + QUEUE_GRACE_PERIOD THEN "Defeated"
    ELSE "Succeeded"

Known == 1..proposalCount

\* TreasurySteward.getCurrentSteward.
StewardActive(account) ==
    /\ settings.steward = account /\ account # NoOne
    /\ now < settings.termStart + TERM_DURATION

QuietPeriodOver ==
    \/ "crowdfund" \notin deployer.setup
    \/ finalizedAt = 0
    \/ now >= finalizedAt + QUIET_PERIOD_DURATION

ParamsOf(type) ==
    CASE type \in {"Standard", "Extended"} -> settings[type]
      [] type = "VetoRatification" ->
           [votingDelay |-> 0, votingPeriod |-> RatificationPeriod,
            executionDelay |-> 0, quorumBps |-> FixedQuorumBps]
      [] type = "Steward" ->
           [votingDelay |-> 0, votingPeriod |-> StewardPeriod,
            executionDelay |-> StewardDelay, quorumBps |-> FixedQuorumBps]
      [] type = "Signaling" -> SignalingParams

Selectors(payload) ==
    {s \in {payload.call.kind} : s # "none"}
        \cup {s \in {"distribute"} : payload.distribute # NoSpend}
        \cup {s \in {"stewardSpend"} : payload.stewardSpend # NoSpend}

\* Mutant: an unregistered selector counts as standard.
ClassifyFailOpen(declared, payload) ==
    IF Selectors(payload) \cap settings.extendedSelectors # {} THEN "Extended" ELSE declared

\* Fail-closed: a selector in neither registry makes the proposal extended.
Classify(declared, payload) ==
    IF \/ Selectors(payload) \cap settings.extendedSelectors # {}
       \/ ~ (Selectors(payload) \subseteq settings.standardSelectors)
       \/ \E t \in Tokens :
             /\ treasury.balance[t] > 0
             /\ payload.distribute[t] > (treasury.balance[t] * 500) \div 10000
    THEN "Extended" ELSE declared

\* Mutant: any delay may be proposed for the timelock.
AnyTimelockDelay(call) ==
    /\ call.kind = "revokeRole" => call.arg \notin Roles
    /\ call.kind = "renounceRole" => call.arg # "admin"

\* _validateTimelockCalldata; a role stands for the account that must keep it.
SafeTimelockCall(call) ==
    /\ call.kind = "updateDelay" => call.arg <= MIN_EXECUTION_DELAY
    /\ call.kind = "revokeRole" => call.arg \notin Roles
    /\ call.kind = "renounceRole" => call.arg # "admin"

\* Queue-time check of the sums per token against the limits, not against what is left.
OutflowFeasible(payload) ==
    \A t \in Tokens :
        /\ payload.distribute[t] + payload.stewardSpend[t] <= treasury.limit[t]
        /\ payload.stewardSpend[t] <= treasury.budget[t]

-----------------------------------------------------------------------------
(* Creating proposals *)

\* _initProposal: timing, weights, eligible supply and quorum share are frozen here.
NewProposal(proposer, type, payload) ==
    LET params   == ParamsOf(type)
        excluded == SumOver(holdings, {Treasury} \cup settings.excluded)
    IN  [Blank EXCEPT !.proposer = proposer, !.type = type, !.payload = payload,
              !.voteStart = now + params.votingDelay,
              !.voteEnd = now + params.votingDelay + params.votingPeriod,
              !.executionDelay = params.executionDelay,
              !.snapshotVotes = pastVotes,
              !.snapshotEligibleSupply = IF excluded > Supply THEN 0 ELSE Supply - excluded,
              !.snapshotQuorumBps = params.quorumBps]

Create(proposer, type, payload) ==
    /\ proposalCount < MaxProposals
    /\ proposalCount' = proposalCount + 1
    /\ proposals' = [proposals EXCEPT ![proposalCount + 1] =
                        NewProposal(proposer, type, payload)]

Propose(sender, declared, payload) ==
    /\ ~settings.windDownActive
    /\ declared \in {"Standard", "Extended", "Signaling"}
    /\ QuietPeriodOver
    /\ pastVotes[sender] >= PROPOSAL_THRESHOLD
    /\ declared = "Signaling" <=> payload = NoPayload
    /\ SafeTimelockCall(payload.call)
    /\ Create(sender, IF declared = "Standard" THEN Classify(declared, payload) ELSE declared,
              payload)
    /\ UNCHANGED <<now, environment, ratificationOf, vetoRatificationId, operations,
                   settings, deployer>>

ProposeStewardSpend(sender, spend, recipients) ==
    LET payload == [NoPayload EXCEPT !.stewardSpend = spend, !.recipients = recipients] IN
    /\ ~settings.windDownActive
    /\ "steward" \in deployer.setup
    /\ StewardActive(sender)
    /\ spend # NoSpend
    /\ QuietPeriodOver
    /\ sender \notin recipients
    /\ Classify("Standard", payload) = "Standard"
    /\ Create(sender, "Steward", payload)
    /\ UNCHANGED <<now, environment, ratificationOf, vetoRatificationId, operations,
                   settings, deployer>>

-----------------------------------------------------------------------------
(* Voting *)

\* Mutant: changing a vote leaves its weight in the old bucket.
Recount(p, voter, support) ==
    [p EXCEPT !.choice[voter] = support,
              !.tally[support] = @ + p.snapshotVotes[voter]]

Count(p, voter, support) ==
    LET weight == p.snapshotVotes[voter]
        old    == p.choice[voter]
    IN  [p EXCEPT !.choice[voter] = support,
                  !.tally = [c \in DOMAIN @ |->
                      @[c] + (IF c = support THEN weight ELSE 0)
                           - (IF c = old THEN weight ELSE 0)]]

CastVote(sender, i, support) ==
    /\ i \in Known
    /\ ~proposals[i].canceled
    /\ proposals[i].voteStart <= now /\ now <= proposals[i].voteEnd
    /\ proposals[i].snapshotVotes[sender] > 0
    /\ proposals[i].choice[sender] # support
    /\ proposals' = [proposals EXCEPT ![i] = Count(@, sender, support)]
    /\ UNCHANGED <<now, environment, proposalCount, ratificationOf, vetoRatificationId,
                   operations, settings, deployer>>

-----------------------------------------------------------------------------
(* Timelock operations; only the governor holds the roles these need. *)

Schedule(i, delay) ==
    /\ "proposer" \in settings.roles
    /\ operations[i].status = "unset"
    /\ delay >= settings.minDelay
    /\ operations' = [operations EXCEPT ![i] =
                         [status |-> "pending", readyAt |-> now + delay]]

CancelOperation(i) ==
    /\ "canceller" \in settings.roles
    /\ operations[i].status = "pending"
    /\ operations' = [operations EXCEPT ![i] = Unset]

ExecuteOperation(i) ==
    /\ "executor" \in settings.roles
    /\ operations[i].status = "pending" /\ operations[i].readyAt <= now
    /\ operations' = [operations EXCEPT ![i].status = "done"]

-----------------------------------------------------------------------------
(* What a passed proposal can do *)

Registered(call) == call.arg \in settings.extendedSelectors \cup settings.standardSelectors

ChangeSelectors(call) ==
    \/ /\ call.kind = "addExtendedSelector" /\ ~Registered(call)
       /\ settings' = [settings EXCEPT !.extendedSelectors = @ \cup {call.arg}]
    \/ /\ call.kind = "removeExtendedSelector" /\ call.arg \in settings.extendedSelectors
       /\ settings' = [settings EXCEPT !.extendedSelectors = @ \ {call.arg}]
    \/ /\ call.kind = "addStandardSelector" /\ ~Registered(call)
       /\ settings' = [settings EXCEPT !.standardSelectors = @ \cup {call.arg}]
    \/ /\ call.kind = "removeStandardSelector" /\ call.arg \in settings.standardSelectors
       /\ settings' = [settings EXCEPT !.standardSelectors = @ \ {call.arg}]

AllowedParams(type, params) ==
    /\ type \in {"Standard", "Extended"}
    /\ params.votingDelay \in MIN_VOTING_DELAY..MAX_VOTING_DELAY
    /\ params.votingPeriod \in MIN_VOTING_PERIOD..MAX_VOTING_PERIOD
    /\ params.executionDelay \in MIN_EXECUTION_DELAY..MAX_EXECUTION_DELAY
    /\ params.quorumBps \in MIN_QUORUM_BPS..MAX_QUORUM_BPS
    /\ type = "Extended" =>
          params.votingDelay + params.votingPeriod + params.executionDelay
              < TREASURY_OUTFLOW_ACTIVATION_DELAY

ChangeParams(call) ==
    /\ call.kind = "setProposalTypeParams"
    /\ AllowedParams(call.type, call.arg)
    /\ settings' = [settings EXCEPT ![call.type] = call.arg]

ChangeCouncil(call) ==
    /\ call.kind = "setSecurityCouncil" /\ settings.securityCouncil # call.arg
    /\ settings' = [settings EXCEPT !.securityCouncil = call.arg]

ChangeSteward(call) ==
    \/ /\ call.kind = "electSteward"
       /\ settings' = [settings EXCEPT !.steward = call.arg, !.termStart = now]
    \/ /\ call.kind = "removeSteward" /\ settings.steward # NoOne
       /\ settings' = [settings EXCEPT !.steward = NoOne, !.termStart = 0]

\* A role can also be granted: who holds it may then schedule or execute at the
\* timelock without the governor and its checks.  That is left out; the governor
\* alone acts on the timelock here.
ChangeTimelock(call) ==
    \/ /\ call.kind = "updateDelay"
       /\ settings' = [settings EXCEPT !.minDelay = call.arg]
    \/ /\ call.kind \in {"revokeRole", "renounceRole"} /\ "admin" \in settings.roles
       /\ call.kind = "renounceRole" => call.arg = "admin"   \* an account renounces its own
       /\ settings' = [settings EXCEPT !.roles = @ \ {call.arg}]

AddExcludedAddress(call) ==
    /\ call.kind = "addExcludedAddress" /\ call.arg \in Holders \ settings.excluded
    /\ settings' = [settings EXCEPT !.excluded = @ \cup {call.arg}]

SetWindDownContract(call) ==
    /\ call.kind = "setWindDownContract" /\ ~settings.windDownContractSet
    /\ settings' = [settings EXCEPT !.windDownContractSet = TRUE]

\* setWindDownActive, called back by the wind-down contract.
ActivateWindDown ==
    /\ settings.windDownContractSet /\ ~settings.windDownActive
    /\ settings' = [settings EXCEPT !.windDownActive = TRUE]

Perform(call) ==
    \/ call.kind \in {"none", "other"} /\ UNCHANGED settings
    \/ ChangeSelectors(call)
    \/ ChangeParams(call)
    \/ ChangeCouncil(call)
    \/ ChangeSteward(call)
    \/ ChangeTimelock(call)
    \/ AddExcludedAddress(call)
    \/ SetWindDownContract(call)
    \/ call.kind = "governanceTriggerWindDown" /\ ActivateWindDown

-----------------------------------------------------------------------------
(* Queueing, executing, cancelling *)

\* Mutant: the end of the term is not checked.
StewardNotReplaced(p) ==
    p.type = "Steward" => "steward" \in deployer.setup /\ settings.steward = p.proposer

StewardStillActive(p) ==
    p.type = "Steward" => "steward" \in deployer.setup /\ StewardActive(p.proposer)

Queue(i) ==
    LET p == proposals[i] IN
    /\ ~settings.windDownActive
    /\ i \in Known /\ State(i) = "Succeeded"
    /\ p.type \notin {"VetoRatification", "Signaling"}
    /\ StewardStillActive(p)
    /\ OutflowFeasible(p.payload)
    /\ proposals' = [proposals EXCEPT ![i].queued = TRUE]
    /\ Schedule(i, Larger(settings.minDelay, p.executionDelay))
    /\ UNCHANGED <<now, environment, proposalCount, ratificationOf, vetoRatificationId,
                   settings, deployer>>

Execute(i) ==
    LET p == proposals[i] IN
    /\ ~settings.windDownActive
    /\ i \in Known /\ State(i) = "Queued"
    /\ StewardStillActive(p)
    /\ proposals' = [proposals EXCEPT ![i].executed = TRUE]
    /\ ExecuteOperation(i)
    /\ Perform(p.payload.call)
    /\ UNCHANGED <<now, environment, proposalCount, ratificationOf, vetoRatificationId,
                   deployer>>

Cancel(sender, i) ==
    /\ i \in Known /\ sender = proposals[i].proposer
    /\ \/ State(i) = "Pending"
       \/ State(i) = "Active" /\ proposals[i].type = "Steward"
    /\ proposals' = [proposals EXCEPT ![i].canceled = TRUE]
    /\ UNCHANGED <<now, environment, proposalCount, ratificationOf, vetoRatificationId,
                   operations, settings, deployer>>

-----------------------------------------------------------------------------
(* Veto and ratification *)

\* Mutant: a proposal whose veto was denied can be vetoed again.
MayVetoAgain(sc, i) ==
    /\ sc = settings.securityCouncil /\ sc # NoOne
    /\ i \in Known /\ State(i) = "Queued"

MayVeto(sc, i) ==
    /\ sc = settings.securityCouncil /\ sc # NoOne
    /\ i \in Known /\ State(i) = "Queued"
    /\ ~proposals[i].vetoRatificationDenied

Veto(sc, i) ==
    /\ MayVeto(sc, i)
    /\ CancelOperation(i)
    /\ proposalCount < MaxProposals
    /\ LET ratId == proposalCount + 1 IN
       /\ proposalCount' = ratId
       /\ proposals' = [proposals EXCEPT
             ![i].canceled = TRUE,
             ![ratId] = NewProposal(sc, "VetoRatification", NoPayload)]
       /\ ratificationOf' = [ratificationOf EXCEPT ![ratId] = i]
       /\ vetoRatificationId' = [vetoRatificationId EXCEPT ![i] = ratId]
    /\ UNCHANGED <<now, environment, settings, deployer>>

\* Mutant: whoever is the council now is ejected.
EjectCurrentCouncil(vetoingSC) == settings' = [settings EXCEPT !.securityCouncil = NoOne]

\* A council that replaced the vetoing one keeps its seat.
Eject(vetoingSC) ==
    settings' = [settings EXCEPT
        !.securityCouncil = IF @ = vetoingSC THEN NoOne ELSE @]

UpholdVeto(rat) ==
    /\ proposals' = [proposals EXCEPT ![rat].executed = TRUE]
    /\ UNCHANGED <<operations, settings>>

\* Mutant: the restored proposal is not scheduled again.
RestoreUnscheduled(rat) ==
    LET vetoed == ratificationOf[rat] IN
    /\ Eject(proposals[rat].proposer)
    /\ proposals' = [proposals EXCEPT
          ![rat].executed = TRUE,
          ![vetoed].canceled = FALSE,
          ![vetoed].vetoRatificationDenied = TRUE]
    /\ UNCHANGED operations

DenyVeto(rat) ==
    LET vetoed == ratificationOf[rat] IN
    /\ Eject(proposals[rat].proposer)
    /\ proposals' = [proposals EXCEPT
          ![rat].executed = TRUE,
          ![vetoed].canceled = FALSE,
          ![vetoed].vetoRatificationDenied = TRUE]
    /\ Schedule(vetoed, settings.minDelay)

\* Mutant: a ratification is counted while it is still being voted on.
ResolveEarly(rat) ==
    /\ rat \in Known /\ ratificationOf[rat] # 0
    /\ ~proposals[rat].executed
    /\ IF VotedDown(proposals[rat]) THEN DenyVeto(rat) ELSE UpholdVeto(rat)
    /\ UNCHANGED <<now, environment, proposalCount, ratificationOf, vetoRatificationId,
                   deployer>>

\* Mutant: wind-down stops the count of a ratification.
ResolveBeforeWindDown(rat) ==
    /\ ~settings.windDownActive
    /\ rat \in Known /\ ratificationOf[rat] # 0
    /\ now > proposals[rat].voteEnd
    /\ ~proposals[rat].executed
    /\ IF VotedDown(proposals[rat]) THEN DenyVeto(rat) ELSE UpholdVeto(rat)
    /\ UNCHANGED <<now, environment, proposalCount, ratificationOf, vetoRatificationId,
                   deployer>>

\* Not stopped by wind-down: the vote may still be counted then.
ResolveRatification(rat) ==
    /\ rat \in Known /\ ratificationOf[rat] # 0
    /\ now > proposals[rat].voteEnd
    /\ ~proposals[rat].executed
    /\ IF VotedDown(proposals[rat]) THEN DenyVeto(rat) ELSE UpholdVeto(rat)
    /\ UNCHANGED <<now, environment, proposalCount, ratificationOf, vetoRatificationId,
                   deployer>>

-----------------------------------------------------------------------------
(* The deployer's one-time setters, and the world outside *)

SetExcludedAddresses(addrs) ==
    /\ deployer.present /\ "excluded" \notin deployer.setup
    /\ deployer' = [deployer EXCEPT !.setup = @ \cup {"excluded"}]
    /\ addrs \cap settings.excluded = {}
    /\ settings' = [settings EXCEPT !.excluded = @ \cup addrs]
    /\ UNCHANGED <<now, environment, proposalVars, operations>>

\* setCrowdfundAddress and setStewardContract.
Register(contract) ==
    /\ deployer.present /\ contract \notin deployer.setup
    /\ deployer' = [deployer EXCEPT !.setup = @ \cup {contract}]
    /\ UNCHANGED <<now, environment, proposalVars, operations, settings>>

BootstrapCouncil(sc) ==
    /\ deployer.present /\ settings.securityCouncil # sc
    /\ settings' = [settings EXCEPT !.securityCouncil = sc]
    /\ UNCHANGED <<now, environment, proposalVars, operations, deployer>>

ClearDeployer ==
    /\ deployer.present
    /\ deployer' = [deployer EXCEPT !.present = FALSE]
    /\ UNCHANGED <<now, environment, proposalVars, operations, settings>>

\* The wind-down contract triggers by itself once its deadline passes.
SetWindDownActive ==
    /\ ActivateWindDown
    /\ UNCHANGED <<now, environment, proposalVars, operations, deployer>>

\* Transfers and delegations; balances and limits of the treasury.
TokensMove ==
    /\ votes' \in VoteStates /\ holdings' \in HoldingStates /\ treasury' \in TreasuryStates
    /\ UNCHANGED <<now, pastVotes, finalizedAt, proposalVars, operations, settings, deployer>>

CrowdfundFinalizes ==
    /\ finalizedAt = 0 /\ now \in FinalizeTimes
    /\ finalizedAt' = now
    /\ UNCHANGED <<now, votes, pastVotes, holdings, treasury, proposalVars, operations,
                   settings, deployer>>

\* A block ends; several blocks may share an instant of the coarse clock.
Mine ==
    /\ pastVotes' = votes
    /\ now' \in {now, now + 1} /\ now' <= MaxTime
    /\ UNCHANGED <<votes, holdings, treasury, finalizedAt, proposalVars, operations,
                   settings, deployer>>

-----------------------------------------------------------------------------
Proposing ==
    \/ \E sender \in Voters, type \in DeclaredTypes, payload \in Payloads \cup {NoPayload} :
          Propose(sender, type, payload)
    \/ \E sender \in Stewards, payload \in Payloads :
          ProposeStewardSpend(sender, payload.stewardSpend, payload.recipients)

Deciding ==
    \/ \E sender \in Voters, i \in Ids, support \in {"against", "for", "abstain"} :
          CastVote(sender, i, support)
    \/ \E i \in Ids : Queue(i) \/ Execute(i) \/ ResolveRatification(i)
    \/ \E sender \in Accounts, i \in Ids : Cancel(sender, i)
    \/ \E sc \in Councils, i \in Ids : Veto(sc, i)

Bootstrapping ==
    \/ \E addrs \in SUBSET Holders : SetExcludedAddresses(addrs)
    \/ \E contract \in {"crowdfund", "steward"} : Register(contract)
    \/ \E sc \in Councils \cup {NoOne} : BootstrapCouncil(sc)
    \/ ClearDeployer

Next ==
    \/ Proposing
    \/ Deciding
    \/ Bootstrapping
    \/ SetWindDownActive
    \/ TokensMove
    \/ CrowdfundFinalizes
    \/ Mine

Spec == Init /\ [][Next]_vars

(***************************************************************************)
(* For liveness only: time passes, and somebody calls the permissionless   *)
(* resolveRatification() once it is possible.                              *)
(***************************************************************************)
FairSpec ==
    /\ Spec
    /\ WF_vars(Mine /\ now' = now + 1)
    /\ \A i \in Ids : WF_vars(ResolveRatification(i))

-----------------------------------------------------------------------------
ProposalRecord ==
    [proposer : Accounts \cup {NoOne}, type : Types, payload : Carried,
     executed : BOOLEAN, canceled : BOOLEAN, queued : BOOLEAN,
     vetoRatificationDenied : BOOLEAN,
     voteStart : Nat, voteEnd : Nat, executionDelay : Nat,
     snapshotVotes : [Voters -> Nat], snapshotEligibleSupply : Nat,
     snapshotQuorumBps : Nat,
     choice : [Voters -> {"none", "against", "for", "abstain"}],
     tally : [{"against", "for", "abstain"} -> Nat]]

Settings ==
    [securityCouncil : Councils \cup {NoOne}, Standard : Params, Extended : Params,
     minDelay : Nat, roles : SUBSET Roles,
     extendedSelectors : SUBSET STRING, standardSelectors : SUBSET STRING,
     steward : Stewards \cup {NoOne}, termStart : Nat, excluded : SUBSET Holders,
     windDownContractSet : BOOLEAN, windDownActive : BOOLEAN]

TypeOK ==
    /\ {now, finalizedAt} \subseteq Nat
    /\ {votes, pastVotes} \subseteq [Voters -> Nat]
    /\ holdings \in HoldingStates /\ treasury \in TreasuryStates
    /\ proposalCount \in 0..MaxProposals
    /\ proposals \in [Ids -> ProposalRecord]
    /\ ratificationOf \in [Ids -> 0..MaxProposals]
    /\ vetoRatificationId \in [Ids -> 0..MaxProposals]
    /\ operations \in [Ids -> [status : {"unset", "pending", "done"}, readyAt : Nat]]
    /\ settings \in Settings
    /\ deployer \in [present : BOOLEAN, setup : SUBSET {"excluded", "crowdfund", "steward"}]

Executable(p) == p.type \in {"Standard", "Extended", "Steward"}

(***************************************************************************)
(* The timelock and the governor agree about every proposal through queue, *)
(* veto, restoration and execution: an operation is pending exactly while  *)
(* its proposal is queued, so a veto leaves nothing behind that could run  *)
(* and a restored proposal can run.                                        *)
(***************************************************************************)
TimelockAgrees ==
    \A i \in Ids :
        LET p == proposals[i] IN
        /\ operations[i].status = "pending"
              <=> Executable(p) /\ p.queued /\ ~p.canceled /\ ~p.executed
        /\ operations[i].status = "done" <=> Executable(p) /\ p.executed
        /\ operations[i].status # "unset" => State(i) \in {"Queued", "Executed"}

(***************************************************************************)
(* Every bucket of a tally is the snapshot weight of the accounts whose    *)
(* latest choice it is, however often they changed their mind (castVote).  *)
(***************************************************************************)
TalliesMatchVoters ==
    \A i \in Known : \A c \in {"against", "for", "abstain"} :
        proposals[i].tally[c] =
            SumOver(proposals[i].snapshotVotes, {v \in Voters : proposals[i].choice[v] = c})

(***************************************************************************)
(* No sequence of proposals takes the governor's own machinery away: it    *)
(* keeps its timelock roles, and the timelock's minimum delay never        *)
(* exceeds the delay of a proposal (the comments on UPDATE_DELAY_SELECTOR).*)
(* This is about what passes through propose() and so through              *)
(* _validateTimelockCalldata: as long as no other account was granted a    *)
(* role of the timelock.                                                   *)
(***************************************************************************)
GovernanceStaysOperable ==
    /\ settings.roles = Roles
    /\ \A i \in Known :
          Executable(proposals[i]) => settings.minDelay <= proposals[i].executionDelay

\* A selector is never in both registries (audit-96 in the source).
RegistriesDisjoint == settings.extendedSelectors \cap settings.standardSelectors = {}

\* What is in a standard proposal was registered at deployment or by an enacted proposal.
StandardWasRegistered ==
    \A i \in Known : proposals[i].type = "Standard" =>
        \A s \in Selectors(proposals[i].payload) \ InitialStandardSelectors :
            \E j \in Known : /\ proposals[j].executed
                            /\ proposals[j].payload.call.kind = "addStandardSelector"
                            /\ proposals[j].payload.call.arg = s

(***************************************************************************)
(* The lower quorum of a standard proposal reaches only what the           *)
(* deployment registered as standard, or an enacted proposal did: anything *)
(* unknown is extended (_classifyProposal is fail-closed).  The registries *)
(* never overlap, so no call changes its class by leaving one of them.     *)
(***************************************************************************)
OnlyRegisteredIsStandard == RegistriesDisjoint /\ StandardWasRegistered

Enacted(i) == Executable(proposals[i]) /\ ~proposals[i].executed /\ proposals'[i].executed

(***************************************************************************)
(* What is enacted was not voted down, waited its execution delay after    *)
(* the vote even if it was vetoed, restored and rescheduled with the       *)
(* shorter minimum delay, and is enacted before governance ended.          *)
(***************************************************************************)
EnactedAfterVoteAndDelay ==
    [][\A i \in Ids : Enacted(i) =>
          /\ ~VotedDown(proposals[i])
          /\ now >= proposals[i].voteEnd + proposals[i].executionDelay
          /\ ~settings.windDownActive]_vars

(***************************************************************************)
(* A steward spends only while in office: removal or the end of the term   *)
(* stops what was proposed, voted or queued before, and nothing but a      *)
(* payment to others passes by default.                                    *)
(***************************************************************************)
StewardSpendsOnlyInOffice ==
    [][\A i \in Ids : Enacted(i) /\ proposals[i].type = "Steward" =>
          /\ StewardActive(proposals[i].proposer)
          /\ proposals[i].proposer \notin proposals[i].payload.recipients
          /\ settings' = settings]_vars

(***************************************************************************)
(* A vote never unseats a council other than the one whose veto it denied. *)
(***************************************************************************)
OnlyTheVetoingCouncilIsEjected ==
    [][\A r \in Ids :
          /\ ratificationOf[r] # 0 /\ ~proposals[r].executed /\ proposals'[r].executed
          /\ settings'.securityCouncil # settings.securityCouncil
          => /\ settings.securityCouncil = proposals[r].proposer
             /\ VotedDown(proposals[r])
             /\ settings'.securityCouncil = NoOne]_vars

(***************************************************************************)
(* Every veto is decided: its ratification is resolved once its vote is    *)
(* over, so no vetoed proposal stays in limbo.                             *)
(***************************************************************************)
EveryVetoIsDecided ==
    \A r \in Ids :
        ratificationOf[r] # 0 /\ proposals[r].voteEnd < MaxTime ~> proposals[r].executed

(***************************************************************************)
(* The governor implements the life cycle of proposals it promises.        *)
(***************************************************************************)
Phase == [i \in Ids |-> IF i \in Known THEN State(i) ELSE "None"]

Lifecycle == INSTANCE ProposalLifecycle WITH
    phase    <- Phase,
    ratifies <- ratificationOf,
    ended    <- settings.windDownActive

ImplementsLifecycle == Lifecycle!Spec

=============================================================================
