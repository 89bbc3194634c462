--------------------------- MODULE GovernorProofs ---------------------------
(***************************************************************************)
(* Theorems about Governor for every set of voters, payloads and delays    *)
(* that satisfy its assumptions.                                           *)
(***************************************************************************)
EXTENDS Governor, NaturalSumLemmas

Options == {"against", "for", "abstain"}

Backers(p, c) == {v \in Voters : p.choice[v] = c}

TallyMatches(p) == \A c \in Options : p.tally[c] = SumOver(p.snapshotVotes, Backers(p, c))

-----------------------------------------------------------------------------
(* Votes *)

\* The backers of a choice are finitely many voters.
LEMMA BackersFinite ==
    ASSUME NEW p, NEW c
    PROVE  Backers(p, c) \in SUBSET Voters /\ IsFiniteSet(Backers(p, c))
<1>1. Backers(p, c) \in SUBSET Voters
  BY DEF Backers
<1>. QED  BY <1>1, GovernorInputs, FS_Subset

\* A vote replaces the voter's choice.
LEMMA CountChoice ==
    ASSUME NEW p \in ProposalRecord, NEW voter \in Voters, NEW support \in Options
    PROVE  Count(p, voter, support).choice = [p.choice EXCEPT ![voter] = support]
  BY DEF Count, ProposalRecord

\* A vote moves the voter's weight from the old bucket to the new one.
LEMMA CountTally ==
    ASSUME NEW p \in ProposalRecord, NEW voter \in Voters, NEW support \in Options
    PROVE  Count(p, voter, support).tally =
                [c \in Options |->
                    p.tally[c] + (IF c = support THEN p.snapshotVotes[voter] ELSE 0)
                               - (IF c = p.choice[voter] THEN p.snapshotVotes[voter] ELSE 0)]
  BY DEF Count, ProposalRecord, Options

\* A vote leaves the snapshot of weights alone.
LEMMA CountKeepsWeights ==
    ASSUME NEW p \in ProposalRecord, NEW voter \in Voters, NEW support \in Options
    PROVE  Count(p, voter, support).snapshotVotes = p.snapshotVotes
  BY DEF Count, ProposalRecord

\* A counted proposal is a proposal, given the types of what a vote changes.
LEMMA CountTyped ==
    ASSUME NEW p \in ProposalRecord, NEW voter \in Voters, NEW support \in Options,
           Count(p, voter, support).tally \in [Options -> Nat],
           Count(p, voter, support).choice \in [Voters -> {"none", "against", "for", "abstain"}]
    PROVE  Count(p, voter, support) \in ProposalRecord
  BY DEF Count, ProposalRecord, Options

(***************************************************************************)
(* Casting or changing a vote keeps every bucket equal to the weight of    *)
(* those whose latest choice it is, so nothing is ever taken from an       *)
(* empty bucket.                                                           *)
(***************************************************************************)
LEMMA CountMatches ==
    ASSUME NEW p \in ProposalRecord, NEW voter \in Voters, NEW support \in Options,
           p.choice[voter] # support, TallyMatches(p)
    PROVE  /\ Count(p, voter, support) \in ProposalRecord
           /\ TallyMatches(Count(p, voter, support))
<1>. DEFINE weight == p.snapshotVotes[voter]
            old    == p.choice[voter]
            w      == p.snapshotVotes
<1>. SUFFICES ASSUME NEW q, q = Count(p, voter, support)
              PROVE  q \in ProposalRecord /\ TallyMatches(q)
  OBVIOUS
<1>1. /\ w \in [Voters -> Nat] /\ weight \in Nat
      /\ p.choice \in [Voters -> {"none", "against", "for", "abstain"}]
      /\ p.tally \in [Options -> Nat]
  BY DEF ProposalRecord, Options
<1>2. q.choice = [p.choice EXCEPT ![voter] = support]
  BY CountChoice
<1>2a. q.tally = [c \in Options |-> p.tally[c] + (IF c = support THEN weight ELSE 0)
                                            - (IF c = old THEN weight ELSE 0)]
  BY CountTally
<1>3. q.snapshotVotes = w
  BY CountKeepsWeights
<1>. HIDE DEF weight, old, w
<1>4. q.choice \in [Voters -> {"none", "against", "for", "abstain"}]
  BY <1>1, <1>2 DEF Options
<1>5. ASSUME NEW c \in Options
      PROVE  q.tally[c] = SumOver(w, Backers(q, c)) /\ q.tally[c] \in Nat
  <2>1. p.tally[c] = SumOver(w, Backers(p, c)) /\ p.tally[c] \in Nat
    BY <1>1 DEF TallyMatches, w
  <2>2. q.tally[c] = p.tally[c] + (IF c = support THEN weight ELSE 0)
                               - (IF c = old THEN weight ELSE 0)
    BY <1>2a
  <2>3. \A v \in Voters : q.choice[v] = IF v = voter THEN support ELSE p.choice[v]
    BY <1>1, <1>2
  <2>4. CASE c = support
    <3>1. Backers(p, c) = Backers(q, c) \ {voter} /\ voter \in Backers(q, c)
      BY <2>3, <2>4 DEF Backers
    <3>2. SumOver(w, Backers(q, c)) = SumOver(w, Backers(q, c) \ {voter}) + w[voter]
      BY <1>1, <3>1, BackersFinite, SumWithout
    <3>3. c # old
      BY <2>4 DEF old
    <3>. QED  BY <1>1, <2>1, <2>2, <2>4, <3>1, <3>2, <3>3, SMT DEF weight, w
  <2>5. CASE c = old
    <3>1. Backers(q, c) = Backers(p, c) \ {voter} /\ voter \in Backers(p, c)
      BY <2>3, <2>5 DEF Backers, old
    <3>2. SumOver(w, Backers(p, c)) = SumOver(w, Backers(p, c) \ {voter}) + w[voter]
      BY <1>1, <3>1, BackersFinite, SumWithout
    <3>3. SumOver(w, Backers(q, c)) \in Nat
      BY <1>1, BackersFinite, SumType
    <3>4. c # support
      BY <2>5 DEF old
    <3>. QED  BY <1>1, <2>1, <2>2, <2>5, <3>1, <3>2, <3>3, <3>4, SMT DEF weight, w
  <2>6. CASE c # support /\ c # old
    <3>1. Backers(q, c) = Backers(p, c)
      BY <2>3, <2>6 DEF Backers, old
    <3>. QED  BY <2>1, <2>2, <2>6, <3>1, SMT
  <2>. QED  BY <2>4, <2>5, <2>6
<1>6. q.tally \in [Options -> Nat]
  <2>1. q.tally = [c \in Options |-> q.tally[c]]
    BY <1>2a
  <2>. QED  BY <2>1, <1>5
<1>7. q \in ProposalRecord
  BY <1>4, <1>6, CountTyped
<1>8. TallyMatches(q)
  BY <1>3, <1>5 DEF TallyMatches
<1>. QED  BY <1>7, <1>8

-----------------------------------------------------------------------------
(***************************************************************************)
(* The inductive invariant.  What makes it inductive beyond the properties *)
(* themselves is the account of a veto: between a veto and its resolution  *)
(* exactly one open ratification points at a proposal that is queued,      *)
(* canceled and not scheduled, and its vote ends no earlier than the       *)
(* execution delay of that proposal.                                       *)
(***************************************************************************)
SettingsSafe ==
    /\ settings.roles = Roles
    /\ settings.minDelay <= MIN_EXECUTION_DELAY
    /\ settings.Standard.executionDelay \in MIN_EXECUTION_DELAY..MAX_EXECUTION_DELAY
    /\ settings.Extended.executionDelay \in MIN_EXECUTION_DELAY..MAX_EXECUTION_DELAY

ProposalsSafe ==
    \A i \in Known :
        /\ TallyMatches(proposals[i])
        /\ proposals[i].voteStart <= proposals[i].voteEnd
        /\ SafeTimelockCall(proposals[i].payload.call)
        /\ Executable(proposals[i]) =>
              proposals[i].executionDelay \in MIN_EXECUTION_DELAY..MAX_EXECUTION_DELAY
        /\ proposals[i].type = "Steward" =>
              /\ proposals[i].payload.call = NoCall
              /\ proposals[i].proposer \notin proposals[i].payload.recipients

FreshIds ==
    \A i \in Ids \ Known :
        proposals[i] = Blank /\ ratificationOf[i] = 0 /\ operations[i] = Unset

RatificationsTyped ==
    \A r \in Known :
        /\ ratificationOf[r] # 0 <=> proposals[r].type = "VetoRatification"
        /\ ratificationOf[r] # 0 => ratificationOf[r] \in Known

QueuedHasPassed ==
    \A i \in Known : proposals[i].queued =>
        /\ Executable(proposals[i])
        /\ proposals[i].voteEnd < now
        /\ ~VotedDown(proposals[i])

OpenVeto(r) == ratificationOf[r] # 0 /\ ~proposals[r].executed

OpenVetoes ==
    \A r \in Known : OpenVeto(r) =>
        /\ proposals[ratificationOf[r]].canceled
        /\ proposals[ratificationOf[r]].queued
        /\ ~proposals[ratificationOf[r]].executed
        /\ proposals[ratificationOf[r]].voteEnd + proposals[ratificationOf[r]].executionDelay
              <= proposals[r].voteEnd

OneOpenVetoEach ==
    \A r, q \in Known :
        OpenVeto(r) /\ OpenVeto(q) /\ ratificationOf[r] = ratificationOf[q] => r = q

OperationsFollow ==
    \A i \in Known :
        /\ Executable(proposals[i]) /\ proposals[i].executed =>
              proposals[i].queued /\ ~proposals[i].canceled
        /\ operations[i].status = "done" <=> Executable(proposals[i]) /\ proposals[i].executed
        /\ operations[i].status = "pending" <=>
              /\ Executable(proposals[i]) /\ proposals[i].queued
              /\ ~proposals[i].canceled /\ ~proposals[i].executed
        /\ operations[i].status = "pending" =>
              proposals[i].voteEnd + proposals[i].executionDelay <= operations[i].readyAt

IInv ==
    /\ TypeOK /\ SettingsSafe /\ ProposalsSafe /\ FreshIds /\ RatificationsTyped
    /\ QueuedHasPassed /\ OpenVetoes /\ OneOpenVetoEach /\ OperationsFollow

-----------------------------------------------------------------------------
(* Types *)

\* Every payload a proposal carries has a well-typed call.
LEMMA PayloadsTyped ==
    ASSUME NEW payload \in Carried
    PROVE  WellTyped(payload.call)
<1>1. WellTyped(NoCall)
  BY DEF WellTyped, NoCall
<1>2. NoPayload.call = NoCall
  BY DEF NoPayload
<1>3. \A spend, who :
          [NoPayload EXCEPT !.stewardSpend = spend, !.recipients = who].call = NoCall
  BY DEF NoPayload
<1>. QED  BY <1>1, <1>2, <1>3, GovernorInputs DEF Carried

\* _paramsFor() returns parameters for every type.
LEMMA ParamsTyped ==
    ASSUME TypeOK, NEW type \in Types
    PROVE  ParamsOf(type) \in Params
<1>1. settings.Standard \in Params /\ settings.Extended \in Params
  BY DEF TypeOK, Settings
<1>2. {RatificationPeriod, StewardPeriod, StewardDelay, FixedQuorumBps} \subseteq Nat
      /\ SignalingParams \in Params
  BY GovernorInputs
<1>. QED  BY <1>1, <1>2 DEF ParamsOf, Types, Params

\* An unused slot is a proposal record.
LEMMA BlankTyped == Blank \in ProposalRecord
<1>1. NoPayload \in Carried /\ "Standard" \in Types
  BY DEF Carried, Types
<1>2. [v \in Voters |-> 0] \in [Voters -> Nat]
      /\ [v \in Voters |-> "none"] \in [Voters -> {"none", "against", "for", "abstain"}]
  OBVIOUS
<1>. QED  BY <1>1, <1>2 DEF Blank, ProposalRecord

\* _initProposal() makes a proposal record.
LEMMA NewProposalTyped ==
    ASSUME TypeOK, NEW proposer \in Accounts \cup {NoOne}, NEW type \in Types,
           NEW payload \in Carried
    PROVE  NewProposal(proposer, type, payload) \in ProposalRecord
<1>. DEFINE params   == ParamsOf(type)
            excluded == SumOver(holdings, {Treasury} \cup settings.excluded)
            supply   == IF excluded > Supply THEN 0 ELSE Supply - excluded
<1>1. {params.votingDelay, params.votingPeriod, params.executionDelay, params.quorumBps}
          \subseteq Nat
  BY ParamsTyped DEF Params
<1>2. excluded \in Nat
  <2>1. {Treasury} \cup settings.excluded \in SUBSET (Holders \cup {Treasury})
    BY DEF TypeOK, Settings
  <2>2. IsFiniteSet(Holders \cup {Treasury})
    BY GovernorInputs, FS_AddElement
  <2>3. holdings \in [Holders \cup {Treasury} -> Nat]
    BY GovernorInputs DEF TypeOK
  <2>. QED  BY <2>1, <2>2, <2>3, FS_Subset, SumType
<1>3. now \in Nat /\ pastVotes \in [Voters -> Nat] /\ Supply \in Nat
  BY GovernorInputs DEF TypeOK
<1>. HIDE DEF params, excluded
<1>4. supply \in Nat
  BY <1>2, <1>3
<1>. HIDE DEF supply
<1>5. NewProposal(proposer, type, payload) =
        [Blank EXCEPT !.proposer = proposer, !.type = type, !.payload = payload,
              !.voteStart = now + params.votingDelay,
              !.voteEnd = now + params.votingDelay + params.votingPeriod,
              !.executionDelay = params.executionDelay,
              !.snapshotVotes = pastVotes,
              !.snapshotEligibleSupply = supply,
              !.snapshotQuorumBps = params.quorumBps]
  BY DEF NewProposal, params, excluded, supply
<1>. DEFINE from  == now + params.votingDelay
            till  == now + params.votingDelay + params.votingPeriod
            delay == params.executionDelay
            bps   == params.quorumBps
<1>6. from \in Nat /\ till \in Nat /\ delay \in Nat /\ bps \in Nat
  BY <1>1, <1>3
<1>. HIDE DEF from, till, delay, bps
<1>7. pastVotes \in [Voters -> Nat]
  BY <1>3
<1>. DEFINE p1 == [Blank EXCEPT !.proposer = proposer, !.type = type, !.payload = payload]
            p2 == [p1 EXCEPT !.voteStart = from, !.voteEnd = till, !.executionDelay = delay]
            p3 == [p2 EXCEPT !.snapshotVotes = pastVotes, !.snapshotEligibleSupply = supply,
                             !.snapshotQuorumBps = bps]
<1>8. p1 \in ProposalRecord
  BY BlankTyped DEF ProposalRecord
<1>. HIDE DEF p1
<1>9. p2 \in ProposalRecord
  BY <1>6, <1>8 DEF ProposalRecord
<1>. HIDE DEF p2
<1>10. p3 \in ProposalRecord
  BY <1>4, <1>6, <1>7, <1>9 DEF ProposalRecord
<1>. QED  BY <1>5, <1>10, Zenon DEF from, till, delay, bps, p1, p2

\* No call takes the settings out of their type.
LEMMA PerformTyped ==
    ASSUME TypeOK, NEW call, WellTyped(call), Perform(call)
    PROVE  settings' \in Settings
<1>1. settings \in Settings /\ now \in Nat
  BY DEF TypeOK
<1>2. CASE settings' = settings
  BY <1>1, <1>2
<1>3. CASE ChangeSelectors(call)
  BY <1>1, <1>3 DEF ChangeSelectors, WellTyped, Settings
<1>4. CASE ChangeParams(call)
  BY <1>1, <1>4 DEF ChangeParams, AllowedParams, WellTyped, Settings
<1>5. CASE ChangeCouncil(call)
  BY <1>1, <1>5 DEF ChangeCouncil, WellTyped, Settings
<1>6. CASE ChangeSteward(call)
  <2>1. CASE settings' = [settings EXCEPT !.steward = NoOne, !.termStart = 0]
    BY <1>1, <2>1 DEF Settings
  <2>2. CASE /\ call.arg \in Stewards
             /\ settings' = [settings EXCEPT !.steward = call.arg, !.termStart = now]
    BY <1>1, <2>2 DEF Settings
  <2>. QED  BY <1>6, <2>1, <2>2 DEF ChangeSteward, WellTyped
<1>7. CASE ChangeTimelock(call)
  BY <1>1, <1>7 DEF ChangeTimelock, WellTyped, Settings
<1>8. CASE AddExcludedAddress(call)
  BY <1>1, <1>8 DEF AddExcludedAddress, Settings
<1>9. CASE SetWindDownContract(call)
  BY <1>1, <1>9 DEF SetWindDownContract, Settings
<1>10. CASE ActivateWindDown
  BY <1>1, <1>10 DEF ActivateWindDown, Settings
<1>. QED
  BY <1>2, <1>3, <1>4, <1>5, <1>6, <1>7, <1>8, <1>9, <1>10 DEF Perform

\* The type invariant holds at deployment.
LEMMA InitTyped ==
    ASSUME Init
    PROVE  TypeOK
<1>1. /\ now \in Nat /\ finalizedAt \in Nat /\ votes \in [Voters -> Nat] /\ pastVotes = votes
      /\ holdings \in HoldingStates /\ treasury \in TreasuryStates
  BY GovernorInputs DEF Init
<1>2. /\ proposalCount \in 0..MaxProposals
      /\ proposals \in [Ids -> ProposalRecord]
      /\ ratificationOf \in [Ids -> 0..MaxProposals]
      /\ vetoRatificationId \in [Ids -> 0..MaxProposals]
      /\ operations \in [Ids -> [status : {"unset", "pending", "done"}, readyAt : Nat]]
  BY GovernorInputs, BlankTyped DEF Init, Unset
<1>3. settings \in Settings
  BY GovernorInputs DEF Init, Settings
<1>4. deployer \in [present : BOOLEAN, setup : SUBSET {"excluded", "crowdfund", "steward"}]
  BY GovernorInputs DEF Init
<1>. QED  BY <1>1, <1>2, <1>3, <1>4 DEF TypeOK

\* Creating a proposal keeps the types of what it writes.
LEMMA CreateTyped ==
    ASSUME TypeOK, NEW proposer \in Accounts, NEW type \in Types, NEW payload \in Carried,
           Create(proposer, type, payload)
    PROVE  /\ proposalCount' \in 0..MaxProposals
           /\ proposals' \in [Ids -> ProposalRecord]
<1>. DEFINE new == NewProposal(proposer, type, payload)
<1>1. new \in ProposalRecord
  BY NewProposalTyped
<1>2. MaxProposals \in Nat /\ proposalCount \in 0..MaxProposals /\ proposalCount < MaxProposals
  BY GovernorInputs DEF Create, TypeOK
<1>3. /\ proposalCount' = proposalCount + 1
      /\ proposals' = [proposals EXCEPT ![proposalCount + 1] = new]
  BY DEF Create
<1>. HIDE DEF new
<1>4. proposals' \in [Ids -> ProposalRecord]
  BY <1>1, <1>3 DEF TypeOK
<1>. QED  BY <1>2, <1>3, <1>4

\* Scheduling keeps the type of the timelock's operations.
LEMMA ScheduleTyped ==
    ASSUME TypeOK, NEW i \in Ids, NEW delay \in Nat, Schedule(i, delay)
    PROVE  operations' \in [Ids -> [status : {"unset", "pending", "done"}, readyAt : Nat]]
<1>1. now + delay \in Nat
  BY DEF TypeOK
<1>. QED  BY <1>1 DEF Schedule, TypeOK

\* Classification returns a type.
LEMMA ClassifyTyped ==
    ASSUME NEW declared \in Types, NEW payload
    PROVE  Classify(declared, payload) \in Types
  BY DEF Classify, Types

\* propose() keeps the types.
LEMMA ProposeTyped ==
    ASSUME TypeOK, NEW sender \in Voters, NEW declared,
           NEW payload \in Payloads \cup {NoPayload}, Propose(sender, declared, payload)
    PROVE  TypeOK'
<1>1. sender \in Accounts /\ payload \in Carried /\ declared \in Types
  BY DEF Accounts, Carried, Propose, Types
<1>2. (IF declared = "Standard" THEN Classify(declared, payload) ELSE declared) \in Types
  BY <1>1, ClassifyTyped
<1>3. /\ proposalCount' \in 0..MaxProposals
      /\ proposals' \in [Ids -> ProposalRecord]
  BY <1>1, <1>2, CreateTyped DEF Propose
<1>4. UNCHANGED <<now, environment, ratificationOf, vetoRatificationId, operations, settings,
                  deployer>>
  BY DEF Propose
<1>. QED  BY <1>3, <1>4 DEF TypeOK, environment

\* proposeStewardSpend() keeps the types.
LEMMA ProposeStewardSpendTyped ==
    ASSUME TypeOK, NEW sender \in Stewards, NEW payload \in Payloads,
           ProposeStewardSpend(sender, payload.stewardSpend, payload.recipients)
    PROVE  TypeOK'
<1>. DEFINE carried == [NoPayload EXCEPT !.stewardSpend = payload.stewardSpend,
                                         !.recipients = payload.recipients]
<1>1. sender \in Accounts /\ carried \in Carried /\ "Steward" \in Types
  BY DEF Accounts, Carried, Types
<1>2. Create(sender, "Steward", carried)
  BY DEF ProposeStewardSpend
<1>3. /\ proposalCount' \in 0..MaxProposals
      /\ proposals' \in [Ids -> ProposalRecord]
  BY <1>1, <1>2, CreateTyped
<1>. QED  BY <1>3 DEF ProposeStewardSpend, TypeOK, environment

\* The proposals that exist have numbers and are records.
LEMMA KnownIds ==
    ASSUME TypeOK
    PROVE  Known \subseteq Ids /\ \A i \in Known : proposals[i] \in ProposalRecord
<1>1. proposalCount \in 0..MaxProposals /\ MaxProposals \in Nat
  BY GovernorInputs DEF TypeOK
<1>. QED  BY <1>1 DEF TypeOK, Known, Ids

\* castVote() keeps the types: no bucket goes below zero.
LEMMA CastVoteTyped ==
    ASSUME TypeOK, ProposalsSafe, NEW sender \in Voters, NEW i \in Ids,
           NEW support \in Options, CastVote(sender, i, support)
    PROVE  TypeOK'
<1>1. proposals[i] \in ProposalRecord /\ TallyMatches(proposals[i])
  BY KnownIds DEF CastVote, ProposalsSafe
<1>2. Count(proposals[i], sender, support) \in ProposalRecord
  BY <1>1, CountMatches DEF CastVote
<1>3. proposals' \in [Ids -> ProposalRecord]
  BY <1>2 DEF CastVote, TypeOK
<1>. QED  BY <1>3 DEF CastVote, TypeOK, environment

\* Setting a flag keeps a proposal a proposal.
LEMMA FlagsTyped ==
    ASSUME NEW p \in ProposalRecord, NEW b \in BOOLEAN
    PROVE  /\ [p EXCEPT !.executed = b] \in ProposalRecord
           /\ [p EXCEPT !.canceled = b] \in ProposalRecord
           /\ [p EXCEPT !.queued = b] \in ProposalRecord
           /\ [p EXCEPT !.canceled = FALSE, !.vetoRatificationDenied = b] \in ProposalRecord
  BY DEF ProposalRecord

\* queue() keeps the types.
LEMMA QueueTyped ==
    ASSUME TypeOK, NEW i \in Ids, Queue(i)
    PROVE  TypeOK'
<1>1. proposals[i] \in ProposalRecord
  BY DEF TypeOK
<1>2. proposals' = [proposals EXCEPT ![i] = [proposals[i] EXCEPT !.queued = TRUE]]
  BY DEF Queue
<1>3. [proposals[i] EXCEPT !.queued = TRUE] \in ProposalRecord
  BY <1>1, FlagsTyped
<1>4. proposals' \in [Ids -> ProposalRecord]
  BY <1>2, <1>3 DEF TypeOK
<1>5. proposals[i].executionDelay \in Nat /\ settings.minDelay \in Nat
  BY <1>1 DEF ProposalRecord, TypeOK, Settings
<1>6. Larger(settings.minDelay, proposals[i].executionDelay) \in Nat
  BY <1>5 DEF Larger
<1>7. operations' \in [Ids -> [status : {"unset", "pending", "done"}, readyAt : Nat]]
  BY <1>6, ScheduleTyped DEF Queue
<1>. QED  BY <1>4, <1>7 DEF Queue, TypeOK, environment

\* execute() keeps the types.
LEMMA ExecuteTyped ==
    ASSUME TypeOK, NEW i \in Ids, Execute(i)
    PROVE  TypeOK'
<1>1. proposals[i] \in ProposalRecord
  BY DEF TypeOK
<1>2. [proposals[i] EXCEPT !.executed = TRUE] \in ProposalRecord
  BY <1>1, FlagsTyped
<1>3. proposals' = [proposals EXCEPT ![i] = [proposals[i] EXCEPT !.executed = TRUE]]
  BY DEF Execute
<1>4. proposals' \in [Ids -> ProposalRecord]
  BY <1>2, <1>3 DEF TypeOK
<1>5. operations' \in [Ids -> [status : {"unset", "pending", "done"}, readyAt : Nat]]
  BY DEF Execute, ExecuteOperation, TypeOK
<1>6. WellTyped(proposals[i].payload.call)
  BY <1>1, PayloadsTyped DEF ProposalRecord
<1>7. Perform(proposals[i].payload.call)
  BY DEF Execute
<1>8. settings' \in Settings
  BY <1>6, <1>7, PerformTyped
<1>. QED  BY <1>4, <1>5, <1>8 DEF Execute, TypeOK, environment

\* cancel() keeps the types.
LEMMA CancelTyped ==
    ASSUME TypeOK, NEW sender, NEW i \in Ids, Cancel(sender, i)
    PROVE  TypeOK'
<1>1. [proposals[i] EXCEPT !.canceled = TRUE] \in ProposalRecord
  BY FlagsTyped DEF TypeOK
<1>2. proposals' = [proposals EXCEPT ![i] = [proposals[i] EXCEPT !.canceled = TRUE]]
  BY DEF Cancel
<1>3. proposals' \in [Ids -> ProposalRecord]
  BY <1>1, <1>2 DEF TypeOK
<1>. QED  BY <1>3 DEF Cancel, TypeOK, environment

\* veto() keeps the types.
LEMMA VetoTyped ==
    ASSUME TypeOK, NEW sc \in Councils, NEW i \in Ids, Veto(sc, i)
    PROVE  TypeOK'
<1>. DEFINE ratId == proposalCount + 1
            rat   == NewProposal(sc, "VetoRatification", NoPayload)
            p     == [proposals[i] EXCEPT !.canceled = TRUE]
<1>1. proposalCount \in Nat /\ MaxProposals \in Nat /\ proposalCount < MaxProposals
  BY GovernorInputs DEF TypeOK, Veto
<1>2. ratId \in Ids /\ ratId \in 0..MaxProposals /\ i \in 0..MaxProposals
  BY <1>1 DEF Ids
<1>3. rat \in ProposalRecord
  <2>1. sc \in Accounts /\ NoPayload \in Carried /\ "VetoRatification" \in Types
    BY DEF Accounts, Carried, Types
  <2>. QED  BY <2>1, NewProposalTyped
<1>4. p \in ProposalRecord
  BY FlagsTyped DEF TypeOK
<1>5. /\ proposalCount' = ratId
      /\ proposals' = [proposals EXCEPT ![i].canceled = TRUE, ![ratId] = rat]
      /\ ratificationOf' = [ratificationOf EXCEPT ![ratId] = i]
      /\ vetoRatificationId' = [vetoRatificationId EXCEPT ![i] = ratId]
      /\ UNCHANGED <<now, environment, settings, deployer>>
  BY DEF Veto
<1>6. operations' \in [Ids -> [status : {"unset", "pending", "done"}, readyAt : Nat]]
  BY DEF Veto, CancelOperation, Unset, TypeOK
<1>. HIDE DEF ratId, rat
<1>7. proposals' = [[proposals EXCEPT ![i] = p] EXCEPT ![ratId] = rat]
  BY <1>5, <1>2 DEF TypeOK
<1>. HIDE DEF p
<1>8. proposals' \in [Ids -> ProposalRecord]
  BY <1>2, <1>3, <1>4, <1>7 DEF TypeOK
<1>9. /\ ratificationOf' \in [Ids -> 0..MaxProposals]
      /\ vetoRatificationId' \in [Ids -> 0..MaxProposals]
  BY <1>2, <1>5 DEF TypeOK
<1>. QED  BY <1>2, <1>5, <1>6, <1>8, <1>9 DEF TypeOK, environment

\* resolveRatification() keeps the types.
LEMMA ResolveRatificationTyped ==
    ASSUME TypeOK, RatificationsTyped, NEW r \in Ids, ResolveRatification(r)
    PROVE  TypeOK'
<1>. DEFINE vetoed == ratificationOf[r]
            rat    == [proposals[r] EXCEPT !.executed = TRUE]
<1>1. r \in Known /\ ratificationOf[r] # 0
  BY DEF ResolveRatification
<1>2. vetoed \in Known /\ vetoed \in Ids
  BY <1>1, KnownIds DEF RatificationsTyped
<1>3. rat \in ProposalRecord
  BY FlagsTyped DEF TypeOK
<1>4. UNCHANGED <<now, environment, proposalCount, ratificationOf, vetoRatificationId, deployer>>
  BY DEF ResolveRatification
<1>5. CASE UpholdVeto(r)
  <2>1. proposals' = [proposals EXCEPT ![r] = rat]
    BY <1>5 DEF UpholdVeto
  <2>2. proposals' \in [Ids -> ProposalRecord]
    BY <1>3, <2>1 DEF TypeOK
  <2>. QED  BY <1>4, <1>5, <2>2 DEF UpholdVeto, TypeOK, environment
<1>6. CASE DenyVeto(r)
  <2>1. proposals' = [proposals EXCEPT ![r].executed = TRUE, ![vetoed].canceled = FALSE,
                                       ![vetoed].vetoRatificationDenied = TRUE]
    BY <1>6 DEF DenyVeto
  <2>. DEFINE mid == [proposals EXCEPT ![r] = rat]
              old == [mid[vetoed] EXCEPT !.canceled = FALSE, !.vetoRatificationDenied = TRUE]
  <2>2. mid \in [Ids -> ProposalRecord]
    BY <1>3 DEF TypeOK
  <2>3. old \in ProposalRecord
    BY <1>2, <2>2, FlagsTyped
  <2>4. proposals' = [mid EXCEPT ![vetoed] = old]
    BY <1>2, <2>1, <2>2 DEF TypeOK
  <2>. HIDE DEF mid, old, rat
  <2>5. proposals' \in [Ids -> ProposalRecord]
    BY <2>2, <2>3, <2>4
  <2>6. settings' \in Settings
    BY <1>6 DEF DenyVeto, Eject, TypeOK, Settings
  <2>7. settings.minDelay \in Nat
    BY DEF TypeOK, Settings
  <2>8. operations' \in [Ids -> [status : {"unset", "pending", "done"}, readyAt : Nat]]
    BY <1>2, <1>6, <2>7, ScheduleTyped DEF DenyVeto
  <2>. QED  BY <1>4, <2>5, <2>6, <2>8 DEF TypeOK, environment
<1>. QED  BY <1>5, <1>6 DEF ResolveRatification

(***************************************************************************)
(* Steps of the deployer, of the wind-down contract and of the world: they *)
(* leave every proposal and every operation alone.                         *)
(***************************************************************************)
Outside ==
    Bootstrapping \/ SetWindDownActive \/ TokensMove \/ CrowdfundFinalizes \/ Mine

\* The deployer, the wind-down, tokens and time keep the types.
LEMMA OutsideTyped ==
    ASSUME TypeOK, Outside
    PROVE  TypeOK'
<1>1. settings \in Settings /\ now \in Nat
  BY DEF TypeOK
<1>2. CASE Bootstrapping
  <2>1. ASSUME NEW addrs \in SUBSET Holders, SetExcludedAddresses(addrs)
        PROVE  TypeOK'
    BY <2>1 DEF SetExcludedAddresses, TypeOK, Settings, environment, proposalVars
  <2>2. ASSUME NEW contract \in {"crowdfund", "steward"}, Register(contract)
        PROVE  TypeOK'
    BY <2>2 DEF Register, TypeOK, environment, proposalVars
  <2>3. ASSUME NEW sc \in Councils \cup {NoOne}, BootstrapCouncil(sc)
        PROVE  TypeOK'
    BY <2>3 DEF BootstrapCouncil, TypeOK, Settings, environment, proposalVars
  <2>4. CASE ClearDeployer
    BY <2>4 DEF ClearDeployer, TypeOK, environment, proposalVars
  <2>. QED  BY <1>2, <2>1, <2>2, <2>3, <2>4 DEF Bootstrapping
<1>3. CASE SetWindDownActive
  BY <1>3 DEF SetWindDownActive, ActivateWindDown, TypeOK, Settings, environment, proposalVars
<1>4. CASE TokensMove
  BY <1>4, GovernorInputs DEF TokensMove, TypeOK, proposalVars
<1>5. CASE CrowdfundFinalizes
  BY <1>5 DEF CrowdfundFinalizes, TypeOK, proposalVars
<1>6. CASE Mine
  BY <1>6 DEF Mine, TypeOK, proposalVars
<1>. QED  BY <1>2, <1>3, <1>4, <1>5, <1>6, Zenon DEF Outside

-----------------------------------------------------------------------------
(* What state() tells, and what the flags of a proposal leave alone *)

\* What a proposal's state() says about its fields.
LEMMA StateFacts ==
    ASSUME TypeOK, NEW i \in Known
    PROVE  /\ State(i) \in {"Succeeded", "Queued"} =>
                /\ ~proposals[i].canceled /\ ~proposals[i].executed
                /\ proposals[i].voteEnd < now /\ ~VotedDown(proposals[i])
           /\ State(i) = "Succeeded" /\ Executable(proposals[i]) => ~proposals[i].queued
           /\ State(i) = "Queued" => Executable(proposals[i]) /\ proposals[i].queued
           /\ State(i) = "Pending" => now < proposals[i].voteStart
           /\ State(i) = "Active" => now <= proposals[i].voteEnd
           /\ State(i) \in {"Pending", "Active"} => ~proposals[i].executed
<1>1. /\ proposals[i].voteStart \in Nat /\ proposals[i].voteEnd \in Nat /\ now \in Nat
      /\ proposals[i].type \in Types
  BY KnownIds DEF ProposalRecord, TypeOK
<1>. QED  BY <1>1 DEF State, Executable, Types

\* What the fields of a proposal say about its state().
LEMMA QueuedState ==
    ASSUME TypeOK, NEW i \in Known, ~proposals[i].canceled,
           proposals[i].voteStart <= proposals[i].voteEnd
    PROVE  /\ proposals[i].executed => State(i) = "Executed"
           /\ /\ ~proposals[i].executed /\ proposals[i].queued /\ Executable(proposals[i])
              /\ proposals[i].voteEnd < now /\ ~VotedDown(proposals[i])
              => State(i) = "Queued"
<1>1. proposals[i].voteStart \in Nat /\ proposals[i].voteEnd \in Nat /\ now \in Nat
  BY KnownIds DEF ProposalRecord, TypeOK
<1>. QED  BY <1>1 DEF State, Executable

\* All fields but the four flags.
SamePromise(q, p) ==
    /\ q.proposer = p.proposer /\ q.type = p.type /\ q.payload = p.payload
    /\ q.voteStart = p.voteStart /\ q.voteEnd = p.voteEnd
    /\ q.executionDelay = p.executionDelay
    /\ q.snapshotVotes = p.snapshotVotes
    /\ q.snapshotEligibleSupply = p.snapshotEligibleSupply
    /\ q.snapshotQuorumBps = p.snapshotQuorumBps
    /\ q.choice = p.choice /\ q.tally = p.tally

\* A proposal that differs in its flags only has the same vote.
LEMMA SamePromiseFacts ==
    ASSUME NEW p, NEW q, SamePromise(q, p)
    PROVE  /\ VotedDown(q) <=> VotedDown(p)
           /\ TallyMatches(q) <=> TallyMatches(p)
           /\ Executable(q) <=> Executable(p)
<1>1. QuorumReached(q) <=> QuorumReached(p)
  BY DEF SamePromise, QuorumReached, Quorum
<1>2. PassesByDefault(q) <=> PassesByDefault(p)
  BY DEF SamePromise, PassesByDefault
<1>3. VotedDown(q) <=> VotedDown(p)
  BY <1>1, <1>2, Zenon DEF VotedDown, SamePromise
<1>4. TallyMatches(q) <=> TallyMatches(p)
  BY DEF SamePromise, TallyMatches, Backers
<1>. QED  BY <1>3, <1>4 DEF SamePromise, Executable

\* Setting a flag changes nothing else.
LEMMA FlagsKeepPromise ==
    ASSUME NEW p \in ProposalRecord, NEW b
    PROVE  /\ SamePromise([p EXCEPT !.executed = b], p)
           /\ SamePromise([p EXCEPT !.canceled = b], p)
           /\ SamePromise([p EXCEPT !.queued = b], p)
           /\ SamePromise([p EXCEPT !.canceled = FALSE, !.vetoRatificationDenied = b], p)
  BY DEF SamePromise, ProposalRecord

\* A proposal makes the same promise as itself.
LEMMA SamePromiseReflexive ==
    ASSUME NEW p
    PROVE  SamePromise(p, p)
  BY DEF SamePromise

(***************************************************************************)
(* What a proposal was created with stays as safe as it was.               *)
(***************************************************************************)
LEMMA PromisesKept ==
    ASSUME ProposalsSafe, UNCHANGED proposalCount,
           \A j \in Known : SamePromise(proposals'[j], proposals[j])
    PROVE  ProposalsSafe'
<1>. SUFFICES ASSUME NEW j \in Known
              PROVE  /\ TallyMatches(proposals'[j])
                     /\ proposals'[j].voteStart <= proposals'[j].voteEnd
                     /\ SafeTimelockCall(proposals'[j].payload.call)
                     /\ Executable(proposals'[j]) =>
                          proposals'[j].executionDelay
                              \in MIN_EXECUTION_DELAY..MAX_EXECUTION_DELAY
                     /\ proposals'[j].type = "Steward" =>
                          /\ proposals'[j].payload.call = NoCall
                          /\ proposals'[j].proposer \notin proposals'[j].payload.recipients
  BY DEF ProposalsSafe, Known, TallyMatches, Backers, Executable, SafeTimelockCall
<1>1. SamePromise(proposals'[j], proposals[j])
  OBVIOUS
<1>2. /\ TallyMatches(proposals'[j]) <=> TallyMatches(proposals[j])
      /\ Executable(proposals'[j]) <=> Executable(proposals[j])
  BY <1>1, SamePromiseFacts
<1>. QED  BY <1>1, <1>2 DEF ProposalsSafe, SamePromise

-----------------------------------------------------------------------------
(* Every step keeps the invariant *)

Safe ==
    /\ SettingsSafe /\ ProposalsSafe /\ FreshIds /\ RatificationsTyped
    /\ QueuedHasPassed /\ OpenVetoes /\ OneOpenVetoEach /\ OperationsFollow

\* The safety part of the invariant holds at deployment.
LEMMA InitSafe ==
    ASSUME Init
    PROVE  Safe
<1>1. Known = {}
  BY DEF Init, Known
<1>2. SettingsSafe
  BY GovernorDelays DEF Init, SettingsSafe
<1>3. FreshIds
  BY DEF Init, FreshIds
<1>. QED
  BY <1>1, <1>2, <1>3, Zenon DEF Safe, ProposalsSafe, RatificationsTyped, QueuedHasPassed,
     OpenVetoes, OneOpenVetoEach, OperationsFollow

\* The outside changes no proposal and no operation, and keeps the settings safe.
LEMMA OutsideEffect ==
    ASSUME TypeOK, SettingsSafe, Outside
    PROVE  UNCHANGED <<proposalVars, operations>> /\ now <= now' /\ SettingsSafe'
<1>1. settings \in Settings /\ now \in Nat
  BY DEF TypeOK
<1>2. CASE Bootstrapping
  <2>1. ASSUME NEW addrs \in SUBSET Holders, SetExcludedAddresses(addrs)
        PROVE  UNCHANGED <<proposalVars, operations>> /\ now <= now' /\ SettingsSafe'
    BY <1>1, <2>1 DEF SetExcludedAddresses, SettingsSafe, Settings
  <2>2. ASSUME NEW contract \in {"crowdfund", "steward"}, Register(contract)
        PROVE  UNCHANGED <<proposalVars, operations>> /\ now <= now' /\ SettingsSafe'
    BY <1>1, <2>2 DEF Register, SettingsSafe
  <2>3. ASSUME NEW sc \in Councils \cup {NoOne}, BootstrapCouncil(sc)
        PROVE  UNCHANGED <<proposalVars, operations>> /\ now <= now' /\ SettingsSafe'
    BY <1>1, <2>3 DEF BootstrapCouncil, SettingsSafe, Settings
  <2>4. CASE ClearDeployer
    BY <1>1, <2>4 DEF ClearDeployer, SettingsSafe
  <2>. QED  BY <1>2, <2>1, <2>2, <2>3, <2>4 DEF Bootstrapping
<1>3. CASE SetWindDownActive
  BY <1>1, <1>3 DEF SetWindDownActive, ActivateWindDown, SettingsSafe, Settings
<1>4. CASE TokensMove
  BY <1>1, <1>4 DEF TokensMove, SettingsSafe
<1>5. CASE CrowdfundFinalizes
  BY <1>1, <1>5 DEF CrowdfundFinalizes, SettingsSafe
<1>6. CASE Mine
  BY <1>1, <1>6 DEF Mine, SettingsSafe
<1>. QED  BY <1>2, <1>3, <1>4, <1>5, <1>6, Zenon DEF Outside

\* Time alone keeps the safety part.
LEMMA StillTimeKeepsSafe ==
    ASSUME TypeOK, TypeOK', Safe, SettingsSafe', now <= now',
           UNCHANGED <<proposalVars, operations>>
    PROVE  Safe'
<1>1. /\ proposalCount' = proposalCount /\ proposals' = proposals
      /\ ratificationOf' = ratificationOf /\ operations' = operations
      /\ Known' = Known
  BY DEF proposalVars, Known
<1>2. ProposalsSafe'
  BY <1>1, SamePromiseReflexive, PromisesKept DEF Safe
<1>3. FreshIds' /\ RatificationsTyped'
  BY <1>1, Zenon DEF Safe, FreshIds, RatificationsTyped
<1>4. OpenVetoes' /\ OneOpenVetoEach'
  BY <1>1, Zenon DEF Safe, OpenVetoes, OneOpenVetoEach, OpenVeto
<1>5. OperationsFollow'
  BY <1>1, Zenon DEF Safe, OperationsFollow, Executable
<1>6. ASSUME NEW j \in Known, proposals'[j].queued
      PROVE  /\ Executable(proposals'[j]) /\ proposals'[j].voteEnd < now'
             /\ ~VotedDown(proposals'[j])
  <2>1. proposals'[j] = proposals[j]
    BY <1>1
  <2>2. Executable(proposals[j]) /\ proposals[j].voteEnd < now /\ ~VotedDown(proposals[j])
    BY <1>6, <2>1 DEF Safe, QueuedHasPassed
  <2>3. proposals[j].voteEnd \in Nat /\ now \in Nat /\ now' \in Nat
    BY KnownIds DEF ProposalRecord, TypeOK
  <2>4. proposals'[j].voteEnd < now'
    BY <2>1, <2>2, <2>3
  <2>. QED  BY <2>1, <2>2, <2>4, Zenon
<1>7. QueuedHasPassed'
  BY <1>1, <1>6 DEF QueuedHasPassed
<1>. QED  BY <1>2, <1>3, <1>4, <1>5, <1>7 DEF Safe

\* Settings that do not change stay safe.
LEMMA SameSettingsSafe ==
    ASSUME SettingsSafe, settings' = settings
    PROVE  SettingsSafe'
  BY DEF SettingsSafe

\* castVote() keeps the safety part.
LEMMA CastVoteSafe ==
    ASSUME TypeOK, TypeOK', Safe, NEW sender \in Voters, NEW i \in Ids, NEW support \in Options,
           CastVote(sender, i, support)
    PROVE  Safe'
<1>. DEFINE p == proposals[i]
            q == proposals'[i]
<1>1. /\ i \in Known /\ now <= p.voteEnd /\ p.choice[sender] # support
      /\ proposals' = [proposals EXCEPT ![i] = Count(p, sender, support)]
      /\ UNCHANGED <<now, proposalCount, ratificationOf, operations, settings>>
  BY DEF CastVote
<1>2. Known' = Known
  BY <1>1 DEF Known
<1>3. p \in ProposalRecord /\ TallyMatches(p) /\ p.voteEnd \in Nat /\ now \in Nat
  BY <1>1, KnownIds DEF Safe, ProposalsSafe, ProposalRecord, TypeOK
<1>4. q = Count(p, sender, support)
  BY <1>1 DEF TypeOK
<1>5. \A j \in Known : j # i => proposals'[j] = proposals[j]
  BY <1>1, KnownIds DEF TypeOK
<1>6. /\ q.proposer = p.proposer /\ q.type = p.type /\ q.payload = p.payload
      /\ q.voteStart = p.voteStart /\ q.voteEnd = p.voteEnd
      /\ q.executionDelay = p.executionDelay
      /\ q.queued = p.queued /\ q.canceled = p.canceled /\ q.executed = p.executed
  BY <1>3, <1>4 DEF Count, ProposalRecord
<1>7. TallyMatches(q)
  BY <1>1, <1>3, <1>4, CountMatches
<1>8. ~p.queued
  BY <1>1, <1>3 DEF Safe, QueuedHasPassed
<1>. HIDE DEF p, q
<1>9. ASSUME NEW j \in Known
      PROVE  /\ TallyMatches(proposals'[j])
             /\ proposals'[j].voteStart <= proposals'[j].voteEnd
             /\ SafeTimelockCall(proposals'[j].payload.call)
             /\ Executable(proposals'[j]) =>
                  proposals'[j].executionDelay \in MIN_EXECUTION_DELAY..MAX_EXECUTION_DELAY
             /\ proposals'[j].type = "Steward" =>
                  /\ proposals'[j].payload.call = NoCall
                  /\ proposals'[j].proposer \notin proposals'[j].payload.recipients
  <2>1. CASE j # i
    BY <1>5, <2>1 DEF Safe, ProposalsSafe
  <2>2. CASE j = i
    BY <1>1, <1>6, <1>7, <2>2 DEF Safe, ProposalsSafe, p, q, Executable
  <2>. QED  BY <2>1, <2>2
<1>10. ProposalsSafe'
  BY <1>2, <1>9, Zenon DEF ProposalsSafe, TallyMatches, Backers, Executable, SafeTimelockCall
<1>11. \A j \in Known : /\ proposals'[j].queued = proposals[j].queued
                        /\ proposals'[j].canceled = proposals[j].canceled
                        /\ proposals'[j].executed = proposals[j].executed
                        /\ proposals'[j].voteEnd = proposals[j].voteEnd
                        /\ proposals'[j].executionDelay = proposals[j].executionDelay
                        /\ proposals'[j].type = proposals[j].type
  BY <1>5, <1>6 DEF p, q
<1>12. QueuedHasPassed'
  BY <1>1, <1>2, <1>5, <1>8, <1>11 DEF Safe, QueuedHasPassed, p
<1>13. FreshIds' /\ RatificationsTyped' /\ OpenVetoes' /\ OneOpenVetoEach' /\ OperationsFollow'
  <2>1. \A j \in Ids \ Known : proposals'[j] = proposals[j]
    BY <1>1 DEF TypeOK
  <2>2. FreshIds'
    BY <1>1, <1>2, <2>1 DEF Safe, FreshIds
  <2>3. RatificationsTyped'
    BY <1>1, <1>2, <1>11 DEF Safe, RatificationsTyped
  <2>4. OpenVetoes'
    BY <1>1, <1>2, <1>11 DEF Safe, RatificationsTyped, OpenVetoes, OpenVeto
  <2>5. OneOpenVetoEach'
    BY <1>1, <1>2, <1>11 DEF Safe, OneOpenVetoEach, OpenVeto
  <2>6. OperationsFollow'
    BY <1>1, <1>2, <1>11 DEF Safe, OperationsFollow, Executable
  <2>. QED  BY <2>2, <2>3, <2>4, <2>5, <2>6
<1>. QED  BY <1>1, <1>10, <1>12, <1>13, SameSettingsSafe DEF Safe

\* The types of the fields the arithmetic below is about.
LEMMA KnownFields ==
    ASSUME TypeOK, NEW j \in Known
    PROVE  /\ proposals[j].voteEnd \in Nat /\ proposals[j].executionDelay \in Nat
           /\ proposals[j].voteStart \in Nat /\ now \in Nat
           /\ proposals[j].type \in Types
           /\ proposals[j].queued \in BOOLEAN /\ proposals[j].canceled \in BOOLEAN
           /\ proposals[j].executed \in BOOLEAN
  BY KnownIds DEF ProposalRecord, TypeOK

\* queue() keeps the safety part: what it queues has passed and waits its delay.
LEMMA QueueSafe ==
    ASSUME TypeOK, TypeOK', Safe, NEW i \in Ids, Queue(i)
    PROVE  Safe'
<1>. DEFINE p     == proposals[i]
            q     == [p EXCEPT !.queued = TRUE]
            delay == Larger(settings.minDelay, p.executionDelay)
<1>1. /\ i \in Known /\ State(i) = "Succeeded"
      /\ p.type \notin {"VetoRatification", "Signaling"}
      /\ proposals' = [proposals EXCEPT ![i] = q]
      /\ operations[i].status = "unset"
      /\ operations' = [operations EXCEPT ![i] = [status |-> "pending", readyAt |-> now + delay]]
      /\ UNCHANGED <<now, proposalCount, ratificationOf, settings>>
  BY DEF Queue, Schedule
<1>2. Known' = Known
  BY <1>1 DEF Known
<1>3. p \in ProposalRecord /\ Executable(p)
  BY <1>1, KnownIds DEF ProposalRecord, Types, Executable
<1>4. ~p.canceled /\ ~p.executed /\ p.voteEnd < now /\ ~VotedDown(p) /\ ~p.queued
  BY <1>1, <1>3, StateFacts
<1>5. SamePromise(q, p) /\ q.queued /\ ~q.canceled /\ ~q.executed
  BY <1>3, <1>4, FlagsKeepPromise DEF ProposalRecord
<1>6. now + delay >= p.voteEnd + p.executionDelay
  <2>1. settings.minDelay \in Nat
    BY DEF TypeOK, Settings
  <2>. QED  BY <1>1, <1>4, <2>1, KnownFields DEF Larger
<1>. HIDE DEF p, q, delay
<1>7. proposals'[i] = q /\ \A j \in Ids : j # i => proposals'[j] = proposals[j]
  BY <1>1 DEF TypeOK
<1>8. /\ operations'[i] = [status |-> "pending", readyAt |-> now + delay]
      /\ \A j \in Ids : j # i => operations'[j] = operations[j]
  BY <1>1 DEF TypeOK
<1>9. \A j \in Known : SamePromise(proposals'[j], proposals[j])
  BY <1>5, <1>7, KnownIds, SamePromiseReflexive DEF p
<1>10. SettingsSafe'
  BY <1>1, SameSettingsSafe DEF Safe
<1>11. ProposalsSafe'
  BY <1>1, <1>9, PromisesKept DEF Safe
<1>12. FreshIds'
  BY <1>1, <1>2, <1>7, <1>8 DEF Safe, FreshIds
<1>13. RatificationsTyped'
  BY <1>1, <1>2, <1>9 DEF Safe, RatificationsTyped, SamePromise
<1>14. QueuedHasPassed'
  <2>1. ASSUME NEW j \in Known, proposals'[j].queued
        PROVE  /\ Executable(proposals'[j]) /\ proposals'[j].voteEnd < now
               /\ ~VotedDown(proposals'[j])
    <3>1. CASE j = i
      BY <1>3, <1>4, <1>5, <1>7, <3>1, SamePromiseFacts DEF SamePromise, p
    <3>2. CASE j # i
      BY <1>7, <2>1, <3>2, KnownIds DEF Safe, QueuedHasPassed
    <3>. QED  BY <3>1, <3>2
  <2>. QED  BY <1>1, <1>2, <2>1 DEF QueuedHasPassed
<1>15. OpenVetoes'
  <2>1. ASSUME NEW r \in Known, ratificationOf[r] # 0, ~proposals'[r].executed
        PROVE  /\ proposals'[ratificationOf[r]].canceled
               /\ proposals'[ratificationOf[r]].queued
               /\ ~proposals'[ratificationOf[r]].executed
               /\ proposals'[ratificationOf[r]].voteEnd
                    + proposals'[ratificationOf[r]].executionDelay <= proposals'[r].voteEnd
    <3>1. ratificationOf[r] \in Known /\ proposals[r].type = "VetoRatification"
      BY <2>1 DEF Safe, RatificationsTyped
    <3>2. r # i
      BY <1>1, <3>1 DEF p
    <3>3. proposals'[r] = proposals[r]
      BY <1>7, <3>2, KnownIds
    <3>4. OpenVeto(r)
      BY <2>1, <3>3 DEF OpenVeto
    <3>5. ratificationOf[r] # i
      BY <1>4, <3>4 DEF Safe, OpenVetoes, p
    <3>6. proposals'[ratificationOf[r]] = proposals[ratificationOf[r]]
      BY <1>7, <3>1, <3>5, KnownIds
    <3>. QED  BY <3>3, <3>4, <3>6 DEF Safe, OpenVetoes
  <2>. QED  BY <1>1, <1>2, <2>1 DEF OpenVetoes, OpenVeto
<1>16. OneOpenVetoEach'
  <2>1. \A j \in Known : proposals'[j].executed => proposals[j].executed
    BY <1>5, <1>7, KnownIds
  <2>2. \A j \in Known : proposals[j].executed => proposals'[j].executed
    BY <1>4, <1>7, KnownIds DEF p
  <2>. QED  BY <1>1, <1>2, <2>1, <2>2 DEF Safe, OneOpenVetoEach, OpenVeto
<1>17. OperationsFollow'
  <2>1. ASSUME NEW j \in Known
        PROVE  /\ Executable(proposals'[j]) /\ proposals'[j].executed =>
                    proposals'[j].queued /\ ~proposals'[j].canceled
               /\ operations'[j].status = "done" <=>
                    Executable(proposals'[j]) /\ proposals'[j].executed
               /\ operations'[j].status = "pending" <=>
                    /\ Executable(proposals'[j]) /\ proposals'[j].queued
                    /\ ~proposals'[j].canceled /\ ~proposals'[j].executed
               /\ operations'[j].status = "pending" =>
                    proposals'[j].voteEnd + proposals'[j].executionDelay
                        <= operations'[j].readyAt
    <3>1. CASE j = i
      <4>1. Executable(q) /\ q.voteEnd = p.voteEnd /\ q.executionDelay = p.executionDelay
        BY <1>3, <1>5, SamePromiseFacts DEF SamePromise
      <4>. QED  BY <1>5, <1>6, <1>7, <1>8, <3>1, <4>1
    <3>2. CASE j # i
      BY <1>7, <1>8, <3>2, KnownIds DEF Safe, OperationsFollow
    <3>. QED  BY <3>1, <3>2
  <2>. QED  BY <1>2, <2>1 DEF OperationsFollow, Executable
<1>. QED
  BY <1>10, <1>11, <1>12, <1>13, <1>14, <1>15, <1>16, <1>17 DEF Safe

\* cancel() keeps the safety part: what it cancels was never queued.
LEMMA CancelSafe ==
    ASSUME TypeOK, TypeOK', Safe, NEW sender, NEW i \in Ids, Cancel(sender, i)
    PROVE  Safe'
<1>. DEFINE p == proposals[i]
            q == [p EXCEPT !.canceled = TRUE]
<1>1. /\ i \in Known /\ State(i) \in {"Pending", "Active"}
      /\ proposals' = [proposals EXCEPT ![i] = q]
      /\ UNCHANGED <<now, proposalCount, ratificationOf, operations, settings>>
  BY DEF Cancel
<1>2. Known' = Known
  BY <1>1 DEF Known
<1>3. p \in ProposalRecord /\ ~p.executed
  BY <1>1, KnownIds, StateFacts
<1>4. ~p.queued
  <2>1. now <= p.voteEnd
    BY <1>1, StateFacts, KnownFields DEF Safe, ProposalsSafe
  <2>. QED  BY <1>1, <2>1, KnownFields DEF Safe, QueuedHasPassed
<1>5. SamePromise(q, p) /\ q.canceled /\ q.queued = p.queued /\ q.executed = p.executed
  BY <1>3, FlagsKeepPromise DEF ProposalRecord
<1>. HIDE DEF p, q
<1>6. proposals'[i] = q /\ \A j \in Ids : j # i => proposals'[j] = proposals[j]
  BY <1>1 DEF TypeOK
<1>7. ASSUME NEW j \in Known
      PROVE  /\ SamePromise(proposals'[j], proposals[j])
             /\ proposals'[j].queued = proposals[j].queued
             /\ proposals'[j].executed = proposals[j].executed
             /\ proposals[j].canceled => proposals'[j].canceled
             /\ proposals[j].queued => proposals'[j].canceled = proposals[j].canceled
  BY <1>4, <1>5, <1>6, KnownIds, SamePromiseReflexive DEF p
<1>8. SettingsSafe' /\ ProposalsSafe'
  BY <1>1, <1>7, SameSettingsSafe, PromisesKept DEF Safe
<1>9. FreshIds'
  BY <1>1, <1>2, <1>6 DEF Safe, FreshIds
<1>10. RatificationsTyped'
  BY <1>1, <1>2, <1>7 DEF Safe, RatificationsTyped, SamePromise
<1>11. QueuedHasPassed'
  <2>1. ASSUME NEW j \in Known, proposals'[j].queued
        PROVE  /\ Executable(proposals'[j]) /\ proposals'[j].voteEnd < now
               /\ ~VotedDown(proposals'[j])
    <3>1. SamePromise(proposals'[j], proposals[j]) /\ proposals[j].queued
      BY <1>7, <2>1
    <3>. QED  BY <3>1, SamePromiseFacts DEF Safe, QueuedHasPassed, SamePromise
  <2>. QED  BY <1>1, <1>2, <2>1 DEF QueuedHasPassed
<1>12. OpenVetoes'
  <2>1. ASSUME NEW r \in Known, ratificationOf[r] # 0, ~proposals'[r].executed
        PROVE  /\ proposals'[ratificationOf[r]].canceled
               /\ proposals'[ratificationOf[r]].queued
               /\ ~proposals'[ratificationOf[r]].executed
               /\ proposals'[ratificationOf[r]].voteEnd
                    + proposals'[ratificationOf[r]].executionDelay <= proposals'[r].voteEnd
    <3>1. ratificationOf[r] \in Known /\ OpenVeto(r)
      BY <1>7, <2>1 DEF Safe, RatificationsTyped, OpenVeto
    <3>. QED  BY <1>7, <3>1 DEF Safe, OpenVetoes, SamePromise
  <2>. QED  BY <1>1, <1>2, <2>1 DEF OpenVetoes, OpenVeto
<1>13. OneOpenVetoEach'
  BY <1>1, <1>2, <1>7 DEF Safe, OneOpenVetoEach, OpenVeto
<1>14. OperationsFollow'
  <2>1. ASSUME NEW j \in Known
        PROVE  /\ Executable(proposals'[j]) /\ proposals'[j].executed =>
                    proposals'[j].queued /\ ~proposals'[j].canceled
               /\ operations[j].status = "done" <=>
                    Executable(proposals'[j]) /\ proposals'[j].executed
               /\ operations[j].status = "pending" <=>
                    /\ Executable(proposals'[j]) /\ proposals'[j].queued
                    /\ ~proposals'[j].canceled /\ ~proposals'[j].executed
               /\ operations[j].status = "pending" =>
                    proposals'[j].voteEnd + proposals'[j].executionDelay
                        <= operations[j].readyAt
    <3>1. Executable(proposals'[j]) <=> Executable(proposals[j])
      BY <1>7, SamePromiseFacts
    <3>. QED  BY <1>7, <3>1 DEF Safe, OperationsFollow, SamePromise
  <2>. QED  BY <1>1, <1>2, <2>1 DEF OperationsFollow, Executable
<1>. QED
  BY <1>8, <1>9, <1>10, <1>11, <1>12, <1>13, <1>14 DEF Safe

\* No validated call makes the settings unsafe.
LEMMA PerformSafe ==
    ASSUME TypeOK, SettingsSafe, NEW call, SafeTimelockCall(call), WellTyped(call),
           Perform(call)
    PROVE  SettingsSafe'
<1>1. settings \in Settings
  BY DEF TypeOK
<1>2. CASE settings' = settings
  BY <1>2, SameSettingsSafe
<1>3. CASE ChangeSelectors(call)
  BY <1>1, <1>3 DEF ChangeSelectors, SettingsSafe, Settings
<1>4. CASE ChangeParams(call)
  <2>1. CASE call.type = "Standard"
    BY <1>1, <1>4, <2>1 DEF ChangeParams, AllowedParams, SettingsSafe, Settings
  <2>2. CASE call.type = "Extended"
    BY <1>1, <1>4, <2>2 DEF ChangeParams, AllowedParams, SettingsSafe, Settings
  <2>. QED  BY <1>4, <2>1, <2>2 DEF ChangeParams, AllowedParams
<1>5. CASE ChangeCouncil(call)
  BY <1>1, <1>5 DEF ChangeCouncil, SettingsSafe, Settings
<1>6. CASE ChangeSteward(call)
  BY <1>1, <1>6 DEF ChangeSteward, SettingsSafe, Settings
<1>7. CASE ChangeTimelock(call)
  <2>1. CASE call.kind = "updateDelay" /\ settings' = [settings EXCEPT !.minDelay = call.arg]
    BY <1>1, <2>1 DEF SafeTimelockCall, SettingsSafe, Settings
  <2>2. CASE /\ call.kind = "revokeRole"
             /\ settings' = [settings EXCEPT !.roles = @ \ {call.arg}]
    BY <1>1, <2>2 DEF SafeTimelockCall, SettingsSafe, Settings
  <2>3. call.kind # "renounceRole"
    BY <1>7 DEF ChangeTimelock, SafeTimelockCall
  <2>. QED  BY <1>7, <2>1, <2>2, <2>3 DEF ChangeTimelock
<1>8. CASE AddExcludedAddress(call)
  BY <1>1, <1>8 DEF AddExcludedAddress, SettingsSafe, Settings
<1>9. CASE SetWindDownContract(call)
  BY <1>1, <1>9 DEF SetWindDownContract, SettingsSafe, Settings
<1>10. CASE ActivateWindDown
  BY <1>1, <1>10 DEF ActivateWindDown, SettingsSafe, Settings
<1>. QED
  BY <1>2, <1>3, <1>4, <1>5, <1>6, <1>7, <1>8, <1>9, <1>10 DEF Perform

\* execute() keeps the safety part.
LEMMA ExecuteSafe ==
    ASSUME TypeOK, TypeOK', Safe, NEW i \in Ids, Execute(i)
    PROVE  Safe'
<1>. DEFINE p == proposals[i]
            q == [p EXCEPT !.executed = TRUE]
<1>1. /\ i \in Known /\ State(i) = "Queued"
      /\ proposals' = [proposals EXCEPT ![i] = q]
      /\ operations[i].status = "pending"
      /\ operations' = [operations EXCEPT ![i].status = "done"]
      /\ Perform(p.payload.call)
      /\ UNCHANGED <<now, proposalCount, ratificationOf>>
  BY DEF Execute, ExecuteOperation
<1>2. Known' = Known
  BY <1>1 DEF Known
<1>3. p \in ProposalRecord /\ Executable(p) /\ p.queued /\ ~p.canceled /\ ~p.executed
  BY <1>1, KnownIds, StateFacts
<1>4. SamePromise(q, p) /\ q.canceled = p.canceled /\ q.queued = p.queued /\ q.executed
  BY <1>3, FlagsKeepPromise DEF ProposalRecord
<1>5. SettingsSafe'
  <2>1. WellTyped(p.payload.call)
    BY <1>3, PayloadsTyped DEF ProposalRecord
  <2>2. SafeTimelockCall(p.payload.call)
    BY <1>1 DEF Safe, ProposalsSafe
  <2>. QED  BY <1>1, <2>1, <2>2, PerformSafe DEF Safe
<1>. HIDE DEF p, q
<1>6. proposals'[i] = q /\ \A j \in Ids : j # i => proposals'[j] = proposals[j]
  BY <1>1 DEF TypeOK
<1>7. operations'[i].status = "done" /\ \A j \in Ids : j # i => operations'[j] = operations[j]
  BY <1>1 DEF TypeOK
<1>8. ASSUME NEW j \in Known
      PROVE  /\ SamePromise(proposals'[j], proposals[j])
             /\ proposals'[j].queued = proposals[j].queued
             /\ proposals'[j].canceled = proposals[j].canceled
             /\ j # i => proposals'[j].executed = proposals[j].executed
  BY <1>4, <1>6, KnownIds, SamePromiseReflexive DEF p
<1>9. ProposalsSafe'
  BY <1>1, <1>8, PromisesKept DEF Safe
<1>10. FreshIds'
  BY <1>1, <1>2, <1>6, <1>7 DEF Safe, FreshIds
<1>11. RatificationsTyped'
  BY <1>1, <1>2, <1>8 DEF Safe, RatificationsTyped, SamePromise
<1>12. QueuedHasPassed'
  <2>1. ASSUME NEW j \in Known, proposals'[j].queued
        PROVE  /\ Executable(proposals'[j]) /\ proposals'[j].voteEnd < now
               /\ ~VotedDown(proposals'[j])
    <3>1. SamePromise(proposals'[j], proposals[j]) /\ proposals[j].queued
      BY <1>8, <2>1
    <3>. QED  BY <3>1, SamePromiseFacts DEF Safe, QueuedHasPassed, SamePromise
  <2>. QED  BY <1>1, <1>2, <2>1 DEF QueuedHasPassed
<1>13. ASSUME NEW r \in Known, ratificationOf[r] # 0
       PROVE  r # i
  BY <1>3, <1>13 DEF Safe, RatificationsTyped, Executable, p
<1>14. OpenVetoes'
  <2>1. ASSUME NEW r \in Known, ratificationOf[r] # 0, ~proposals'[r].executed
        PROVE  /\ proposals'[ratificationOf[r]].canceled
               /\ proposals'[ratificationOf[r]].queued
               /\ ~proposals'[ratificationOf[r]].executed
               /\ proposals'[ratificationOf[r]].voteEnd
                    + proposals'[ratificationOf[r]].executionDelay <= proposals'[r].voteEnd
    <3>1. ratificationOf[r] \in Known /\ OpenVeto(r)
      BY <1>8, <1>13, <2>1 DEF Safe, RatificationsTyped, OpenVeto
    <3>2. ratificationOf[r] # i
      BY <1>3, <3>1 DEF Safe, OpenVetoes, p
    <3>. QED  BY <1>8, <3>1, <3>2 DEF Safe, OpenVetoes, SamePromise
  <2>. QED  BY <1>1, <1>2, <2>1 DEF OpenVetoes, OpenVeto
<1>15. OneOpenVetoEach'
  BY <1>1, <1>2, <1>8, <1>13 DEF Safe, OneOpenVetoEach, OpenVeto
<1>16. OperationsFollow'
  <2>1. ASSUME NEW j \in Known
        PROVE  /\ Executable(proposals'[j]) /\ proposals'[j].executed =>
                    proposals'[j].queued /\ ~proposals'[j].canceled
               /\ operations'[j].status = "done" <=>
                    Executable(proposals'[j]) /\ proposals'[j].executed
               /\ operations'[j].status = "pending" <=>
                    /\ Executable(proposals'[j]) /\ proposals'[j].queued
                    /\ ~proposals'[j].canceled /\ ~proposals'[j].executed
               /\ operations'[j].status = "pending" =>
                    proposals'[j].voteEnd + proposals'[j].executionDelay
                        <= operations'[j].readyAt
    <3>1. CASE j = i
      BY <1>3, <1>4, <1>6, <1>7, <3>1, SamePromiseFacts
    <3>2. CASE j # i
      BY <1>6, <1>7, <3>2, KnownIds DEF Safe, OperationsFollow
    <3>. QED  BY <3>1, <3>2
  <2>. QED  BY <1>2, <2>1 DEF OperationsFollow, Executable
<1>. QED
  BY <1>5, <1>9, <1>10, <1>11, <1>12, <1>14, <1>15, <1>16 DEF Safe

\* What _initProposal() puts into a proposal.
LEMMA NewProposalFields ==
    ASSUME NEW proposer, NEW type, NEW payload
    PROVE  /\ NewProposal(proposer, type, payload).proposer = proposer
           /\ NewProposal(proposer, type, payload).type = type
           /\ NewProposal(proposer, type, payload).payload = payload
           /\ ~NewProposal(proposer, type, payload).executed
           /\ ~NewProposal(proposer, type, payload).canceled
           /\ ~NewProposal(proposer, type, payload).queued
           /\ NewProposal(proposer, type, payload).voteStart = now + ParamsOf(type).votingDelay
           /\ NewProposal(proposer, type, payload).voteEnd =
                now + ParamsOf(type).votingDelay + ParamsOf(type).votingPeriod
           /\ NewProposal(proposer, type, payload).executionDelay =
                ParamsOf(type).executionDelay
           /\ NewProposal(proposer, type, payload).choice = [v \in Voters |-> "none"]
           /\ NewProposal(proposer, type, payload).tally = [c \in Options |-> 0]
  BY DEF NewProposal, Blank, Options

\* A new proposal has empty buckets and no backers.
LEMMA NewProposalMatches ==
    ASSUME NEW proposer, NEW type, NEW payload
    PROVE  TallyMatches(NewProposal(proposer, type, payload))
<1>. SUFFICES ASSUME NEW q, q = NewProposal(proposer, type, payload), NEW c \in Options
              PROVE  q.tally[c] = SumOver(q.snapshotVotes, Backers(q, c))
  BY DEF TallyMatches
<1>1. q.choice = [v \in Voters |-> "none"] /\ q.tally = [d \in Options |-> 0]
  BY NewProposalFields
<1>2. Backers(q, c) = {}
  BY <1>1 DEF Backers, Options
<1>. QED  BY <1>1, <1>2, SumOfNone

\* A new proposal has its delays from the parameters of its type.
LEMMA NewProposalSafe ==
    ASSUME TypeOK, SettingsSafe, NEW proposer, NEW type \in Types, NEW payload,
           NEW q, q = NewProposal(proposer, type, payload)
    PROVE  /\ q.voteStart <= q.voteEnd
           /\ Executable(q) => q.executionDelay \in MIN_EXECUTION_DELAY..MAX_EXECUTION_DELAY
           /\ q.type = "VetoRatification" => q.voteEnd = now + RatificationPeriod
<1>1. ParamsOf(type) \in Params /\ now \in Nat
  BY ParamsTyped DEF TypeOK
<1>2. /\ ParamsOf(type).votingDelay \in Nat /\ ParamsOf(type).votingPeriod \in Nat
      /\ RatificationPeriod \in Nat
  BY <1>1, GovernorInputs DEF Params
<1>3. q.voteStart <= q.voteEnd
  BY <1>1, <1>2, NewProposalFields
<1>4. ASSUME Executable(q)
      PROVE  q.executionDelay \in MIN_EXECUTION_DELAY..MAX_EXECUTION_DELAY
  <2>1. /\ type \in {"Standard", "Extended", "Steward"}
        /\ q.executionDelay = ParamsOf(type).executionDelay
    BY <1>4, NewProposalFields DEF Executable
  <2>2. CASE type = "Steward"
    BY <2>1, <2>2, GovernorDelays DEF ParamsOf
  <2>3. CASE type = "Standard"
    BY <2>1, <2>3 DEF ParamsOf, SettingsSafe
  <2>4. CASE type = "Extended"
    BY <2>1, <2>4 DEF ParamsOf, SettingsSafe
  <2>. QED  BY <2>1, <2>2, <2>3, <2>4
<1>5. ASSUME q.type = "VetoRatification"
      PROVE  q.voteEnd = now + RatificationPeriod
  <2>1. type = "VetoRatification"
    BY <1>5, NewProposalFields
  <2>2. ParamsOf(type).votingDelay = 0 /\ ParamsOf(type).votingPeriod = RatificationPeriod
    BY <2>1 DEF ParamsOf
  <2>. QED  BY <1>1, <1>2, <2>2, NewProposalFields
<1>. QED  BY <1>3, <1>4, <1>5

(***************************************************************************)
(* A proposal made by a voter or by the steward keeps the invariant.       *)
(***************************************************************************)
LEMMA CreateSafe ==
    ASSUME TypeOK, TypeOK', Safe, NEW proposer, NEW type \in Types, NEW payload,
           type # "VetoRatification", SafeTimelockCall(payload.call),
           type = "Steward" => payload.call = NoCall /\ proposer \notin payload.recipients,
           Create(proposer, type, payload),
           UNCHANGED <<now, ratificationOf, operations, settings>>
    PROVE  Safe'
<1>. DEFINE id == proposalCount + 1
            q  == NewProposal(proposer, type, payload)
<1>1. /\ proposalCount' = id /\ proposalCount < MaxProposals
      /\ proposals' = [proposals EXCEPT ![id] = q]
  BY DEF Create
<1>2. proposalCount \in Nat /\ MaxProposals \in Nat
  BY GovernorInputs DEF TypeOK
<1>3. id \in Ids /\ id \notin Known /\ Known' = Known \cup {id}
  BY <1>1, <1>2 DEF Ids, Known
<1>4. /\ q.type = type /\ ~q.executed /\ ~q.canceled /\ ~q.queued
      /\ q.payload = payload /\ q.proposer = proposer /\ TallyMatches(q)
  BY NewProposalFields, NewProposalMatches
<1>5. /\ q.voteStart <= q.voteEnd
      /\ Executable(q) => q.executionDelay \in MIN_EXECUTION_DELAY..MAX_EXECUTION_DELAY
  BY NewProposalSafe DEF Safe
<1>. HIDE DEF id, q
<1>6. proposals'[id] = q /\ \A j \in Ids : j # id => proposals'[j] = proposals[j]
  BY <1>1, <1>3 DEF TypeOK
<1>7. \A j \in Known : proposals'[j] = proposals[j]
  BY <1>3, <1>6, KnownIds
<1>8. SettingsSafe'
  BY SameSettingsSafe DEF Safe
<1>9. ProposalsSafe'
  <2>1. ASSUME NEW j \in Known'
        PROVE  /\ TallyMatches(proposals'[j])
               /\ proposals'[j].voteStart <= proposals'[j].voteEnd
               /\ SafeTimelockCall(proposals'[j].payload.call)
               /\ Executable(proposals'[j]) =>
                    proposals'[j].executionDelay \in MIN_EXECUTION_DELAY..MAX_EXECUTION_DELAY
               /\ proposals'[j].type = "Steward" =>
                    /\ proposals'[j].payload.call = NoCall
                    /\ proposals'[j].proposer \notin proposals'[j].payload.recipients
    <3>1. CASE j = id
      BY <1>4, <1>5, <1>6, <3>1
    <3>2. CASE j \in Known
      BY <1>7, <3>2 DEF Safe, ProposalsSafe
    <3>. QED  BY <1>3, <3>1, <3>2
  <2>. QED  BY <2>1, Zenon DEF ProposalsSafe, TallyMatches, Backers, Executable, SafeTimelockCall
<1>10. ratificationOf[id] = 0 /\ operations[id] = Unset
  BY <1>3 DEF Safe, FreshIds
<1>11. FreshIds'
  BY <1>3, <1>6 DEF Safe, FreshIds
<1>12. RatificationsTyped'
  <2>1. ASSUME NEW r \in Known'
        PROVE  /\ ratificationOf[r] # 0 <=> proposals'[r].type = "VetoRatification"
               /\ ratificationOf[r] # 0 => ratificationOf[r] \in Known
    BY <1>3, <1>4, <1>6, <1>7, <1>10 DEF Safe, RatificationsTyped
  <2>. QED  BY <1>3, <2>1 DEF RatificationsTyped
<1>13. QueuedHasPassed'
  <2>1. ASSUME NEW j \in Known', proposals'[j].queued
        PROVE  j \in Known
    BY <1>3, <1>4, <1>6, <2>1
  <2>2. ASSUME NEW j \in Known, proposals'[j].queued
        PROVE  /\ Executable(proposals'[j]) /\ proposals'[j].voteEnd < now
               /\ ~VotedDown(proposals'[j])
    BY <1>7, <2>2 DEF Safe, QueuedHasPassed
  <2>. QED  BY <2>1, <2>2 DEF QueuedHasPassed
<1>14. ASSUME NEW r \in Known', ratificationOf[r] # 0
       PROVE  /\ r \in Known /\ ratificationOf[r] \in Known
              /\ proposals'[r] = proposals[r]
              /\ proposals'[ratificationOf[r]] = proposals[ratificationOf[r]]
  BY <1>3, <1>7, <1>10, <1>14 DEF Safe, RatificationsTyped
<1>15. OpenVetoes'
  <2>1. ASSUME NEW r \in Known', ratificationOf[r] # 0, ~proposals'[r].executed
        PROVE  /\ proposals'[ratificationOf[r]].canceled
               /\ proposals'[ratificationOf[r]].queued
               /\ ~proposals'[ratificationOf[r]].executed
               /\ proposals'[ratificationOf[r]].voteEnd
                    + proposals'[ratificationOf[r]].executionDelay <= proposals'[r].voteEnd
    BY <1>14, <2>1 DEF Safe, OpenVetoes, OpenVeto
  <2>. QED  BY <2>1 DEF OpenVetoes, OpenVeto
<1>16. OneOpenVetoEach'
  BY <1>14 DEF Safe, OneOpenVetoEach, OpenVeto
<1>17. OperationsFollow'
  <2>1. ASSUME NEW j \in Known'
        PROVE  /\ Executable(proposals'[j]) /\ proposals'[j].executed =>
                    proposals'[j].queued /\ ~proposals'[j].canceled
               /\ operations[j].status = "done" <=>
                    Executable(proposals'[j]) /\ proposals'[j].executed
               /\ operations[j].status = "pending" <=>
                    /\ Executable(proposals'[j]) /\ proposals'[j].queued
                    /\ ~proposals'[j].canceled /\ ~proposals'[j].executed
               /\ operations[j].status = "pending" =>
                    proposals'[j].voteEnd + proposals'[j].executionDelay
                        <= operations[j].readyAt
    <3>1. CASE j = id
      BY <1>4, <1>6, <1>10, <3>1 DEF Unset
    <3>2. CASE j \in Known
      BY <1>7, <3>2 DEF Safe, OperationsFollow
    <3>. QED  BY <1>3, <3>1, <3>2
  <2>. QED  BY <2>1 DEF OperationsFollow, Executable
<1>. QED
  BY <1>8, <1>9, <1>11, <1>12, <1>13, <1>15, <1>16, <1>17 DEF Safe

\* propose() keeps the safety part.
LEMMA ProposeSafe ==
    ASSUME TypeOK, TypeOK', Safe, NEW sender \in Voters, NEW declared,
           NEW payload \in Payloads \cup {NoPayload}, Propose(sender, declared, payload)
    PROVE  Safe'
<1>. DEFINE type == IF declared = "Standard" THEN Classify(declared, payload) ELSE declared
<1>1. type \in {"Standard", "Extended", "Signaling"}
  BY DEF Propose, Classify
<1>2. /\ SafeTimelockCall(payload.call) /\ Create(sender, type, payload)
      /\ UNCHANGED <<now, ratificationOf, operations, settings>>
  BY DEF Propose
<1>3. type \in Types /\ type # "VetoRatification" /\ type # "Steward"
  BY <1>1 DEF Types
<1>. HIDE DEF type
<1>. QED  BY <1>2, <1>3, CreateSafe

\* proposeStewardSpend() keeps the safety part.
LEMMA ProposeStewardSpendSafe ==
    ASSUME TypeOK, TypeOK', Safe, NEW sender \in Stewards, NEW payload \in Payloads,
           ProposeStewardSpend(sender, payload.stewardSpend, payload.recipients)
    PROVE  Safe'
<1>. DEFINE carried == [NoPayload EXCEPT !.stewardSpend = payload.stewardSpend,
                                         !.recipients = payload.recipients]
<1>1. /\ Create(sender, "Steward", carried) /\ sender \notin payload.recipients
      /\ UNCHANGED <<now, ratificationOf, operations, settings>>
  BY DEF ProposeStewardSpend
<1>2. carried.call = NoCall /\ carried.recipients = payload.recipients
  BY DEF NoPayload
<1>3. SafeTimelockCall(NoCall) /\ "Steward" \in Types
  BY DEF SafeTimelockCall, NoCall, Types
<1>. HIDE DEF carried
<1>. QED  BY <1>1, <1>2, <1>3, CreateSafe

(***************************************************************************)
(* A veto opens the only ratification of its proposal, and that vote lasts *)
(* at least as long as the proposal would still have waited.               *)
(***************************************************************************)
LEMMA VetoSafe ==
    ASSUME TypeOK, TypeOK', Safe, NEW sc \in Councils, NEW i \in Ids, Veto(sc, i)
    PROVE  Safe'
<1>. DEFINE id  == proposalCount + 1
            rat == NewProposal(sc, "VetoRatification", NoPayload)
            p   == proposals[i]
            q   == [p EXCEPT !.canceled = TRUE]
<1>1. /\ i \in Known /\ State(i) = "Queued"
      /\ proposalCount < MaxProposals /\ proposalCount' = id
      /\ proposals' = [proposals EXCEPT ![i].canceled = TRUE, ![id] = rat]
      /\ ratificationOf' = [ratificationOf EXCEPT ![id] = i]
      /\ operations' = [operations EXCEPT ![i] = Unset]
      /\ UNCHANGED <<now, settings>>
  BY DEF Veto, MayVeto, CancelOperation
<1>2. proposalCount \in Nat /\ MaxProposals \in Nat
  BY GovernorInputs DEF TypeOK
<1>3. id \in Ids /\ id \notin Known /\ Known' = Known \cup {id} /\ id # i
  BY <1>1, <1>2 DEF Ids, Known
<1>4. /\ p \in ProposalRecord /\ Executable(p) /\ p.queued /\ ~p.canceled /\ ~p.executed
      /\ p.voteEnd < now
  BY <1>1, KnownIds, StateFacts
<1>5. /\ SamePromise(q, p) /\ q.canceled /\ q.queued /\ ~q.executed
      /\ q.queued = p.queued /\ q.executed = p.executed
  BY <1>4, FlagsKeepPromise DEF ProposalRecord
<1>6. /\ rat.type = "VetoRatification" /\ ~rat.executed /\ ~rat.canceled /\ ~rat.queued
      /\ rat.payload = NoPayload /\ TallyMatches(rat)
  BY NewProposalFields, NewProposalMatches
<1>7. rat.voteStart <= rat.voteEnd /\ rat.voteEnd = now + RatificationPeriod
  BY <1>6, NewProposalSafe DEF Safe, Types
<1>8. SafeTimelockCall(NoPayload.call)
  BY DEF SafeTimelockCall, NoPayload, NoCall
<1>9. p.voteEnd + p.executionDelay <= rat.voteEnd
  <2>1. p.executionDelay \in MIN_EXECUTION_DELAY..MAX_EXECUTION_DELAY
    BY <1>1, <1>4 DEF Safe, ProposalsSafe
  <2>2. MAX_EXECUTION_DELAY <= RatificationPeriod /\ RatificationPeriod \in Nat
        /\ MIN_EXECUTION_DELAY \in Nat /\ MAX_EXECUTION_DELAY \in Nat
    BY GovernorDelays, GovernorInputs
  <2>3. p.voteEnd \in Nat /\ now \in Nat
    BY <1>1, KnownFields
  <2>. QED  BY <1>4, <1>7, <2>1, <2>2, <2>3
<1>10. proposals' = [[proposals EXCEPT ![i] = q] EXCEPT ![id] = rat]
  BY <1>1, <1>3 DEF TypeOK
<1>. HIDE DEF id, rat, p, q
<1>11. /\ proposals'[id] = rat /\ proposals'[i] = q
       /\ \A j \in Ids : j # i /\ j # id => proposals'[j] = proposals[j]
  BY <1>3, <1>10 DEF TypeOK
<1>12. /\ operations'[i] = Unset
       /\ \A j \in Ids : j # i => operations'[j] = operations[j]
  BY <1>1 DEF TypeOK
<1>13. /\ ratificationOf'[id] = i
       /\ \A j \in Ids : j # id => ratificationOf'[j] = ratificationOf[j]
  BY <1>1, <1>3 DEF TypeOK
<1>14. operations[id] = Unset
  BY <1>3 DEF Safe, FreshIds
<1>15. ASSUME NEW j \in Known
       PROVE  /\ j # id /\ j \in Ids
              /\ SamePromise(proposals'[j], proposals[j])
              /\ proposals'[j].queued = proposals[j].queued
              /\ proposals'[j].executed = proposals[j].executed
              /\ ratificationOf'[j] = ratificationOf[j]
  <2>1. j # id /\ j \in Ids
    BY <1>3, KnownIds
  <2>2. CASE j = i
    BY <1>4, <1>5, <1>11, <1>13, <2>1, <2>2 DEF p
  <2>3. CASE j # i
    BY <1>11, <1>13, <2>1, <2>3, SamePromiseReflexive
  <2>. QED  BY <2>1, <2>2, <2>3
<1>16. SettingsSafe'
  BY <1>1, SameSettingsSafe DEF Safe
<1>17. ProposalsSafe'
  <2>1. ASSUME NEW j \in Known'
        PROVE  /\ TallyMatches(proposals'[j])
               /\ proposals'[j].voteStart <= proposals'[j].voteEnd
               /\ SafeTimelockCall(proposals'[j].payload.call)
               /\ Executable(proposals'[j]) =>
                    proposals'[j].executionDelay \in MIN_EXECUTION_DELAY..MAX_EXECUTION_DELAY
               /\ proposals'[j].type = "Steward" =>
                    /\ proposals'[j].payload.call = NoCall
                    /\ proposals'[j].proposer \notin proposals'[j].payload.recipients
    <3>1. CASE j = id
      BY <1>6, <1>7, <1>8, <1>11, <3>1 DEF Executable
    <3>2. CASE j \in Known
      <4>1. SamePromise(proposals'[j], proposals[j])
        BY <1>15, <3>2
      <4>2. /\ TallyMatches(proposals'[j]) <=> TallyMatches(proposals[j])
            /\ Executable(proposals'[j]) <=> Executable(proposals[j])
        BY <4>1, SamePromiseFacts
      <4>. QED  BY <3>2, <4>1, <4>2 DEF Safe, ProposalsSafe, SamePromise
    <3>. QED  BY <1>3, <3>1, <3>2
  <2>. QED  BY <2>1, Zenon DEF ProposalsSafe, TallyMatches, Backers, Executable, SafeTimelockCall
<1>18. FreshIds'
  BY <1>1, <1>3, <1>11, <1>12, <1>13 DEF Safe, FreshIds
<1>19. RatificationsTyped'
  <2>1. ASSUME NEW r \in Known'
        PROVE  /\ ratificationOf'[r] # 0 <=> proposals'[r].type = "VetoRatification"
               /\ ratificationOf'[r] # 0 => ratificationOf'[r] \in Known'
    <3>1. CASE r = id
      <4>1. i # 0
        BY <1>1, <1>2 DEF Known
      <4>. QED  BY <1>1, <1>3, <1>6, <1>11, <1>13, <3>1, <4>1
    <3>2. CASE r \in Known
      BY <1>3, <1>15, <3>2 DEF Safe, RatificationsTyped, SamePromise
    <3>. QED  BY <1>3, <3>1, <3>2
  <2>. QED  BY <2>1 DEF RatificationsTyped
<1>20. QueuedHasPassed'
  <2>1. ASSUME NEW j \in Known', proposals'[j].queued
        PROVE  j \in Known
    BY <1>3, <1>6, <1>11, <2>1
  <2>2. ASSUME NEW j \in Known, proposals'[j].queued
        PROVE  /\ Executable(proposals'[j]) /\ proposals'[j].voteEnd < now
               /\ ~VotedDown(proposals'[j])
    <3>1. SamePromise(proposals'[j], proposals[j]) /\ proposals[j].queued
      BY <1>15, <2>2
    <3>. QED  BY <3>1, SamePromiseFacts DEF Safe, QueuedHasPassed, SamePromise
  <2>. QED  BY <1>1, <2>1, <2>2 DEF QueuedHasPassed
<1>21. ASSUME NEW r \in Known, OpenVeto(r)
       PROVE  ratificationOf[r] \in Known /\ ratificationOf[r] # i
  <2>1. ratificationOf[r] \in Known /\ proposals[ratificationOf[r]].canceled
    BY <1>21 DEF Safe, RatificationsTyped, OpenVetoes, OpenVeto
  <2>. QED  BY <1>4, <2>1 DEF p
<1>22. OpenVetoes'
  <2>1. ASSUME NEW r \in Known', ratificationOf'[r] # 0, ~proposals'[r].executed
        PROVE  /\ proposals'[ratificationOf'[r]].canceled
               /\ proposals'[ratificationOf'[r]].queued
               /\ ~proposals'[ratificationOf'[r]].executed
               /\ proposals'[ratificationOf'[r]].voteEnd
                    + proposals'[ratificationOf'[r]].executionDelay <= proposals'[r].voteEnd
    <3>1. CASE r = id
      <4>1. q.voteEnd = p.voteEnd /\ q.executionDelay = p.executionDelay
        BY <1>5 DEF SamePromise
      <4>. QED  BY <1>5, <1>9, <1>11, <1>13, <3>1, <4>1
    <3>2. CASE r \in Known
      <4>1. OpenVeto(r) /\ ratificationOf'[r] = ratificationOf[r]
        BY <1>15, <2>1, <3>2 DEF OpenVeto
      <4>2. ratificationOf[r] \in Known /\ ratificationOf[r] # i
        BY <1>21, <3>2, <4>1
      <4>3. proposals'[ratificationOf[r]] = proposals[ratificationOf[r]]
        BY <1>11, <1>15, <4>2
      <4>4. proposals'[r].voteEnd = proposals[r].voteEnd
        BY <1>15, <3>2 DEF SamePromise
      <4>. QED  BY <3>2, <4>1, <4>3, <4>4 DEF Safe, OpenVetoes
    <3>. QED  BY <1>3, <3>1, <3>2
  <2>. QED  BY <2>1 DEF OpenVetoes, OpenVeto
<1>23. OneOpenVetoEach'
  <2>1. ASSUME NEW r \in Known, ratificationOf'[r] # 0, ~proposals'[r].executed
        PROVE  OpenVeto(r) /\ ratificationOf'[r] = ratificationOf[r]
    BY <1>15, <2>1 DEF OpenVeto
  <2>2. ASSUME NEW r \in Known', NEW s \in Known', ratificationOf'[r] # 0,
               ~proposals'[r].executed, ~proposals'[s].executed,
               ratificationOf'[r] = ratificationOf'[s]
        PROVE  r = s
    <3>1. CASE r = id /\ s = id
      BY <3>1
    <3>2. CASE r = id /\ s \in Known
      BY <1>13, <1>21, <2>1, <2>2, <3>2
    <3>3. CASE r \in Known /\ s = id
      BY <1>13, <1>21, <2>1, <2>2, <3>3
    <3>4. CASE r \in Known /\ s \in Known
      BY <2>1, <2>2, <3>4 DEF Safe, OneOpenVetoEach
    <3>. QED  BY <1>3, <3>1, <3>2, <3>3, <3>4
  <2>. QED  BY <2>2 DEF OneOpenVetoEach, OpenVeto
<1>24. OperationsFollow'
  <2>1. ASSUME NEW j \in Known'
        PROVE  /\ Executable(proposals'[j]) /\ proposals'[j].executed =>
                    proposals'[j].queued /\ ~proposals'[j].canceled
               /\ operations'[j].status = "done" <=>
                    Executable(proposals'[j]) /\ proposals'[j].executed
               /\ operations'[j].status = "pending" <=>
                    /\ Executable(proposals'[j]) /\ proposals'[j].queued
                    /\ ~proposals'[j].canceled /\ ~proposals'[j].executed
               /\ operations'[j].status = "pending" =>
                    proposals'[j].voteEnd + proposals'[j].executionDelay
                        <= operations'[j].readyAt
    <3>1. CASE j = id
      BY <1>3, <1>6, <1>11, <1>12, <1>14, <3>1 DEF Unset
    <3>2. CASE j = i
      BY <1>5, <1>11, <1>12, <3>2 DEF Unset
    <3>3. CASE j \in Known /\ j # i
      BY <1>11, <1>12, <1>15, <3>3 DEF Safe, OperationsFollow
    <3>. QED  BY <1>3, <3>1, <3>2, <3>3
  <2>. QED  BY <2>1 DEF OperationsFollow, Executable
<1>. QED
  BY <1>16, <1>17, <1>18, <1>19, <1>20, <1>22, <1>23, <1>24 DEF Safe

\* An upheld veto keeps the safety part.
LEMMA UpholdVetoSafe ==
    ASSUME TypeOK, TypeOK', Safe, NEW r \in Known, ratificationOf[r] # 0, UpholdVeto(r),
           UNCHANGED <<now, proposalCount, ratificationOf>>
    PROVE  Safe'
<1>. DEFINE p == proposals[r]
            q == [p EXCEPT !.executed = TRUE]
<1>1. /\ proposals' = [proposals EXCEPT ![r] = q]
      /\ UNCHANGED <<now, proposalCount, ratificationOf, operations, settings>>
  BY DEF UpholdVeto
<1>2. Known' = Known
  BY <1>1 DEF Known
<1>3. p \in ProposalRecord /\ ~Executable(p)
  BY KnownIds DEF Safe, RatificationsTyped, Executable
<1>4. SamePromise(q, p) /\ q.canceled = p.canceled /\ q.queued = p.queued /\ q.executed
  BY <1>3, FlagsKeepPromise DEF ProposalRecord
<1>. HIDE DEF p, q
<1>5. proposals'[r] = q /\ \A j \in Ids : j # r => proposals'[j] = proposals[j]
  BY <1>1, KnownIds DEF TypeOK
<1>6. ASSUME NEW j \in Known
      PROVE  /\ SamePromise(proposals'[j], proposals[j])
             /\ proposals'[j].queued = proposals[j].queued
             /\ proposals'[j].canceled = proposals[j].canceled
             /\ ~proposals'[j].executed => proposals'[j].executed = proposals[j].executed
             /\ Executable(proposals[j]) => proposals'[j].executed = proposals[j].executed
  BY <1>3, <1>4, <1>5, KnownIds, SamePromiseReflexive DEF p
<1>7. SettingsSafe' /\ ProposalsSafe'
  BY <1>1, <1>6, SameSettingsSafe, PromisesKept DEF Safe
<1>8. FreshIds'
  BY <1>1, <1>2, <1>5 DEF Safe, FreshIds
<1>9. RatificationsTyped'
  BY <1>1, <1>2, <1>6 DEF Safe, RatificationsTyped, SamePromise
<1>10. QueuedHasPassed'
  <2>1. ASSUME NEW j \in Known, proposals'[j].queued
        PROVE  /\ Executable(proposals'[j]) /\ proposals'[j].voteEnd < now
               /\ ~VotedDown(proposals'[j])
    <3>1. SamePromise(proposals'[j], proposals[j]) /\ proposals[j].queued
      BY <1>6, <2>1
    <3>. QED  BY <3>1, SamePromiseFacts DEF Safe, QueuedHasPassed, SamePromise
  <2>. QED  BY <1>1, <1>2, <2>1 DEF QueuedHasPassed
<1>11. OpenVetoes'
  <2>1. ASSUME NEW s \in Known, ratificationOf[s] # 0, ~proposals'[s].executed
        PROVE  /\ proposals'[ratificationOf[s]].canceled
               /\ proposals'[ratificationOf[s]].queued
               /\ ~proposals'[ratificationOf[s]].executed
               /\ proposals'[ratificationOf[s]].voteEnd
                    + proposals'[ratificationOf[s]].executionDelay <= proposals'[s].voteEnd
    <3>1. ratificationOf[s] \in Known /\ OpenVeto(s)
      BY <1>6, <2>1 DEF Safe, RatificationsTyped, OpenVeto
    <3>2. Executable(proposals[ratificationOf[s]])
      BY <3>1 DEF Safe, OpenVetoes, QueuedHasPassed
    <3>. QED  BY <1>6, <3>1, <3>2 DEF Safe, OpenVetoes, SamePromise
  <2>. QED  BY <1>1, <1>2, <2>1 DEF OpenVetoes, OpenVeto
<1>12. OneOpenVetoEach'
  BY <1>1, <1>2, <1>6 DEF Safe, OneOpenVetoEach, OpenVeto
<1>13. OperationsFollow'
  <2>1. ASSUME NEW j \in Known
        PROVE  /\ Executable(proposals'[j]) /\ proposals'[j].executed =>
                    proposals'[j].queued /\ ~proposals'[j].canceled
               /\ operations[j].status = "done" <=>
                    Executable(proposals'[j]) /\ proposals'[j].executed
               /\ operations[j].status = "pending" <=>
                    /\ Executable(proposals'[j]) /\ proposals'[j].queued
                    /\ ~proposals'[j].canceled /\ ~proposals'[j].executed
               /\ operations[j].status = "pending" =>
                    proposals'[j].voteEnd + proposals'[j].executionDelay
                        <= operations[j].readyAt
    <3>1. Executable(proposals'[j]) <=> Executable(proposals[j])
      BY <1>6, SamePromiseFacts
    <3>. QED  BY <1>6, <3>1 DEF Safe, OperationsFollow, SamePromise
  <2>. QED  BY <1>1, <1>2, <2>1 DEF OperationsFollow, Executable
<1>. QED
  BY <1>7, <1>8, <1>9, <1>10, <1>11, <1>12, <1>13 DEF Safe

(***************************************************************************)
(* A denied veto puts its proposal back on the timelock; the vote has      *)
(* lasted so long that the minimum delay is enough.                        *)
(***************************************************************************)
LEMMA DenyVetoSafe ==
    ASSUME TypeOK, TypeOK', Safe, NEW r \in Known, ratificationOf[r] # 0,
           ~proposals[r].executed, now > proposals[r].voteEnd, DenyVeto(r),
           UNCHANGED <<now, proposalCount, ratificationOf>>
    PROVE  Safe'
<1>. DEFINE v   == ratificationOf[r]
            p   == proposals[r]
            old == proposals[v]
            q   == [p EXCEPT !.executed = TRUE]
            new == [old EXCEPT !.canceled = FALSE, !.vetoRatificationDenied = TRUE]
            op  == [status |-> "pending", readyAt |-> now + settings.minDelay]
<1>1. /\ proposals' = [proposals EXCEPT ![r].executed = TRUE, ![v].canceled = FALSE,
                                        ![v].vetoRatificationDenied = TRUE]
      /\ operations' = [operations EXCEPT ![v] = op]
      /\ Eject(p.proposer)
      /\ UNCHANGED <<now, proposalCount, ratificationOf>>
  BY DEF DenyVeto, Schedule
<1>2. Known' = Known
  BY <1>1 DEF Known
<1>3. OpenVeto(r) /\ v \in Known
  BY DEF OpenVeto, Safe, RatificationsTyped
<1>4. /\ old.canceled /\ old.queued /\ ~old.executed /\ Executable(old)
      /\ old.voteEnd + old.executionDelay <= p.voteEnd
  BY <1>3 DEF Safe, OpenVetoes, QueuedHasPassed
<1>5. p \in ProposalRecord /\ old \in ProposalRecord /\ ~Executable(p) /\ v # r
  BY <1>3, <1>4, KnownIds DEF Safe, RatificationsTyped, Executable
<1>6. SamePromise(q, p) /\ q.canceled = p.canceled /\ q.queued = p.queued /\ q.executed
  BY <1>5, FlagsKeepPromise DEF ProposalRecord
<1>7. /\ SamePromise(new, old) /\ ~new.canceled
      /\ new.queued = old.queued /\ new.executed = old.executed
  BY <1>5, FlagsKeepPromise DEF ProposalRecord
<1>8. proposals' = [[proposals EXCEPT ![r] = q] EXCEPT ![v] = new]
  BY <1>1, <1>3, <1>5, KnownIds DEF TypeOK
<1>9. old.voteEnd + old.executionDelay <= now + settings.minDelay
  <2>1. settings.minDelay \in Nat
    BY DEF TypeOK, Settings
  <2>2. /\ p.voteEnd \in Nat /\ old.voteEnd \in Nat /\ old.executionDelay \in Nat
        /\ now \in Nat
    BY <1>3, KnownFields
  <2>. QED  BY <1>4, <2>1, <2>2
<1>10. SettingsSafe'
  <2>1. settings \in Settings
    BY DEF TypeOK
  <2>. QED  BY <1>1, <2>1 DEF Eject, Safe, SettingsSafe, Settings
<1>11. op.status = "pending" /\ op.readyAt = now + settings.minDelay
  OBVIOUS
<1>. HIDE DEF v, p, old, q, new, op
<1>12. /\ proposals'[r] = q /\ proposals'[v] = new
       /\ \A j \in Ids : j # r /\ j # v => proposals'[j] = proposals[j]
  BY <1>3, <1>5, <1>8, KnownIds DEF TypeOK
<1>13. /\ operations'[v] = op
       /\ \A j \in Ids : j # v => operations'[j] = operations[j]
  BY <1>1, <1>3, KnownIds DEF TypeOK
<1>14. ASSUME NEW j \in Known
       PROVE  /\ SamePromise(proposals'[j], proposals[j])
              /\ proposals'[j].queued = proposals[j].queued
              /\ j # v => proposals'[j].canceled = proposals[j].canceled
              /\ j # r => proposals'[j].executed = proposals[j].executed
  <2>1. CASE j = r
    BY <1>5, <1>6, <1>12, <2>1 DEF p
  <2>2. CASE j = v
    BY <1>5, <1>7, <1>12, <2>2 DEF old
  <2>3. CASE j # r /\ j # v
    BY <1>12, <2>3, KnownIds, SamePromiseReflexive
  <2>. QED  BY <2>1, <2>2, <2>3
<1>15. ProposalsSafe'
  BY <1>1, <1>14, PromisesKept DEF Safe
<1>16. FreshIds'
  BY <1>1, <1>2, <1>3, <1>12, <1>13 DEF Safe, FreshIds
<1>17. RatificationsTyped'
  <2>1. ASSUME NEW j \in Known
        PROVE  proposals'[j].type = proposals[j].type
    BY <1>14 DEF SamePromise
  <2>. QED  BY <1>1, <1>2, <2>1 DEF Safe, RatificationsTyped
<1>18. QueuedHasPassed'
  <2>1. ASSUME NEW j \in Known, proposals'[j].queued
        PROVE  /\ Executable(proposals'[j]) /\ proposals'[j].voteEnd < now
               /\ ~VotedDown(proposals'[j])
    <3>1. SamePromise(proposals'[j], proposals[j]) /\ proposals[j].queued
      BY <1>14, <2>1
    <3>. QED  BY <3>1, SamePromiseFacts DEF Safe, QueuedHasPassed, SamePromise
  <2>. QED  BY <1>1, <1>2, <2>1 DEF QueuedHasPassed
<1>19. ASSUME NEW s \in Known, ratificationOf[s] # 0, ~proposals'[s].executed
       PROVE  s # r /\ OpenVeto(s)
  <2>1. s # r
    BY <1>6, <1>12, <1>19
  <2>. QED  BY <1>14, <1>19, <2>1 DEF OpenVeto
<1>20. OpenVetoes'
  <2>1. ASSUME NEW s \in Known, ratificationOf[s] # 0, ~proposals'[s].executed
        PROVE  /\ proposals'[ratificationOf[s]].canceled
               /\ proposals'[ratificationOf[s]].queued
               /\ ~proposals'[ratificationOf[s]].executed
               /\ proposals'[ratificationOf[s]].voteEnd
                    + proposals'[ratificationOf[s]].executionDelay <= proposals'[s].voteEnd
    <3>1. ratificationOf[s] \in Known /\ OpenVeto(s) /\ s # r
      BY <1>19, <2>1 DEF Safe, RatificationsTyped
    <3>2. ratificationOf[s] # v
      BY <1>3, <3>1 DEF Safe, OneOpenVetoEach, v
    <3>3. ratificationOf[s] # r
      BY <1>5, <3>1 DEF Safe, OpenVetoes, QueuedHasPassed, p
    <3>. QED  BY <1>14, <3>1, <3>2, <3>3 DEF Safe, OpenVetoes, SamePromise
  <2>. QED  BY <1>1, <1>2, <2>1 DEF OpenVetoes, OpenVeto
<1>21. OneOpenVetoEach'
  BY <1>1, <1>2, <1>19 DEF Safe, OneOpenVetoEach, OpenVeto
<1>22. OperationsFollow'
  <2>1. ASSUME NEW j \in Known
        PROVE  /\ Executable(proposals'[j]) /\ proposals'[j].executed =>
                    proposals'[j].queued /\ ~proposals'[j].canceled
               /\ operations'[j].status = "done" <=>
                    Executable(proposals'[j]) /\ proposals'[j].executed
               /\ operations'[j].status = "pending" <=>
                    /\ Executable(proposals'[j]) /\ proposals'[j].queued
                    /\ ~proposals'[j].canceled /\ ~proposals'[j].executed
               /\ operations'[j].status = "pending" =>
                    proposals'[j].voteEnd + proposals'[j].executionDelay
                        <= operations'[j].readyAt
    <3>1. CASE j = v
      <4>1. /\ Executable(new) /\ new.voteEnd = old.voteEnd
            /\ new.executionDelay = old.executionDelay
        BY <1>4, <1>7, SamePromiseFacts DEF SamePromise
      <4>. QED  BY <1>4, <1>7, <1>9, <1>11, <1>12, <1>13, <3>1, <4>1
    <3>2. CASE j = r
      <4>1. ~Executable(q)
        BY <1>5, <1>6, SamePromiseFacts
      <4>2. operations'[r] = operations[r]
        BY <1>5, <1>13, KnownIds
      <4>. QED  BY <1>5, <1>12, <3>2, <4>1, <4>2 DEF Safe, OperationsFollow, p
    <3>3. CASE j # v /\ j # r
      BY <1>12, <1>13, <3>3, KnownIds DEF Safe, OperationsFollow
    <3>. QED  BY <3>1, <3>2, <3>3
  <2>. QED  BY <1>2, <2>1 DEF OperationsFollow, Executable
<1>. QED
  BY <1>10, <1>15, <1>16, <1>17, <1>18, <1>20, <1>21, <1>22 DEF Safe

\* resolveRatification() keeps the safety part.
LEMMA ResolveRatificationSafe ==
    ASSUME TypeOK, TypeOK', Safe, NEW r \in Ids, ResolveRatification(r)
    PROVE  Safe'
<1>1. /\ r \in Known /\ ratificationOf[r] # 0 /\ ~proposals[r].executed
      /\ now > proposals[r].voteEnd
      /\ UNCHANGED <<now, proposalCount, ratificationOf>>
      /\ DenyVeto(r) \/ UpholdVeto(r)
  BY DEF ResolveRatification
<1>. QED  BY <1>1, DenyVetoSafe, UpholdVetoSafe

\* The outside keeps the safety part.
LEMMA OutsideSafe ==
    ASSUME TypeOK, TypeOK', Safe, Outside
    PROVE  Safe'
<1>1. SettingsSafe
  BY DEF Safe
<1>2. UNCHANGED <<proposalVars, operations>> /\ now <= now' /\ SettingsSafe'
  BY <1>1, OutsideEffect
<1>. QED  BY <1>2, StillTimeKeepsSafe

\* A stutter keeps the types.
LEMMA StutterTyped ==
    ASSUME TypeOK, UNCHANGED vars
    PROVE  TypeOK'
  BY DEF TypeOK, vars, environment, proposalVars

\* A stutter keeps the safety part.
LEMMA StutterSafe ==
    ASSUME TypeOK, TypeOK', Safe, UNCHANGED vars
    PROVE  Safe'
<1>1. SettingsSafe'
  BY SameSettingsSafe DEF Safe, vars
<1>2. now <= now' /\ UNCHANGED <<proposalVars, operations>>
  BY DEF TypeOK, vars, proposalVars
<1>. QED  BY <1>1, <1>2, StillTimeKeepsSafe

-----------------------------------------------------------------------------
(* The theorems *)

\* The inductive invariant is the types and the safety part.
LEMMA IInvSplit == IInv <=> TypeOK /\ Safe
  BY DEF IInv, Safe

\* The inductive invariant holds at deployment.
LEMMA InitInvariant == Init => IInv
  BY InitTyped, InitSafe, IInvSplit

\* Every step keeps the inductive invariant.
LEMMA NextInvariant == IInv /\ [Next]_vars => IInv'
<1>. SUFFICES ASSUME TypeOK, Safe, [Next]_vars
              PROVE  TypeOK' /\ Safe'
  BY DEF IInv, Safe
<1>1. ASSUME NEW sender \in Voters, NEW type \in DeclaredTypes,
             NEW payload \in Payloads \cup {NoPayload}, Propose(sender, type, payload)
      PROVE  TypeOK' /\ Safe'
  BY <1>1, ProposeTyped, ProposeSafe
<1>2. ASSUME NEW sender \in Stewards, NEW payload \in Payloads,
             ProposeStewardSpend(sender, payload.stewardSpend, payload.recipients)
      PROVE  TypeOK' /\ Safe'
  BY <1>2, ProposeStewardSpendTyped, ProposeStewardSpendSafe
<1>3. ASSUME NEW sender \in Voters, NEW i \in Ids, NEW support \in Options,
             CastVote(sender, i, support)
      PROVE  TypeOK' /\ Safe'
  <2>1. ProposalsSafe
    BY DEF Safe
  <2>. QED  BY <1>3, <2>1, CastVoteTyped, CastVoteSafe
<1>4. ASSUME NEW i \in Ids, Queue(i)
      PROVE  TypeOK' /\ Safe'
  BY <1>4, QueueTyped, QueueSafe
<1>5. ASSUME NEW i \in Ids, Execute(i)
      PROVE  TypeOK' /\ Safe'
  BY <1>5, ExecuteTyped, ExecuteSafe
<1>6. ASSUME NEW i \in Ids, ResolveRatification(i)
      PROVE  TypeOK' /\ Safe'
  <2>1. RatificationsTyped
    BY DEF Safe
  <2>. QED  BY <1>6, <2>1, ResolveRatificationTyped, ResolveRatificationSafe
<1>7. ASSUME NEW sender \in Accounts, NEW i \in Ids, Cancel(sender, i)
      PROVE  TypeOK' /\ Safe'
  BY <1>7, CancelTyped, CancelSafe
<1>8. ASSUME NEW sc \in Councils, NEW i \in Ids, Veto(sc, i)
      PROVE  TypeOK' /\ Safe'
  BY <1>8, VetoTyped, VetoSafe
<1>9. CASE Outside
  BY <1>9, OutsideTyped, OutsideSafe
<1>10. CASE UNCHANGED vars
  BY <1>10, StutterTyped, StutterSafe
<1>11. CASE Proposing
  BY <1>1, <1>2, <1>11 DEF Proposing
<1>12. CASE Deciding
  BY <1>3, <1>4, <1>5, <1>6, <1>7, <1>8, <1>12 DEF Deciding, Options
<1>. QED  BY <1>9, <1>10, <1>11, <1>12, Zenon DEF Next, Outside

\* The inductive invariant holds in every state the governor reaches.
THEOREM Invariance == Spec => []IInv
<1>. QED  BY InitInvariant, NextInvariant, PTL DEF Spec

(***************************************************************************)
(* Every variable keeps its type; in particular no tally is ever taken     *)
(* below zero by a changed vote.                                           *)
(***************************************************************************)
THEOREM TypeCorrect == Spec => []TypeOK
<1>1. IInv => TypeOK
  BY DEF IInv
<1>. QED  BY <1>1, Invariance, PTL

(***************************************************************************)
(* Whatever the order of first votes and changes of mind, a bucket of a    *)
(* tally is the snapshot weight of those whose latest choice it is.        *)
(***************************************************************************)
THEOREM TalliesCorrect == Spec => []TalliesMatchVoters
<1>1. IInv => TalliesMatchVoters
  BY DEF IInv, ProposalsSafe, TallyMatches, Backers, Options, TalliesMatchVoters
<1>. QED  BY <1>1, Invariance, PTL

(***************************************************************************)
(* No sequence of proposals takes a timelock role from the governor or     *)
(* makes a proposal too short for the timelock to accept.                  *)
(***************************************************************************)
THEOREM AlwaysOperable == Spec => []GovernanceStaysOperable
<1>1. IInv => GovernanceStaysOperable
  <2>. SUFFICES ASSUME IInv, NEW i \in Known, Executable(proposals[i])
                PROVE  settings.minDelay <= proposals[i].executionDelay
    BY DEF GovernanceStaysOperable, IInv, SettingsSafe
  <2>1. /\ settings.minDelay <= MIN_EXECUTION_DELAY
        /\ proposals[i].executionDelay \in MIN_EXECUTION_DELAY..MAX_EXECUTION_DELAY
    BY DEF IInv, SettingsSafe, ProposalsSafe
  <2>2. settings.minDelay \in Nat /\ MIN_EXECUTION_DELAY \in Nat /\ MAX_EXECUTION_DELAY \in Nat
    BY GovernorDelays DEF IInv, TypeOK, Settings
  <2>. QED  BY <2>1, <2>2
<1>. QED  BY <1>1, Invariance, PTL

(***************************************************************************)
(* The timelock holds a pending operation exactly for the proposals that   *)
(* are queued: a veto withdraws it, a denied veto puts it back.            *)
(***************************************************************************)
THEOREM TimelockInStep == Spec => []TimelockAgrees
<1>1. IInv => TimelockAgrees
  <2>. SUFFICES ASSUME IInv, NEW i \in Ids
                PROVE  /\ operations[i].status = "pending" <=>
                            /\ Executable(proposals[i]) /\ proposals[i].queued
                            /\ ~proposals[i].canceled /\ ~proposals[i].executed
                       /\ operations[i].status = "done" <=>
                            Executable(proposals[i]) /\ proposals[i].executed
                       /\ operations[i].status # "unset" =>
                            State(i) \in {"Queued", "Executed"}
    BY DEF TimelockAgrees
  <2>1. CASE i \notin Known
    <3>1. proposals[i] = Blank /\ operations[i] = Unset
      BY <2>1 DEF IInv, FreshIds
    <3>. QED  BY <3>1 DEF Blank, Unset
  <2>2. CASE i \in Known
    <3>1. /\ operations[i].status = "pending" <=>
               /\ Executable(proposals[i]) /\ proposals[i].queued
               /\ ~proposals[i].canceled /\ ~proposals[i].executed
          /\ operations[i].status = "done" <=> Executable(proposals[i]) /\ proposals[i].executed
          /\ Executable(proposals[i]) /\ proposals[i].executed => ~proposals[i].canceled
      BY <2>2 DEF IInv, OperationsFollow
    <3>2. operations[i].status \in {"unset", "pending", "done"}
      BY DEF IInv, TypeOK
    <3>3. TypeOK /\ proposals[i].voteStart <= proposals[i].voteEnd
      BY <2>2 DEF IInv, ProposalsSafe
    <3>4. CASE operations[i].status = "pending"
      <4>1. proposals[i].voteEnd < now /\ ~VotedDown(proposals[i])
        BY <2>2, <3>1, <3>4 DEF IInv, QueuedHasPassed
      <4>2. State(i) = "Queued"
        BY <2>2, <3>1, <3>3, <3>4, <4>1, QueuedState
      <4>. QED  BY <3>1, <4>2
    <3>5. CASE operations[i].status = "done"
      <4>1. State(i) = "Executed"
        BY <2>2, <3>1, <3>3, <3>5, QueuedState
      <4>. QED  BY <3>1, <4>1
    <3>6. CASE operations[i].status = "unset"
      BY <3>1, <3>6
    <3>. QED  BY <3>2, <3>4, <3>5, <3>6
  <2>. QED  BY <2>1, <2>2
<1>. QED  BY <1>1, Invariance, PTL

-----------------------------------------------------------------------------
(* Who marks a proposal executed *)

Marks(i) == ~proposals[i].executed /\ proposals'[i].executed

\* Creating a proposal marks none executed.
LEMMA CreateMarksNone ==
    ASSUME TypeOK, NEW proposer, NEW type, NEW payload, NEW i \in Ids,
           Create(proposer, type, payload), Marks(i)
    PROVE  FALSE
<1>. SUFFICES ASSUME NEW q, q = NewProposal(proposer, type, payload)
              PROVE  FALSE
  OBVIOUS
<1>1. ~q.executed
  BY NewProposalFields
<1>2. proposals' = [proposals EXCEPT ![proposalCount + 1] = q]
  BY DEF Create
<1>. QED  BY <1>1, <1>2 DEF Marks, TypeOK

\* Neither does rewriting one that is not executed, or was.
LEMMA FlagMarksNone ==
    ASSUME TypeOK, NEW i \in Ids, NEW j \in Ids, NEW q, ~q.executed \/ proposals[j].executed,
           proposals' = [proposals EXCEPT ![j] = q], Marks(i)
    PROVE  FALSE
  BY DEF Marks, TypeOK

\* Neither does a veto.
LEMMA VetoMarksNone ==
    ASSUME TypeOK, NEW sc, NEW j \in Ids, NEW i \in Ids, Veto(sc, j), Marks(i)
    PROVE  FALSE
<1>. SUFFICES ASSUME NEW rat, rat = NewProposal(sc, "VetoRatification", NoPayload)
              PROVE  FALSE
  OBVIOUS
<1>1. ~rat.executed
  BY NewProposalFields
<1>2. proposals' = [proposals EXCEPT ![j].canceled = TRUE, ![proposalCount + 1] = rat]
  BY DEF Veto
<1>. DEFINE q == [proposals[j] EXCEPT !.canceled = TRUE]
            mid == [proposals EXCEPT ![j] = q]
<1>3. q.executed = proposals[j].executed
  BY DEF TypeOK, ProposalRecord
<1>4. proposals' = [mid EXCEPT ![proposalCount + 1] = rat]
  BY <1>2 DEF TypeOK
<1>. HIDE DEF q
<1>5. mid[i].executed = proposals[i].executed
  BY <1>3 DEF TypeOK
<1>6. mid \in [Ids -> {mid[k] : k \in Ids}]
  BY DEF TypeOK
<1>. HIDE DEF mid
<1>. QED  BY <1>1, <1>4, <1>5, <1>6 DEF Marks

\* resolveRatification() marks only the ratification.
LEMMA ResolveMarksItself ==
    ASSUME TypeOK, NEW r \in Ids, NEW i \in Ids, ResolveRatification(r), Marks(i)
    PROVE  i = r
<1>. DEFINE q == [proposals[r] EXCEPT !.executed = TRUE]
<1>. SUFFICES ASSUME i # r
              PROVE  FALSE
  OBVIOUS
<1>1. CASE UpholdVeto(r)
  BY <1>1 DEF UpholdVeto, Marks, TypeOK
<1>2. CASE DenyVeto(r)
  <2>. DEFINE mid == [proposals EXCEPT ![r] = q]
              v   == ratificationOf[r]
              new == [mid[v] EXCEPT !.canceled = FALSE, !.vetoRatificationDenied = TRUE]
  <2>1. proposals' = [proposals EXCEPT ![r].executed = TRUE, ![v].canceled = FALSE,
                                       ![v].vetoRatificationDenied = TRUE]
    BY <1>2 DEF DenyVeto
  <2>2. q \in ProposalRecord
    BY FlagsTyped DEF TypeOK
  <2>. HIDE DEF q
  <2>3. mid \in [Ids -> ProposalRecord] /\ mid[i] = proposals[i]
    BY <2>2 DEF TypeOK
  <2>4. v \in Ids => new.executed = mid[v].executed
    BY <2>3 DEF ProposalRecord
  <2>5. proposals' = [mid EXCEPT ![v] = new]
    BY <2>1, <2>3 DEF TypeOK, q
  <2>. HIDE DEF new, mid, v
  <2>6. proposals'[i].executed = mid[i].executed
    BY <2>3, <2>4, <2>5
  <2>. QED  BY <2>3, <2>6 DEF Marks
<1>. QED  BY <1>1, <1>2 DEF ResolveRatification

\* Only execute() and resolveRatification() mark a proposal executed.
LEMMA OnlyTwoMark ==
    ASSUME IInv, Next, NEW i \in Ids, Marks(i)
    PROVE  Execute(i) \/ ResolveRatification(i)
<1>. USE DEF IInv
<1>1. ASSUME NEW sender \in Voters, NEW type \in DeclaredTypes,
             NEW payload \in Payloads \cup {NoPayload}, Propose(sender, type, payload)
      PROVE  FALSE
  BY <1>1, CreateMarksNone DEF Propose
<1>2. ASSUME NEW sender \in Stewards, NEW payload \in Payloads,
             ProposeStewardSpend(sender, payload.stewardSpend, payload.recipients)
      PROVE  FALSE
  BY <1>2, CreateMarksNone DEF ProposeStewardSpend
<1>3. ASSUME NEW sender \in Voters, NEW j \in Ids, NEW support \in Options,
             CastVote(sender, j, support)
      PROVE  FALSE
  <2>1. proposals' = [proposals EXCEPT ![j] = Count(proposals[j], sender, support)]
    BY <1>3 DEF CastVote
  <2>2. Count(proposals[j], sender, support).executed = proposals[j].executed
    BY DEF TypeOK, ProposalRecord, Count
  <2>. QED  BY <2>1, <2>2, FlagMarksNone
<1>4. ASSUME NEW j \in Ids, Queue(j)
      PROVE  FALSE
  <2>1. proposals' = [proposals EXCEPT ![j] = [proposals[j] EXCEPT !.queued = TRUE]]
    BY <1>4 DEF Queue
  <2>2. [proposals[j] EXCEPT !.queued = TRUE].executed = proposals[j].executed
    BY DEF TypeOK, ProposalRecord
  <2>. QED  BY <2>1, <2>2, FlagMarksNone
<1>5. ASSUME NEW j \in Ids, Execute(j)
      PROVE  i = j
  BY <1>5 DEF Execute, Marks, TypeOK
<1>6. ASSUME NEW r \in Ids, ResolveRatification(r)
      PROVE  i = r
  BY <1>6, ResolveMarksItself
<1>7. ASSUME NEW sender \in Accounts, NEW j \in Ids, Cancel(sender, j)
      PROVE  FALSE
  <2>1. proposals' = [proposals EXCEPT ![j] = [proposals[j] EXCEPT !.canceled = TRUE]]
    BY <1>7 DEF Cancel
  <2>2. [proposals[j] EXCEPT !.canceled = TRUE].executed = proposals[j].executed
    BY DEF TypeOK, ProposalRecord
  <2>. QED  BY <2>1, <2>2, FlagMarksNone
<1>8. ASSUME NEW sc \in Councils, NEW j \in Ids, Veto(sc, j)
      PROVE  FALSE
  BY <1>8, VetoMarksNone
<1>9. CASE Outside
  <2>1. proposals' = proposals
    BY <1>9, OutsideEffect DEF proposalVars
  <2>. QED  BY <2>1 DEF Marks
<1>10. CASE Proposing
  BY <1>1, <1>2, <1>10 DEF Proposing
<1>11. CASE Deciding
  BY <1>3, <1>4, <1>5, <1>6, <1>7, <1>8, <1>11 DEF Deciding, Options
<1>. QED  BY <1>9, <1>10, <1>11, Zenon DEF Next, Outside

\* Only execute() makes a proposal take effect.
LEMMA OnlyExecuteEnacts ==
    ASSUME IInv, Next, NEW i \in Ids, Enacted(i)
    PROVE  Execute(i) /\ i \in Known
<1>1. ASSUME ResolveRatification(i)
      PROVE  FALSE
  BY <1>1 DEF ResolveRatification, IInv, RatificationsTyped, Enacted, Executable
<1>2. Marks(i)
  BY DEF Enacted, Marks
<1>. QED  BY <1>1, <1>2, OnlyTwoMark DEF Execute

(***************************************************************************)
(* A proposal that takes effect won its vote and has waited out its own    *)
(* execution delay after that vote, along every path: also when it was     *)
(* vetoed, restored, and put back with the timelock's shorter delay.       *)
(***************************************************************************)
THEOREM NothingEnactedEarly == Spec => EnactedAfterVoteAndDelay
<1>1. ASSUME IInv, Next, NEW i \in Ids, Enacted(i)
      PROVE  /\ ~VotedDown(proposals[i])
             /\ now >= proposals[i].voteEnd + proposals[i].executionDelay
             /\ ~settings.windDownActive
  <2>1. Execute(i) /\ i \in Known /\ TypeOK
    BY <1>1, OnlyExecuteEnacts DEF IInv
  <2>2. ~VotedDown(proposals[i])
    BY <2>1, StateFacts DEF Execute
  <2>3. operations[i].status = "pending" /\ operations[i].readyAt <= now
    BY <2>1 DEF Execute, ExecuteOperation
  <2>4. proposals[i].voteEnd + proposals[i].executionDelay <= operations[i].readyAt
    BY <1>1, <2>1, <2>3 DEF IInv, OperationsFollow
  <2>5. /\ proposals[i].voteEnd \in Nat /\ proposals[i].executionDelay \in Nat /\ now \in Nat
        /\ operations[i].readyAt \in Nat
    BY <2>1, KnownFields DEF TypeOK
  <2>. QED  BY <2>1, <2>2, <2>3, <2>4, <2>5 DEF Execute
<1>2. IInv /\ [Next]_vars =>
        [\A i \in Ids : Enacted(i) =>
            /\ ~VotedDown(proposals[i])
            /\ now >= proposals[i].voteEnd + proposals[i].executionDelay
            /\ ~settings.windDownActive]_vars
  BY <1>1
<1>. QED  BY <1>2, Invariance, PTL DEF Spec, EnactedAfterVoteAndDelay

(***************************************************************************)
(* The proposals that pass by default can do one thing only: pay others,   *)
(* while the steward who proposed them is still in office.                 *)
(***************************************************************************)
THEOREM StewardBounded == Spec => StewardSpendsOnlyInOffice
<1>1. ASSUME IInv, Next, NEW i \in Ids, Enacted(i), proposals[i].type = "Steward"
      PROVE  /\ StewardActive(proposals[i].proposer)
             /\ proposals[i].proposer \notin proposals[i].payload.recipients
             /\ settings' = settings
  <2>1. Execute(i) /\ i \in Known
    BY <1>1, OnlyExecuteEnacts
  <2>2. StewardActive(proposals[i].proposer) /\ Perform(proposals[i].payload.call)
    BY <1>1, <2>1 DEF Execute, StewardStillActive
  <2>3. /\ proposals[i].payload.call = NoCall
        /\ proposals[i].proposer \notin proposals[i].payload.recipients
    BY <1>1, <2>1 DEF IInv, ProposalsSafe
  <2>4. Perform(NoCall) => settings' = settings
    BY DEF Perform, NoCall, ChangeSelectors, ChangeParams, ChangeCouncil, ChangeSteward,
       ChangeTimelock, AddExcludedAddress, SetWindDownContract
  <2>. QED  BY <2>2, <2>3, <2>4
<1>2. IInv /\ [Next]_vars =>
        [\A i \in Ids : Enacted(i) /\ proposals[i].type = "Steward" =>
            /\ StewardActive(proposals[i].proposer)
            /\ proposals[i].proposer \notin proposals[i].payload.recipients
            /\ settings' = settings]_vars
  BY <1>1
<1>. QED  BY <1>2, Invariance, PTL DEF Spec, StewardSpendsOnlyInOffice

(***************************************************************************)
(* A ratification that ejects a council ejects the one whose veto it       *)
(* denied, however the seat changed hands in between.                      *)
(***************************************************************************)
THEOREM EjectionIsAimed == Spec => OnlyTheVetoingCouncilIsEjected
<1>1. ASSUME IInv, Next, NEW r \in Ids, ratificationOf[r] # 0, Marks(r),
             settings'.securityCouncil # settings.securityCouncil
      PROVE  /\ settings.securityCouncil = proposals[r].proposer
             /\ VotedDown(proposals[r])
             /\ settings'.securityCouncil = NoOne
  <2>1. ~Execute(r)
    BY <1>1, StateFacts DEF IInv, Execute, RatificationsTyped, Executable
  <2>2. ResolveRatification(r)
    BY <1>1, <2>1, OnlyTwoMark
  <2>3. VotedDown(proposals[r]) /\ Eject(proposals[r].proposer)
    BY <1>1, <2>2 DEF ResolveRatification, UpholdVeto, DenyVeto
  <2>4. settings \in Settings
    BY <1>1 DEF IInv, TypeOK
  <2>. QED  BY <1>1, <2>3, <2>4 DEF Eject, Settings
<1>2. IInv /\ [Next]_vars =>
        [\A r \in Ids :
            /\ ratificationOf[r] # 0 /\ ~proposals[r].executed /\ proposals'[r].executed
            /\ settings'.securityCouncil # settings.securityCouncil
            => /\ settings.securityCouncil = proposals[r].proposer
               /\ VotedDown(proposals[r])
               /\ settings'.securityCouncil = NoOne]_vars
  BY <1>1 DEF Marks
<1>. QED  BY <1>2, Invariance, PTL DEF Spec, OnlyTheVetoingCouncilIsEjected

-----------------------------------------------------------------------------
(* What governance can turn its own settings into *)

\* Registries that do not change stay disjoint.
LEMMA SameSettingsDisjoint ==
    ASSUME RegistriesDisjoint, settings' = settings
    PROVE  RegistriesDisjoint'
  BY DEF RegistriesDisjoint

\* No call puts a selector in both.
LEMMA PerformDisjoint ==
    ASSUME TypeOK, RegistriesDisjoint, NEW call, WellTyped(call), Perform(call)
    PROVE  RegistriesDisjoint'
<1>1. settings \in Settings
  BY DEF TypeOK
<1>. USE DEF RegistriesDisjoint
<1>2. CASE settings' = settings
  BY <1>2
<1>3. CASE ChangeSelectors(call)
  BY <1>1, <1>3 DEF ChangeSelectors, Registered, Settings
<1>4. CASE ChangeParams(call)
  <2>1. CASE call.type = "Standard"
    BY <1>1, <1>4, <2>1 DEF ChangeParams, Settings
  <2>2. CASE call.type = "Extended"
    BY <1>1, <1>4, <2>2 DEF ChangeParams, Settings
  <2>. QED  BY <1>4, <2>1, <2>2 DEF ChangeParams, AllowedParams
<1>5. CASE ChangeCouncil(call)
  BY <1>1, <1>5 DEF ChangeCouncil, Settings
<1>6. CASE ChangeSteward(call)
  BY <1>1, <1>6 DEF ChangeSteward, Settings
<1>7. CASE ChangeTimelock(call)
  BY <1>1, <1>7 DEF ChangeTimelock, Settings
<1>8. CASE AddExcludedAddress(call)
  BY <1>1, <1>8 DEF AddExcludedAddress, Settings
<1>9. CASE SetWindDownContract(call)
  BY <1>1, <1>9 DEF SetWindDownContract, Settings
<1>10. CASE ActivateWindDown
  BY <1>1, <1>10 DEF ActivateWindDown, Settings
<1>. QED
  BY <1>2, <1>3, <1>4, <1>5, <1>6, <1>7, <1>8, <1>9, <1>10 DEF Perform

\* Nor does anything outside.
LEMMA OutsideDisjoint ==
    ASSUME TypeOK, RegistriesDisjoint, Outside
    PROVE  RegistriesDisjoint'
<1>1. settings \in Settings
  BY DEF TypeOK
<1>2. ASSUME NEW addrs \in SUBSET Holders, SetExcludedAddresses(addrs)
      PROVE  RegistriesDisjoint'
  BY <1>1, <1>2 DEF SetExcludedAddresses, Settings, RegistriesDisjoint
<1>3. ASSUME NEW sc \in Councils \cup {NoOne}, BootstrapCouncil(sc)
      PROVE  RegistriesDisjoint'
  BY <1>1, <1>3 DEF BootstrapCouncil, Settings, RegistriesDisjoint
<1>4. CASE SetWindDownActive
  BY <1>1, <1>4 DEF SetWindDownActive, ActivateWindDown, Settings, RegistriesDisjoint
<1>5. CASE settings' = settings
  BY <1>5, SameSettingsDisjoint
<1>. QED
  BY <1>2, <1>3, <1>4, <1>5 DEF Outside, Bootstrapping, Register, ClearDeployer, TokensMove,
     CrowdfundFinalizes, Mine

\* Nor does any step.
LEMMA NextDisjoint ==
    ASSUME TypeOK, RegistriesDisjoint, [Next]_vars
    PROVE  RegistriesDisjoint'
<1>1. CASE settings' = settings
  BY <1>1, SameSettingsDisjoint
<1>2. ASSUME NEW i \in Ids, Execute(i)
      PROVE  RegistriesDisjoint'
  <2>1. WellTyped(proposals[i].payload.call)
    BY PayloadsTyped DEF TypeOK, ProposalRecord
  <2>. QED  BY <1>2, <2>1, PerformDisjoint DEF Execute
<1>3. ASSUME NEW r \in Ids, ResolveRatification(r)
      PROVE  RegistriesDisjoint'
  <2>1. settings \in Settings
    BY DEF TypeOK
  <2>2. settings' = settings \/ Eject(proposals[r].proposer)
    BY <1>3 DEF ResolveRatification, UpholdVeto, DenyVeto
  <2>3. CASE Eject(proposals[r].proposer)
    BY <2>1, <2>3 DEF Eject, Settings, RegistriesDisjoint
  <2>. QED  BY <1>1, <2>2, <2>3
<1>4. CASE Outside
  BY <1>4, OutsideDisjoint
<1>5. CASE Proposing
  BY <1>1, <1>5 DEF Proposing, Propose, ProposeStewardSpend
<1>6. CASE Deciding
  BY <1>1, <1>2, <1>3, <1>6 DEF Deciding, CastVote, Queue, Cancel, Veto
<1>7. CASE UNCHANGED vars
  BY <1>1, <1>7 DEF vars
<1>. QED  BY <1>4, <1>5, <1>6, <1>7, Zenon DEF Next, Outside

(***************************************************************************)
(* No sequence of registry proposals puts a selector in both registries.   *)
(***************************************************************************)
THEOREM RegistriesStayDisjoint == Spec => []RegistriesDisjoint
<1>1. Init => RegistriesDisjoint
  BY GovernorSelectors DEF Init, RegistriesDisjoint
<1>2. TypeOK /\ RegistriesDisjoint /\ [Next]_vars => RegistriesDisjoint'
  BY NextDisjoint
<1>. QED  BY <1>1, <1>2, TypeCorrect, PTL DEF Spec

-----------------------------------------------------------------------------
(* What each step does to the proposals that exist *)

NewId == proposalCount + 1

OnlyTouches(touched) == \A j \in Ids \ touched : proposals'[j] = proposals[j]

\* A new proposal takes the next number and leaves the others alone.
LEMMA CreateEffect ==
    ASSUME TypeOK, NEW proposer, NEW type, NEW payload, Create(proposer, type, payload)
    PROVE  /\ NewId \in Ids \ Known /\ Known' = Known \cup {NewId}
           /\ proposals'[NewId] = NewProposal(proposer, type, payload)
           /\ OnlyTouches({NewId})
<1>. DEFINE q == NewProposal(proposer, type, payload)
<1>1. /\ proposalCount' = NewId /\ proposalCount < MaxProposals
      /\ proposals' = [proposals EXCEPT ![NewId] = q]
  BY DEF Create, NewId
<1>2. proposalCount \in Nat /\ MaxProposals \in Nat
  BY GovernorInputs DEF TypeOK
<1>3. NewId \in Ids /\ NewId \notin Known /\ Known' = Known \cup {NewId}
  BY <1>1, <1>2 DEF Ids, Known, NewId
<1>. HIDE DEF q
<1>4. proposals'[NewId] = q /\ OnlyTouches({NewId})
  BY <1>1, <1>3 DEF TypeOK, OnlyTouches
<1>. QED  BY <1>3, <1>4 DEF q

\* A step that rewrites one proposal leaves the others alone.
LEMMA RewriteEffect ==
    ASSUME TypeOK, NEW i \in Ids, NEW q, proposals' = [proposals EXCEPT ![i] = q]
    PROVE  proposals'[i] = q /\ OnlyTouches({i})
  BY DEF TypeOK, OnlyTouches

\* A veto cancels one proposal and creates its ratification.
LEMMA VetoEffect ==
    ASSUME TypeOK, NEW sc, NEW i \in Ids, Veto(sc, i)
    PROVE  /\ NewId \in Ids \ Known /\ Known' = Known \cup {NewId} /\ i \in Known
           /\ proposals'[NewId] = NewProposal(sc, "VetoRatification", NoPayload)
           /\ proposals'[i] = [proposals[i] EXCEPT !.canceled = TRUE]
           /\ OnlyTouches({i, NewId})
           /\ ratificationOf'[NewId] = i
           /\ \A j \in Ids \ {NewId} : ratificationOf'[j] = ratificationOf[j]
<1>. DEFINE rat == NewProposal(sc, "VetoRatification", NoPayload)
            q   == [proposals[i] EXCEPT !.canceled = TRUE]
<1>1. /\ i \in Known /\ proposalCount < MaxProposals /\ proposalCount' = NewId
      /\ proposals' = [proposals EXCEPT ![i].canceled = TRUE, ![NewId] = rat]
      /\ ratificationOf' = [ratificationOf EXCEPT ![NewId] = i]
  BY DEF Veto, MayVeto, NewId
<1>2. proposalCount \in Nat /\ MaxProposals \in Nat
  BY GovernorInputs DEF TypeOK
<1>3. NewId \in Ids /\ NewId \notin Known /\ Known' = Known \cup {NewId} /\ NewId # i
  BY <1>1, <1>2 DEF Ids, Known, NewId
<1>4. proposals' = [[proposals EXCEPT ![i] = q] EXCEPT ![NewId] = rat]
  BY <1>1, <1>3 DEF TypeOK
<1>. HIDE DEF rat, q
<1>5. proposals'[NewId] = rat /\ proposals'[i] = q /\ OnlyTouches({i, NewId})
  BY <1>3, <1>4 DEF TypeOK, OnlyTouches
<1>6. /\ ratificationOf'[NewId] = i
      /\ \A j \in Ids \ {NewId} : ratificationOf'[j] = ratificationOf[j]
  BY <1>1, <1>3 DEF TypeOK
<1>. QED  BY <1>1, <1>3, <1>5, <1>6 DEF rat, q

\* A denied veto closes the ratification and revives the vetoed proposal.
LEMMA DenyEffect ==
    ASSUME IInv, NEW r \in Known, ratificationOf[r] # 0, ~proposals[r].executed, DenyVeto(r)
    PROVE  /\ ratificationOf[r] \in Known /\ ratificationOf[r] # r
           /\ proposals'[r] = [proposals[r] EXCEPT !.executed = TRUE]
           /\ proposals'[ratificationOf[r]] =
                [proposals[ratificationOf[r]] EXCEPT !.canceled = FALSE,
                                                     !.vetoRatificationDenied = TRUE]
           /\ OnlyTouches({r, ratificationOf[r]})
<1>. DEFINE v   == ratificationOf[r]
            q   == [proposals[r] EXCEPT !.executed = TRUE]
            new == [proposals[v] EXCEPT !.canceled = FALSE, !.vetoRatificationDenied = TRUE]
<1>1. proposals' = [proposals EXCEPT ![r].executed = TRUE, ![v].canceled = FALSE,
                                     ![v].vetoRatificationDenied = TRUE]
  BY DEF DenyVeto
<1>2. OpenVeto(r) /\ v \in Known /\ proposals[r].type = "VetoRatification"
  BY DEF OpenVeto, IInv, RatificationsTyped
<1>3. TypeOK /\ Executable(proposals[v])
  BY <1>2 DEF IInv, OpenVetoes, QueuedHasPassed
<1>4. v # r /\ v \in Ids /\ r \in Ids
  BY <1>2, <1>3, KnownIds DEF Executable
<1>5. proposals' = [[proposals EXCEPT ![r] = q] EXCEPT ![v] = new]
  BY <1>1, <1>3, <1>4 DEF TypeOK
<1>. HIDE DEF v, q, new
<1>6. proposals'[r] = q /\ proposals'[v] = new /\ OnlyTouches({r, v})
  BY <1>3, <1>4, <1>5 DEF TypeOK, OnlyTouches
<1>. QED  BY <1>2, <1>4, <1>6 DEF v, q, new

-----------------------------------------------------------------------------
(* What a step never takes back *)

Stays(q, p) ==
    /\ q.type = p.type /\ q.payload = p.payload /\ q.voteStart = p.voteStart
    /\ p.executed => q.executed
    /\ p.vetoRatificationDenied => q.vetoRatificationDenied
    /\ p.canceled => q.canceled \/ q.vetoRatificationDenied

StillKnown(j) == j \in Known' /\ Stays(proposals'[j], proposals[j])

\* What is not touched stays.
LEMMA SameStays == ASSUME NEW p PROVE Stays(p, p)
  BY DEF Stays

\* Every flag the code sets only moves forward.
LEMMA FlagsStay ==
    ASSUME NEW p \in ProposalRecord
    PROVE  /\ Stays([p EXCEPT !.executed = TRUE], p)
           /\ Stays([p EXCEPT !.canceled = TRUE], p)
           /\ Stays([p EXCEPT !.queued = TRUE], p)
           /\ Stays([p EXCEPT !.canceled = FALSE, !.vetoRatificationDenied = TRUE], p)
  BY DEF Stays, ProposalRecord

\* A vote takes nothing back.
LEMMA CountStays ==
    ASSUME NEW p \in ProposalRecord, NEW voter, NEW support
    PROVE  Stays(Count(p, voter, support), p)
  BY DEF Stays, Count, ProposalRecord

\* A step that rewrites one proposal takes nothing back if the new one does not.
LEMMA RewriteStays ==
    ASSUME TypeOK, NEW i \in Ids, NEW q, proposals' = [proposals EXCEPT ![i] = q],
           Stays(q, proposals[i]), UNCHANGED proposalCount, NEW j \in Known
    PROVE  StillKnown(j)
<1>1. j \in Ids /\ Known' = Known
  BY KnownIds DEF Known
<1>2. proposals'[i] = q /\ OnlyTouches({i})
  BY RewriteEffect
<1>. QED  BY <1>1, <1>2, SameStays DEF StillKnown, OnlyTouches

\* No step changes what a proposal is, takes back that it was executed or its veto denied,
\* or revives it without denying its veto for good.
LEMMA NothingIsTakenBack ==
    ASSUME IInv, Next, NEW j \in Known
    PROVE  StillKnown(j)
<1>0. TypeOK /\ j \in Ids /\ \A i \in Ids : proposals[i] \in ProposalRecord
  BY KnownIds DEF IInv, TypeOK
<1>1. ASSUME NEW proposer, NEW type, NEW payload, Create(proposer, type, payload)
      PROVE  StillKnown(j)
  BY <1>0, <1>1, CreateEffect, SameStays DEF StillKnown, OnlyTouches
<1>2. ASSUME NEW sender \in Voters, NEW i \in Ids, NEW support \in Options,
             CastVote(sender, i, support)
      PROVE  StillKnown(j)
  <2>1. Stays(Count(proposals[i], sender, support), proposals[i])
    BY <1>0, CountStays
  <2>. QED  BY <1>0, <1>2, <2>1, RewriteStays DEF CastVote
<1>3. ASSUME NEW i \in Ids, Queue(i)
      PROVE  StillKnown(j)
  <2>1. proposals' = [proposals EXCEPT ![i] = [proposals[i] EXCEPT !.queued = TRUE]]
    BY <1>3 DEF Queue
  <2>. QED  BY <1>0, <1>3, <2>1, FlagsStay, RewriteStays DEF Queue
<1>4. ASSUME NEW i \in Ids, proposals' = [proposals EXCEPT ![i].executed = TRUE],
             UNCHANGED proposalCount
      PROVE  StillKnown(j)
  BY <1>0, <1>4, FlagsStay, RewriteStays
<1>5. ASSUME NEW sender \in Accounts, NEW i \in Ids, Cancel(sender, i)
      PROVE  StillKnown(j)
  <2>1. proposals' = [proposals EXCEPT ![i] = [proposals[i] EXCEPT !.canceled = TRUE]]
    BY <1>5 DEF Cancel
  <2>. QED  BY <1>0, <1>5, <2>1, FlagsStay, RewriteStays DEF Cancel
<1>6. ASSUME NEW sc \in Councils, NEW i \in Ids, Veto(sc, i)
      PROVE  StillKnown(j)
  <2>1. Stays([proposals[i] EXCEPT !.canceled = TRUE], proposals[i])
    BY <1>0, FlagsStay
  <2>. QED  BY <1>0, <1>6, <2>1, VetoEffect, SameStays DEF StillKnown, OnlyTouches
<1>7. ASSUME NEW r \in Ids, ResolveRatification(r)
      PROVE  StillKnown(j)
  <2>1. /\ r \in Known /\ ratificationOf[r] # 0 /\ ~proposals[r].executed
        /\ UNCHANGED proposalCount /\ (DenyVeto(r) \/ UpholdVeto(r))
    BY <1>7 DEF ResolveRatification
  <2>2. CASE UpholdVeto(r)
    BY <1>4, <2>1, <2>2 DEF UpholdVeto
  <2>3. CASE DenyVeto(r)
    <3>. DEFINE v   == ratificationOf[r]
                q   == [proposals[r] EXCEPT !.executed = TRUE]
                new == [proposals[v] EXCEPT !.canceled = FALSE, !.vetoRatificationDenied = TRUE]
    <3>1. proposals'[r] = q /\ proposals'[v] = new /\ OnlyTouches({r, v}) /\ v \in Known
      BY <2>1, <2>3, DenyEffect
    <3>2. v \in Ids
      BY <1>0, <3>1, KnownIds
    <3>3. Stays(q, proposals[r]) /\ Stays(new, proposals[v])
      BY <1>0, <3>2, FlagsStay
    <3>4. j \in Known'
      BY <2>1 DEF Known
    <3>. HIDE DEF v, q, new
    <3>5. CASE j \in {r, v}
      BY <3>1, <3>3, <3>4, <3>5 DEF StillKnown
    <3>6. CASE j \notin {r, v}
      BY <1>0, <3>1, <3>4, <3>6, SameStays DEF StillKnown, OnlyTouches
    <3>. QED  BY <3>5, <3>6
  <2>. QED  BY <2>1, <2>2, <2>3
<1>8. CASE Outside
  <2>1. UNCHANGED <<proposalVars, operations>>
    BY <1>8, OutsideEffect DEF IInv
  <2>. QED  BY <2>1, SameStays DEF StillKnown, proposalVars, Known
<1>9. CASE Proposing
  BY <1>1, <1>9 DEF Proposing, Propose, ProposeStewardSpend
<1>10. CASE Deciding
  <2>1. ASSUME NEW i \in Ids, Execute(i)
        PROVE  StillKnown(j)
    BY <1>4, <2>1 DEF Execute
  <2>. QED  BY <1>2, <1>3, <1>5, <1>6, <1>7, <1>10, <2>1 DEF Deciding, Options
<1>. QED  BY <1>8, <1>9, <1>10, Zenon DEF Next, Outside

-----------------------------------------------------------------------------
(* Who may use the lower quorum *)

AddedByVote(s) ==
    \E j \in Known : /\ proposals[j].executed
                     /\ proposals[j].payload.call.kind = "addStandardSelector"
                     /\ proposals[j].payload.call.arg = s

\* Inductive with StandardWasRegistered: the registry itself holds nothing else.
StandardByVote ==
    \A s \in settings.standardSelectors : s \in InitialStandardSelectors \/ AddedByVote(s)

\* An enacted registration stays enacted.
LEMMA AddedStays ==
    ASSUME IInv, Next, NEW s, AddedByVote(s)
    PROVE  AddedByVote(s)'
<1>1. PICK j \in Known : /\ proposals[j].executed
                         /\ proposals[j].payload.call.kind = "addStandardSelector"
                         /\ proposals[j].payload.call.arg = s
  BY DEF AddedByVote
<1>2. StillKnown(j)
  BY NothingIsTakenBack
<1>. QED  BY <1>1, <1>2 DEF AddedByVote, StillKnown, Stays

\* A call adds at most its own argument to the standard registry.
LEMMA PerformRegisters ==
    ASSUME settings \in Settings, NEW call, Perform(call), NEW s \in settings'.standardSelectors
    PROVE  s \in settings.standardSelectors \/ (call.kind = "addStandardSelector" /\ call.arg = s)
<1>1. CASE settings' = settings
  BY <1>1
<1>2. CASE ChangeSelectors(call)
  BY <1>2 DEF ChangeSelectors, Settings
<1>3. CASE ChangeParams(call)
  BY <1>3 DEF ChangeParams, AllowedParams, Settings
<1>4. CASE ChangeCouncil(call)
  BY <1>4 DEF ChangeCouncil, Settings
<1>5. CASE ChangeSteward(call)
  BY <1>5 DEF ChangeSteward, Settings
<1>6. CASE ChangeTimelock(call)
  BY <1>6 DEF ChangeTimelock, Settings
<1>7. CASE AddExcludedAddress(call)
  BY <1>7 DEF AddExcludedAddress, Settings
<1>8. CASE SetWindDownContract(call)
  BY <1>8 DEF SetWindDownContract, Settings
<1>9. CASE ActivateWindDown
  BY <1>9 DEF ActivateWindDown, Settings
<1>. QED  BY <1>1, <1>2, <1>3, <1>4, <1>5, <1>6, <1>7, <1>8, <1>9 DEF Perform

\* Nothing outside writes the standard registry.
LEMMA OutsideRegisters ==
    ASSUME settings \in Settings, Outside
    PROVE  settings'.standardSelectors = settings.standardSelectors
<1>1. ASSUME NEW addrs \in SUBSET Holders, SetExcludedAddresses(addrs)
      PROVE  settings'.standardSelectors = settings.standardSelectors
  BY <1>1 DEF SetExcludedAddresses, Settings
<1>2. ASSUME NEW sc \in Councils \cup {NoOne}, BootstrapCouncil(sc)
      PROVE  settings'.standardSelectors = settings.standardSelectors
  BY <1>2 DEF BootstrapCouncil, Settings
<1>3. CASE SetWindDownActive
  BY <1>3 DEF SetWindDownActive, ActivateWindDown, Settings
<1>4. CASE settings' = settings
  BY <1>4
<1>. QED
  BY <1>1, <1>2, <1>3, <1>4 DEF Outside, Bootstrapping, Register, ClearDeployer, TokensMove,
     CrowdfundFinalizes, Mine

\* Only an executed proposal writes the standard registry.
LEMMA OnlyExecuteRegisters ==
    ASSUME IInv, Next, NEW s \in settings'.standardSelectors, s \notin settings.standardSelectors
    PROVE  \E i \in Known : /\ Execute(i)
                            /\ proposals[i].payload.call.kind = "addStandardSelector"
                            /\ proposals[i].payload.call.arg = s
<1>1. settings \in Settings
  BY DEF IInv, TypeOK
<1>2. settings' # settings
  OBVIOUS
<1>3. ASSUME NEW r \in Ids, ResolveRatification(r)
      PROVE  FALSE
  <2>1. Eject(proposals[r].proposer)
    BY <1>2, <1>3 DEF ResolveRatification, UpholdVeto, DenyVeto
  <2>. QED  BY <1>1, <2>1 DEF Eject, Settings
<1>4. ~Outside
  BY <1>1, OutsideRegisters
<1>5. ~Proposing
  BY <1>2 DEF Proposing, Propose, ProposeStewardSpend
<1>6. \E i \in Ids : Execute(i)
  BY <1>2, <1>3, <1>4, <1>5 DEF Next, Outside, Deciding, CastVote, Queue, Cancel, Veto
<1>7. PICK i \in Ids : Execute(i)
  BY <1>6
<1>8. i \in Known /\ Perform(proposals[i].payload.call)
  BY <1>7 DEF Execute
<1>9. /\ proposals[i].payload.call.kind = "addStandardSelector"
      /\ proposals[i].payload.call.arg = s
  BY <1>1, <1>8, PerformRegisters
<1>. QED  BY <1>7, <1>8, <1>9

\* The registry grows only by votes.
LEMMA RegistryKept ==
    ASSUME IInv, Next, StandardByVote
    PROVE  StandardByVote'
<1>. SUFFICES ASSUME NEW s \in settings'.standardSelectors, s \notin InitialStandardSelectors
              PROVE  AddedByVote(s)'
  BY DEF StandardByVote
<1>1. CASE s \in settings.standardSelectors
  BY <1>1, AddedStays DEF StandardByVote
<1>2. CASE s \notin settings.standardSelectors
  <2>1. PICK i \in Known : /\ Execute(i)
                           /\ proposals[i].payload.call.kind = "addStandardSelector"
                           /\ proposals[i].payload.call.arg = s
    BY <1>2, OnlyExecuteRegisters
  <2>2. StillKnown(i) /\ i \in Ids /\ TypeOK
    BY NothingIsTakenBack, KnownIds DEF IInv
  <2>3. proposals'[i].executed
    BY <2>1, <2>2 DEF Execute, TypeOK, ProposalRecord
  <2>. QED  BY <2>1, <2>2, <2>3 DEF AddedByVote, StillKnown, Stays
<1>. QED  BY <1>1, <1>2

\* What becomes a standard proposal has only selectors of the standard registry.
LEMMA NewStandard ==
    ASSUME IInv, Next, NEW j \in Known', j \notin Known, proposals'[j].type = "Standard"
    PROVE  Selectors(proposals'[j].payload) \subseteq settings.standardSelectors
<1>0. TypeOK
  BY DEF IInv
<1>1. ASSUME NEW sender \in Voters, NEW declared \in DeclaredTypes,
             NEW payload \in Payloads \cup {NoPayload}, Propose(sender, declared, payload)
      PROVE  Selectors(proposals'[j].payload) \subseteq settings.standardSelectors
  <2>. DEFINE type == IF declared = "Standard" THEN Classify(declared, payload) ELSE declared
  <2>1. Create(sender, type, payload)
    BY <1>1 DEF Propose
  <2>. HIDE DEF type
  <2>2. j = NewId /\ proposals'[j] = NewProposal(sender, type, payload)
    BY <1>0, <2>1, CreateEffect
  <2>3. type = "Standard" /\ proposals'[j].payload = payload
    BY <2>2, NewProposalFields
  <2>4. Selectors(payload) \subseteq settings.standardSelectors
    BY <2>3 DEF type, Classify
  <2>. QED  BY <2>3, <2>4
<1>2. ASSUME NEW sender \in Stewards, NEW payload \in Payloads,
             ProposeStewardSpend(sender, payload.stewardSpend, payload.recipients)
      PROVE  FALSE
  <2>. DEFINE spend == [NoPayload EXCEPT !.stewardSpend = payload.stewardSpend,
                                         !.recipients = payload.recipients]
  <2>1. Create(sender, "Steward", spend)
    BY <1>2 DEF ProposeStewardSpend
  <2>. HIDE DEF spend
  <2>2. proposals'[j] = NewProposal(sender, "Steward", spend)
    BY <1>0, <2>1, CreateEffect
  <2>. QED  BY <2>2, NewProposalFields
<1>3. ASSUME NEW sc \in Councils, NEW i \in Ids, Veto(sc, i)
      PROVE  FALSE
  <2>1. proposals'[j] = NewProposal(sc, "VetoRatification", NoPayload)
    BY <1>0, <1>3, VetoEffect
  <2>. QED  BY <2>1, NewProposalFields
<1>4. CASE Outside
  BY <1>4, OutsideEffect DEF IInv, proposalVars, Known
<1>5. CASE Proposing
  BY <1>1, <1>2, <1>5 DEF Proposing
<1>6. CASE Deciding
  <2>1. CASE \E sc \in Councils, i \in Ids : Veto(sc, i)
    BY <1>3, <2>1
  <2>2. CASE UNCHANGED proposalCount
    BY <2>2 DEF Known
  <2>. QED  BY <1>6, <2>1, <2>2 DEF Deciding, CastVote, Queue, Execute, ResolveRatification, Cancel
<1>. QED  BY <1>4, <1>5, <1>6, Zenon DEF Next, Outside

\* The lower quorum stays within the registry in every step.
LEMMA StandardKept ==
    ASSUME IInv, Next, StandardByVote, StandardWasRegistered
    PROVE  StandardWasRegistered'
<1>. SUFFICES ASSUME NEW j \in Known', proposals'[j].type = "Standard",
                     NEW s \in Selectors(proposals'[j].payload), s \notin InitialStandardSelectors
              PROVE  AddedByVote(s)'
  BY DEF StandardWasRegistered, AddedByVote
<1>1. AddedByVote(s)
  <2>1. CASE j \in Known
    <3>1. StillKnown(j)
      BY <2>1, NothingIsTakenBack
    <3>2. proposals[j].type = "Standard" /\ s \in Selectors(proposals[j].payload)
      BY <3>1 DEF StillKnown, Stays
    <3>. QED  BY <2>1, <3>2 DEF StandardWasRegistered, AddedByVote
  <2>2. CASE j \notin Known
    BY <2>2, NewStandard DEF StandardByVote
  <2>. QED  BY <2>1, <2>2
<1>. QED  BY <1>1, AddedStays

(***************************************************************************)
(* The lower quorum of a standard proposal reaches only what was           *)
(* registered at deployment or by a proposal that passed: classification   *)
(* at proposal time plus registries that only votes can extend and that    *)
(* never overlap.                                                          *)
(***************************************************************************)
THEOREM StandardIsRegistered == Spec => []OnlyRegisteredIsStandard
<1>. DEFINE Both == StandardByVote /\ StandardWasRegistered
<1>1. Init => Both
  BY DEF Init, StandardByVote, StandardWasRegistered, Known
<1>2. IInv /\ Both /\ [Next]_vars => Both'
  <2>1. ASSUME IInv, Both, Next
        PROVE  Both'
    BY <2>1, RegistryKept, StandardKept
  <2>2. ASSUME Both, UNCHANGED vars
        PROVE  Both'
    BY <2>2 DEF vars, proposalVars, StandardByVote, AddedByVote, StandardWasRegistered, Known
  <2>. QED  BY <2>1, <2>2
<1>3. Both /\ RegistriesDisjoint => OnlyRegisteredIsStandard
  BY DEF OnlyRegisteredIsStandard
<1>. HIDE DEF Both
<1>. QED  BY <1>1, <1>2, <1>3, Invariance, RegistriesStayDisjoint, PTL DEF Spec

-----------------------------------------------------------------------------
(* The governor implements ProposalLifecycle *)

\* A proposal is vetoed at most once: its veto stands or was denied for good.
VetoedOnce ==
    \A r \in Known : ratificationOf[r] # 0 =>
        \/ proposals[ratificationOf[r]].canceled
        \/ proposals[ratificationOf[r]].vetoRatificationDenied

\* The vote on a veto starts at once and nobody can withdraw it.
RatificationsRun ==
    \A r \in Known : proposals[r].type = "VetoRatification" =>
        ~proposals[r].canceled /\ proposals[r].voteStart <= now

\* state() as a function of the proposal and the time.
StateOf(p, t) ==
    IF p.canceled THEN "Canceled"
    ELSE IF p.executed THEN "Executed"
    ELSE IF t < p.voteStart THEN "Pending"
    ELSE IF t <= p.voteEnd THEN "Active"
    ELSE IF VotedDown(p) THEN "Defeated"
    ELSE IF p.type \in {"VetoRatification", "Signaling"} THEN "Succeeded"
    ELSE IF p.queued THEN "Queued"
    ELSE IF t > p.voteEnd + QUEUE_GRACE_PERIOD THEN "Defeated"
    ELSE "Succeeded"

\* state() depends on the proposal and the time only.
LEMMA StateIs == \A i : State(i) = StateOf(proposals[i], now)
  BY DEF State, StateOf

\* The phase of a proposal is its state, or None before it exists.
LEMMA PhaseIs ==
    ASSUME NEW i \in Ids
    PROVE  /\ i \in Known => Phase[i] = StateOf(proposals[i], now)
           /\ i \notin Known => Phase[i] = "None"
  BY StateIs DEF Phase

\* The same after a step.
LEMMA NextPhaseIs ==
    ASSUME NEW i \in Ids
    PROVE  /\ i \in Known' => Phase'[i] = StateOf(proposals'[i], now')
           /\ i \notin Known' => Phase'[i] = "None"
<1>1. Phase'[i] = IF i \in Known' THEN State(i)' ELSE "None"
  BY DEF Phase
<1>2. State(i)' = StateOf(proposals'[i], now')
  BY DEF State, StateOf, VotedDown, PassesByDefault, QuorumReached, Quorum
<1>. QED  BY <1>1, <1>2

\* A vote counts while the proposal is active and leaves it active.
LEMMA CountKeepsState ==
    ASSUME NEW p \in ProposalRecord, NEW voter, NEW support, NEW t \in Nat,
           p.voteStart <= t, t <= p.voteEnd
    PROVE  StateOf(Count(p, voter, support), t) = StateOf(p, t)
<1>. SUFFICES ASSUME NEW q, q = Count(p, voter, support)
              PROVE  StateOf(q, t) = StateOf(p, t)
  OBVIOUS
<1>1. /\ q.canceled = p.canceled /\ q.executed = p.executed
      /\ q.voteStart = p.voteStart /\ q.voteEnd = p.voteEnd
  BY DEF Count, ProposalRecord
<1>2. p.voteStart \in Nat /\ p.voteEnd \in Nat
  BY DEF ProposalRecord
<1>3. ~(t < p.voteStart)
  BY <1>2
<1>. QED  BY <1>1, <1>3, Zenon DEF StateOf

\* What the passing of time does to a proposal.
LEMMA TimePasses ==
    ASSUME NEW p \in ProposalRecord, NEW t \in Nat, p.voteStart <= p.voteEnd,
           p.queued => Executable(p) /\ p.voteEnd < t
    PROVE  \/ StateOf(p, t + 1) = StateOf(p, t)
           \/ StateOf(p, t) = "Pending" /\ StateOf(p, t + 1) = "Active"
           \/ StateOf(p, t) = "Active" /\ StateOf(p, t + 1) \in {"Succeeded", "Defeated"}
           \/ /\ StateOf(p, t) = "Succeeded" /\ StateOf(p, t + 1) = "Defeated"
              /\ p.type # "VetoRatification"
<1>1. /\ p.voteStart \in Nat /\ p.voteEnd \in Nat /\ QUEUE_GRACE_PERIOD \in Nat
      /\ p.type \in Types
  BY GovernorInputs DEF ProposalRecord
<1>2. CASE p.canceled \/ p.executed
  BY <1>2 DEF StateOf
<1>3. CASE ~p.canceled /\ ~p.executed /\ t <= p.voteEnd
  <2>1. CASE t + 1 <= p.voteEnd
    BY <1>1, <1>3, <2>1 DEF StateOf
  <2>2. CASE t = p.voteEnd
    <3>1. StateOf(p, t) = "Active"
      BY <1>1, <1>3, <2>2 DEF StateOf
    <3>2. ~p.queued /\ t + 1 > p.voteEnd /\ ~(t + 1 < p.voteStart)
      BY <1>1, <2>2
    <3>3. StateOf(p, t + 1) \in {"Succeeded", "Defeated"}
      BY <1>1, <1>3, <3>2 DEF StateOf
    <3>. QED  BY <3>1, <3>3
  <2>. QED  BY <1>1, <1>3, <2>1, <2>2
<1>4. CASE ~p.canceled /\ ~p.executed /\ t > p.voteEnd
  <2>1. /\ ~(t < p.voteStart) /\ ~(t <= p.voteEnd)
        /\ ~(t + 1 < p.voteStart) /\ ~(t + 1 <= p.voteEnd)
        /\ t > p.voteEnd + QUEUE_GRACE_PERIOD => t + 1 > p.voteEnd + QUEUE_GRACE_PERIOD
    BY <1>1, <1>4
  <2>. QED  BY <1>4, <2>1 DEF StateOf
<1>. QED  BY <1>1, <1>2, <1>3, <1>4

\* Staying in a phase is a step of the life cycle.
LEMMA Unmoved ==
    ASSUME NEW j \in Ids, Phase'[j] = Phase[j], ratificationOf'[j] = ratificationOf[j]
    PROVE  Lifecycle!Step(j)
  BY DEF Lifecycle!Step

\* A proposal a step does not touch, at the same time, stays in its phase.
LEMMA Untouched ==
    ASSUME NEW j \in Ids, proposals'[j] = proposals[j], now' = now,
           j \in Known' <=> j \in Known
    PROVE  Phase'[j] = Phase[j]
  BY PhaseIs, NextPhaseIs

\* A step that rewrites one proposal moves at most its phase.
LEMMA OneMoves ==
    ASSUME TypeOK, NEW i \in Ids, NEW q, proposals' = [proposals EXCEPT ![i] = q],
           UNCHANGED <<now, proposalCount, ratificationOf>>,
           Lifecycle!Step(i), NEW j \in Ids
    PROVE  Lifecycle!Step(j)
<1>1. CASE j = i
  BY <1>1
<1>2. CASE j # i
  <2>1. proposals'[j] = proposals[j] /\ Known' = Known
    BY <1>2, RewriteEffect DEF OnlyTouches, Known
  <2>. QED  BY <2>1, Untouched, Unmoved
<1>. QED  BY <1>1, <1>2

\* castVote() moves no phase.
LEMMA CastVoteMoves ==
    ASSUME IInv, NEW sender \in Voters, NEW i \in Ids, NEW support \in Options,
           CastVote(sender, i, support), NEW j \in Ids
    PROVE  Lifecycle!Step(j)
<1>. DEFINE q == Count(proposals[i], sender, support)
<1>0. TypeOK /\ proposals[i] \in ProposalRecord /\ now \in Nat
  BY DEF IInv, TypeOK
<1>1. /\ i \in Known /\ proposals[i].voteStart <= now /\ now <= proposals[i].voteEnd
      /\ proposals' = [proposals EXCEPT ![i] = q]
      /\ UNCHANGED <<now, proposalCount, ratificationOf>>
  BY DEF CastVote
<1>2. StateOf(q, now) = StateOf(proposals[i], now)
  BY <1>0, <1>1, CountKeepsState
<1>. HIDE DEF q
<1>3. proposals'[i] = q /\ Known' = Known
  BY <1>0, <1>1, RewriteEffect DEF Known
<1>4. Phase'[i] = Phase[i]
  BY <1>1, <1>2, <1>3, PhaseIs, NextPhaseIs
<1>5. Lifecycle!Step(i)
  BY <1>1, <1>4, Unmoved
<1>. QED  BY <1>0, <1>1, <1>5, OneMoves

\* queue() takes a proposal from Succeeded to Queued.
LEMMA QueueMoves ==
    ASSUME IInv, NEW i \in Ids, Queue(i), NEW j \in Ids
    PROVE  Lifecycle!Step(j)
<1>. DEFINE p == proposals[i]
            q == [p EXCEPT !.queued = TRUE]
<1>0. TypeOK /\ p \in ProposalRecord /\ now \in Nat
  BY DEF IInv, TypeOK
<1>1. /\ i \in Known /\ State(i) = "Succeeded" /\ ~settings.windDownActive
      /\ p.type \notin {"VetoRatification", "Signaling"}
      /\ proposals' = [proposals EXCEPT ![i] = q]
      /\ UNCHANGED <<now, proposalCount, ratificationOf>>
  BY DEF Queue
<1>2. SamePromise(q, p) /\ q.canceled = p.canceled /\ q.executed = p.executed /\ q.queued
  BY <1>0, FlagsKeepPromise DEF ProposalRecord
<1>3. ratificationOf[i] = 0
  BY <1>1 DEF IInv, RatificationsTyped
<1>4. proposals'[i] = q /\ Known' = Known
  BY <1>0, <1>1, RewriteEffect DEF Known
<1>5. /\ ~p.canceled /\ ~p.executed /\ p.voteEnd < now /\ ~VotedDown(p)
      /\ p.voteStart \in Nat /\ p.voteEnd \in Nat /\ p.voteStart <= p.voteEnd
  BY <1>0, <1>1, StateFacts DEF ProposalRecord, IInv, ProposalsSafe
<1>. HIDE DEF p, q
<1>6. VotedDown(q) <=> VotedDown(p)
  BY <1>2, SamePromiseFacts
<1>7. StateOf(q, now) = "Queued"
  BY <1>0, <1>1, <1>2, <1>5, <1>6 DEF StateOf, SamePromise
<1>8. Phase[i] = "Succeeded" /\ Phase'[i] = "Queued"
  BY <1>1, <1>4, <1>7, StateIs, PhaseIs, NextPhaseIs
<1>9. Lifecycle!Step(i)
  BY <1>1, <1>3, <1>8 DEF Lifecycle!Step, Lifecycle!Queue, Lifecycle!Moves,
     Lifecycle!IsRatification
<1>. QED  BY <1>0, <1>1, <1>9, OneMoves

\* execute() takes a proposal from Queued to Executed.
LEMMA ExecuteMoves ==
    ASSUME IInv, NEW i \in Ids, Execute(i), NEW j \in Ids
    PROVE  Lifecycle!Step(j)
<1>. DEFINE p == proposals[i]
            q == [p EXCEPT !.executed = TRUE]
<1>0. TypeOK /\ p \in ProposalRecord
  BY DEF IInv, TypeOK
<1>1. /\ i \in Known /\ State(i) = "Queued" /\ ~settings.windDownActive
      /\ proposals' = [proposals EXCEPT ![i] = q]
      /\ UNCHANGED <<now, proposalCount, ratificationOf>>
  BY DEF Execute
<1>2. q.canceled = p.canceled /\ q.executed /\ ~p.canceled
  BY <1>0, <1>1, StateFacts DEF ProposalRecord
<1>3. proposals'[i] = q /\ Known' = Known
  BY <1>0, <1>1, RewriteEffect DEF Known
<1>. HIDE DEF p, q
<1>4. StateOf(q, now) = "Executed"
  BY <1>2 DEF StateOf
<1>5. Phase[i] = "Queued" /\ Phase'[i] = "Executed"
  BY <1>1, <1>3, <1>4, StateIs, PhaseIs, NextPhaseIs
<1>6. Lifecycle!Step(i)
  BY <1>1, <1>5 DEF Lifecycle!Step, Lifecycle!Enact, Lifecycle!Moves
<1>. QED  BY <1>0, <1>1, <1>6, OneMoves

\* cancel() takes a proposal from Pending or Active to Canceled.
LEMMA CancelMoves ==
    ASSUME IInv, NEW sender, NEW i \in Ids, Cancel(sender, i), NEW j \in Ids
    PROVE  Lifecycle!Step(j)
<1>. DEFINE q == [proposals[i] EXCEPT !.canceled = TRUE]
<1>0. TypeOK /\ proposals[i] \in ProposalRecord
  BY DEF IInv, TypeOK
<1>1. /\ i \in Known /\ State(i) \in {"Pending", "Active"}
      /\ proposals' = [proposals EXCEPT ![i] = q]
      /\ UNCHANGED <<now, proposalCount, ratificationOf>>
  BY DEF Cancel
<1>2. q.canceled
  BY <1>0 DEF ProposalRecord
<1>3. proposals'[i] = q /\ Known' = Known
  BY <1>0, <1>1, RewriteEffect DEF Known
<1>. HIDE DEF q
<1>4. Phase[i] \in {"Pending", "Active"} /\ Phase'[i] = "Canceled"
  BY <1>1, <1>2, <1>3, StateIs, PhaseIs, NextPhaseIs DEF StateOf
<1>5. Lifecycle!Step(i)
  BY <1>1, <1>4 DEF Lifecycle!Step, Lifecycle!Withdraw, Lifecycle!Moves
<1>. QED  BY <1>0, <1>1, <1>5, OneMoves

\* A new proposal starts Pending or Active.
LEMMA CreateMoves ==
    ASSUME IInv, NEW proposer, NEW type \in Types, NEW payload,
           Create(proposer, type, payload), ~settings.windDownActive,
           UNCHANGED <<now, ratificationOf>>, NEW j \in Ids
    PROVE  Lifecycle!Step(j)
<1>. DEFINE q == NewProposal(proposer, type, payload)
<1>0. TypeOK /\ SettingsSafe /\ now \in Nat
  BY DEF IInv, TypeOK
<1>1. /\ NewId \in Ids \ Known /\ Known' = Known \cup {NewId}
      /\ proposals'[NewId] = q /\ OnlyTouches({NewId})
  BY <1>0, CreateEffect
<1>2. /\ ~q.canceled /\ ~q.executed /\ q.voteStart <= q.voteEnd
      /\ q.voteStart = now + ParamsOf(type).votingDelay
      /\ q.voteEnd = now + ParamsOf(type).votingDelay + ParamsOf(type).votingPeriod
  BY <1>0, NewProposalFields, NewProposalSafe
<1>3. ParamsOf(type).votingDelay \in Nat /\ ParamsOf(type).votingPeriod \in Nat
  BY <1>0, ParamsTyped DEF Params
<1>. HIDE DEF q
<1>4. StateOf(q, now) \in {"Pending", "Active"}
  BY <1>0, <1>2, <1>3 DEF StateOf
<1>5. CASE j = NewId
  <2>1. Phase[j] = "None" /\ Phase'[j] \in {"Pending", "Active"}
    BY <1>1, <1>4, <1>5, PhaseIs, NextPhaseIs
  <2>2. ratificationOf'[j] = 0
    BY <1>1, <1>5 DEF IInv, FreshIds
  <2>. QED  BY <2>1, <2>2 DEF Lifecycle!Step, Lifecycle!Create
<1>6. CASE j # NewId
  BY <1>1, <1>6, Untouched, Unmoved DEF OnlyTouches
<1>. QED  BY <1>5, <1>6


\* veto() cancels a queued proposal that was never vetoed and opens its ratification.
LEMMA VetoMoves ==
    ASSUME IInv, VetoedOnce, NEW sc, NEW i \in Ids, Veto(sc, i), NEW j \in Ids
    PROVE  Lifecycle!Step(j)
<1>. DEFINE rat == NewProposal(sc, "VetoRatification", NoPayload)
            q   == [proposals[i] EXCEPT !.canceled = TRUE]
<1>0. TypeOK /\ SettingsSafe /\ now \in Nat /\ proposals[i] \in ProposalRecord
  BY DEF IInv, TypeOK
<1>1. /\ NewId \in Ids \ Known /\ Known' = Known \cup {NewId} /\ i \in Known
      /\ proposals'[NewId] = rat /\ proposals'[i] = q /\ OnlyTouches({i, NewId})
      /\ ratificationOf'[NewId] = i
      /\ \A k \in Ids \ {NewId} : ratificationOf'[k] = ratificationOf[k]
  BY <1>0, VetoEffect
<1>2. /\ State(i) = "Queued" /\ ~proposals[i].vetoRatificationDenied /\ now' = now
  BY DEF Veto, MayVeto
<1>3. q.canceled /\ ~proposals[i].canceled
  BY <1>0, <1>1, <1>2, StateFacts DEF ProposalRecord
<1>4. ~ \E r \in Ids : ratificationOf[r] = i
  <2>. SUFFICES ASSUME NEW r \in Ids, ratificationOf[r] = i
                PROVE  FALSE
    OBVIOUS
  <2>1. i # 0
    BY DEF Ids
  <2>2. r \in Known
    BY <2>1 DEF IInv, FreshIds
  <2>. QED  BY <1>2, <1>3, <2>1, <2>2 DEF VetoedOnce
<1>5. ~rat.canceled /\ ~rat.executed /\ rat.voteStart = now /\ now <= rat.voteEnd
  <2>1. ParamsOf("VetoRatification").votingDelay = 0
    BY DEF ParamsOf
  <2>2. rat.voteStart <= rat.voteEnd
    BY <1>0, NewProposalSafe DEF Types
  <2>3. rat.voteStart = now + 0
    BY <2>1, NewProposalFields
  <2>4. rat.voteStart = now
    BY <1>0, <2>3
  <2>. QED  BY <2>2, <2>4, NewProposalFields
<1>. HIDE DEF rat, q
<1>6. StateOf(rat, now) = "Active"
  BY <1>0, <1>5 DEF StateOf
<1>7. Phase[i] = "Queued" /\ Phase'[i] = "Canceled"
  BY <1>1, <1>2, <1>3, StateIs, PhaseIs, NextPhaseIs DEF StateOf
<1>8. CASE j = NewId
  <2>1. Phase[j] = "None" /\ Phase'[j] = "Active"
    BY <1>1, <1>2, <1>6, <1>8, PhaseIs, NextPhaseIs
  <2>. QED  BY <1>1, <1>7, <1>8, <2>1 DEF Lifecycle!Step, Lifecycle!Create, Lifecycle!Moves
<1>9. CASE j = i
  BY <1>1, <1>4, <1>7, <1>9 DEF Lifecycle!Step, Lifecycle!Veto, Lifecycle!Moves
<1>10. CASE j \notin {i, NewId}
  BY <1>1, <1>2, <1>10, Untouched, Unmoved DEF OnlyTouches
<1>. QED  BY <1>8, <1>9, <1>10

\* resolveRatification() closes a ratification and restores what a lost one vetoed.
LEMMA ResolveMoves ==
    ASSUME IInv, RatificationsRun, NEW r \in Ids, ResolveRatification(r), NEW j \in Ids
    PROVE  Lifecycle!Step(j)
<1>. DEFINE p == proposals[r]
            q == [p EXCEPT !.executed = TRUE]
<1>0. TypeOK /\ p \in ProposalRecord /\ now \in Nat
  BY DEF IInv, TypeOK
<1>1. /\ r \in Known /\ ratificationOf[r] # 0 /\ now > p.voteEnd /\ ~p.executed
      /\ UNCHANGED <<now, proposalCount, ratificationOf>>
      /\ IF VotedDown(p) THEN DenyVeto(r) ELSE UpholdVeto(r)
  BY DEF ResolveRatification
<1>2. p.type = "VetoRatification" /\ ~p.canceled /\ p.voteStart <= now
  BY <1>1 DEF IInv, RatificationsTyped, RatificationsRun
<1>3. Known' = Known
  BY <1>1 DEF Known
<1>4. ~q.canceled /\ q.executed
  BY <1>0, <1>2 DEF ProposalRecord
<1>5. p.voteStart \in Nat /\ p.voteEnd \in Nat
  BY <1>0 DEF ProposalRecord
<1>. HIDE DEF p, q
<1>6. /\ VotedDown(p) => StateOf(p, now) = "Defeated"
      /\ ~VotedDown(p) => StateOf(p, now) = "Succeeded"
  BY <1>0, <1>1, <1>2, <1>5 DEF StateOf
<1>7. ASSUME proposals'[r] = q
      PROVE  /\ VotedDown(p) => Phase[r] = "Defeated"
             /\ Phase[r] \in {"Succeeded", "Defeated"} /\ Phase'[r] = "Executed"
  BY <1>1, <1>3, <1>4, <1>6, <1>7, PhaseIs, NextPhaseIs DEF StateOf, p
<1>8. ASSUME proposals'[r] = q
      PROVE  Lifecycle!Step(r)
  BY <1>1, <1>7, <1>8 DEF Lifecycle!Step, Lifecycle!Resolve, Lifecycle!Moves,
     Lifecycle!IsRatification
<1>9. CASE UpholdVeto(r)
  <2>1. proposals' = [proposals EXCEPT ![r] = q]
    BY <1>9 DEF UpholdVeto, p, q
  <2>2. proposals'[r] = q
    BY <1>0, <2>1, RewriteEffect
  <2>. QED  BY <1>0, <1>1, <1>8, <2>1, <2>2, OneMoves
<1>10. CASE VotedDown(p) /\ DenyVeto(r)
  <2>. DEFINE v   == ratificationOf[r]
              old == proposals[v]
              new == [old EXCEPT !.canceled = FALSE, !.vetoRatificationDenied = TRUE]
  <2>1. /\ v \in Known /\ v # r /\ proposals'[r] = q /\ proposals'[v] = new
        /\ OnlyTouches({r, v})
    BY <1>1, <1>10, DenyEffect DEF p, q
  <2>2. v \in Ids /\ old \in ProposalRecord /\ OpenVeto(r)
    BY <1>0, <1>1, <2>1, KnownIds DEF OpenVeto, p
  <2>3. /\ old.canceled /\ old.queued /\ ~old.executed /\ Executable(old)
        /\ old.voteEnd < now /\ ~VotedDown(old) /\ old.voteStart <= old.voteEnd
    BY <1>1, <2>1, <2>2 DEF IInv, OpenVetoes, QueuedHasPassed, ProposalsSafe
  <2>4. /\ SamePromise(new, old) /\ ~new.canceled /\ new.queued = old.queued
        /\ new.executed = old.executed
    BY <2>2, FlagsKeepPromise DEF ProposalRecord
  <2>5. old.voteStart \in Nat /\ old.voteEnd \in Nat
    BY <2>2 DEF ProposalRecord
  <2>. HIDE DEF v, old, new
  <2>6. /\ ~VotedDown(new) /\ new.voteEnd = old.voteEnd /\ new.voteStart = old.voteStart
        /\ new.type \notin {"VetoRatification", "Signaling"}
    BY <2>3, <2>4, SamePromiseFacts DEF SamePromise, Executable
  <2>7. StateOf(old, now) = "Canceled" /\ StateOf(new, now) = "Queued"
    BY <1>0, <2>3, <2>4, <2>5, <2>6 DEF StateOf
  <2>8. Phase[v] = "Canceled" /\ Phase'[v] = "Queued"
    BY <1>1, <1>3, <2>1, <2>2, <2>7, PhaseIs, NextPhaseIs DEF old
  <2>9. CASE j = r
    BY <1>8, <2>1, <2>9
  <2>10. CASE j = v
    BY <1>1, <1>7, <1>10, <2>1, <2>8, <2>10 DEF Lifecycle!Step, Lifecycle!Restore,
       Lifecycle!Moves, v
  <2>11. CASE j \notin {r, v}
    BY <1>1, <1>3, <2>1, <2>11, Untouched, Unmoved DEF OnlyTouches
  <2>. QED  BY <2>9, <2>10, <2>11
<1>. QED  BY <1>1, <1>9, <1>10

\* Time opens, closes and expires proposals and moves no other phase.
LEMMA MineMoves ==
    ASSUME IInv, Mine, NEW j \in Ids
    PROVE  Lifecycle!Step(j)
<1>0. TypeOK /\ now \in Nat /\ proposals[j] \in ProposalRecord
  BY DEF IInv, TypeOK
<1>1. /\ proposals' = proposals /\ Known' = Known /\ ratificationOf' = ratificationOf
      /\ now' = now \/ now' = now + 1
  BY DEF Mine, proposalVars, Known
<1>2. CASE now' = now \/ j \notin Known
  BY <1>1, <1>2, PhaseIs, NextPhaseIs, Unmoved
<1>3. CASE now' = now + 1 /\ j \in Known
  <2>. DEFINE p == proposals[j]
  <2>1. p.voteStart <= p.voteEnd /\ (p.queued => Executable(p) /\ p.voteEnd < now)
    BY <1>3 DEF IInv, ProposalsSafe, QueuedHasPassed
  <2>2. Phase[j] = StateOf(p, now) /\ Phase'[j] = StateOf(p, now + 1)
    BY <1>1, <1>3, PhaseIs, NextPhaseIs
  <2>3. p.type # "VetoRatification" => ratificationOf[j] = 0
    BY <1>3 DEF IInv, RatificationsTyped
  <2>. HIDE DEF p
  <2>4. p \in ProposalRecord
    BY <1>0 DEF p
  <2>5. \/ Phase'[j] = Phase[j]
        \/ Phase[j] = "Pending" /\ Phase'[j] = "Active"
        \/ Phase[j] = "Active" /\ Phase'[j] \in {"Succeeded", "Defeated"}
        \/ Phase[j] = "Succeeded" /\ Phase'[j] = "Defeated" /\ ratificationOf[j] = 0
    BY <1>0, <2>1, <2>2, <2>3, <2>4, TimePasses
  <2>. QED
    BY <1>1, <2>5 DEF Lifecycle!Step, Lifecycle!Open, Lifecycle!Close, Lifecycle!Expire,
       Lifecycle!Moves, Lifecycle!IsRatification
<1>. QED  BY <1>1, <1>2, <1>3

\* Nothing else outside moves a phase.
LEMMA OutsideMoves ==
    ASSUME IInv, Outside, NEW j \in Ids
    PROVE  Lifecycle!Step(j)
<1>1. UNCHANGED proposalVars
  BY OutsideEffect DEF IInv
<1>2. CASE Mine
  BY <1>2, MineMoves
<1>3. CASE now' = now
  BY <1>1, <1>3, Untouched, Unmoved DEF proposalVars, Known
<1>. QED
  BY <1>2, <1>3 DEF Outside, Bootstrapping, SetExcludedAddresses, Register, BootstrapCouncil,
     ClearDeployer, SetWindDownActive, TokensMove, CrowdfundFinalizes

\* Every step of the governor is, for each proposal, a step of its life.
LEMMA EveryStepMoves ==
    ASSUME IInv, VetoedOnce, RatificationsRun, Next, NEW j \in Ids
    PROVE  Lifecycle!Step(j)
<1>1. ASSUME NEW sender \in Voters, NEW declared \in DeclaredTypes,
             NEW payload \in Payloads \cup {NoPayload}, Propose(sender, declared, payload)
      PROVE  Lifecycle!Step(j)
  <2>. DEFINE type == IF declared = "Standard" THEN Classify(declared, payload) ELSE declared
  <2>1. /\ Create(sender, type, payload) /\ ~settings.windDownActive
        /\ UNCHANGED <<now, ratificationOf>>
    BY <1>1 DEF Propose
  <2>2. type \in Types
    BY <1>1 DEF Propose, Classify, Types
  <2>. HIDE DEF type
  <2>. QED  BY <2>1, <2>2, CreateMoves
<1>2. ASSUME NEW sender \in Stewards, NEW payload \in Payloads,
             ProposeStewardSpend(sender, payload.stewardSpend, payload.recipients)
      PROVE  Lifecycle!Step(j)
  <2>. DEFINE spend == [NoPayload EXCEPT !.stewardSpend = payload.stewardSpend,
                                         !.recipients = payload.recipients]
  <2>1. /\ Create(sender, "Steward", spend) /\ ~settings.windDownActive
        /\ UNCHANGED <<now, ratificationOf>>
    BY <1>2 DEF ProposeStewardSpend
  <2>. HIDE DEF spend
  <2>. QED  BY <2>1, CreateMoves DEF Types
<1>3. CASE Proposing
  BY <1>1, <1>2, <1>3 DEF Proposing
<1>4. CASE Deciding
  BY <1>4, CastVoteMoves, QueueMoves, ExecuteMoves, ResolveMoves, CancelMoves, VetoMoves
  DEF Deciding, Options
<1>5. CASE Outside
  BY <1>5, OutsideMoves
<1>. QED  BY <1>3, <1>4, <1>5, Zenon DEF Next, Outside

\* The end of governance is final.
LEMMA EndIsFinal ==
    ASSUME IInv, [Next]_vars, settings.windDownActive
    PROVE  settings'.windDownActive
<1>1. settings \in Settings
  BY DEF IInv, TypeOK
<1>2. CASE settings' = settings
  BY <1>2
<1>3. ASSUME NEW i \in Ids, ResolveRatification(i)
      PROVE  settings' = settings \/ Eject(proposals[i].proposer)
  BY <1>3 DEF ResolveRatification, UpholdVeto, DenyVeto
<1>4. ASSUME NEW account, Eject(account)
      PROVE  settings'.windDownActive
  BY <1>1, <1>4 DEF Eject, Settings
<1>5. ASSUME NEW addrs \in SUBSET Holders, SetExcludedAddresses(addrs)
      PROVE  settings'.windDownActive
  BY <1>1, <1>5 DEF SetExcludedAddresses, Settings
<1>6. ASSUME NEW sc \in Councils \cup {NoOne}, BootstrapCouncil(sc)
      PROVE  settings'.windDownActive
  BY <1>1, <1>6 DEF BootstrapCouncil, Settings
<1>7. CASE Outside
  BY <1>2, <1>5, <1>6, <1>7 DEF Outside, Bootstrapping, Register, ClearDeployer, TokensMove,
     CrowdfundFinalizes, Mine, SetWindDownActive, ActivateWindDown
<1>8. CASE Proposing
  BY <1>2, <1>8 DEF Proposing, Propose, ProposeStewardSpend
<1>9. CASE Deciding
  BY <1>2, <1>3, <1>4, <1>9 DEF Deciding, CastVote, Queue, Cancel, Veto, Execute
<1>10. CASE UNCHANGED vars
  BY <1>2, <1>10 DEF vars
<1>. QED  BY <1>7, <1>8, <1>9, <1>10, Zenon DEF Next, Outside

\* Every step keeps a veto unique.
LEMMA OnceKept ==
    ASSUME IInv, IInv', VetoedOnce, Next
    PROVE  VetoedOnce'
<1>. SUFFICES ASSUME NEW r \in Known', ratificationOf'[r] # 0
              PROVE  \/ proposals'[ratificationOf'[r]].canceled
                     \/ proposals'[ratificationOf'[r]].vetoRatificationDenied
  BY DEF VetoedOnce
<1>0. TypeOK
  BY DEF IInv
<1>1. CASE ratificationOf' = ratificationOf
  <2>1. r \in Ids
    <3>1. TypeOK'
      BY DEF IInv
    <3>2. proposalCount' \in 0..MaxProposals /\ MaxProposals \in Nat
      BY <3>1, GovernorInputs DEF TypeOK
    <3>. QED  BY <3>2 DEF Known, Ids
  <2>2. r \in Known
    BY <1>1, <2>1 DEF IInv, FreshIds
  <2>3. ratificationOf[r] \in Known
    BY <1>1, <2>2 DEF IInv, RatificationsTyped
  <2>4. StillKnown(ratificationOf[r])
    BY <2>3, NothingIsTakenBack
  <2>. QED  BY <1>1, <2>2, <2>4 DEF VetoedOnce, StillKnown, Stays
<1>2. ASSUME NEW sc \in Councils, NEW i \in Ids, Veto(sc, i)
      PROVE  \/ proposals'[ratificationOf'[r]].canceled
             \/ proposals'[ratificationOf'[r]].vetoRatificationDenied
  <2>1. /\ NewId \in Ids \ Known /\ Known' = Known \cup {NewId} /\ i \in Known
        /\ proposals'[i] = [proposals[i] EXCEPT !.canceled = TRUE]
        /\ ratificationOf'[NewId] = i
        /\ \A k \in Ids \ {NewId} : ratificationOf'[k] = ratificationOf[k]
    BY <1>0, <1>2, VetoEffect
  <2>2. CASE r = NewId
    BY <1>0, <2>1, <2>2 DEF TypeOK, ProposalRecord
  <2>3. CASE r \in Known
    <3>1. ratificationOf'[r] = ratificationOf[r]
      BY <1>0, <2>1, <2>3, KnownIds
    <3>2. ratificationOf[r] \in Known
      BY <2>3, <3>1 DEF IInv, RatificationsTyped
    <3>3. StillKnown(ratificationOf[r])
      BY <3>2, NothingIsTakenBack
    <3>. QED  BY <2>3, <3>1, <3>3 DEF VetoedOnce, StillKnown, Stays
  <2>. QED  BY <2>1, <2>2, <2>3
<1>3. CASE Outside
  BY <1>1, <1>3, OutsideEffect DEF IInv, proposalVars
<1>4. CASE Proposing
  BY <1>1, <1>4 DEF Proposing, Propose, ProposeStewardSpend
<1>5. CASE Deciding
  BY <1>1, <1>2, <1>5 DEF Deciding, CastVote, Queue, Execute, ResolveRatification, Cancel
<1>. QED  BY <1>3, <1>4, <1>5, Zenon DEF Next, Outside


\* Only a pending proposal, a steward's or a queued one is ever canceled.
LEMMA WhatIsCanceled ==
    ASSUME IInv, Next, NEW j \in Known, ~proposals[j].canceled, proposals'[j].canceled
    PROVE  State(j) \in {"Pending", "Queued"} \/ proposals[j].type = "Steward"
<1>0. TypeOK /\ j \in Ids /\ \A i \in Ids : proposals[i] \in ProposalRecord
  BY KnownIds DEF IInv, TypeOK
<1>1. ASSUME NEW i \in Ids, NEW q, q.canceled = proposals[i].canceled,
             proposals' = [proposals EXCEPT ![i] = q]
      PROVE  FALSE
  BY <1>0, <1>1, RewriteEffect DEF OnlyTouches
<1>2. ASSUME NEW proposer, NEW type, NEW payload, Create(proposer, type, payload)
      PROVE  FALSE
  BY <1>0, <1>2, CreateEffect DEF OnlyTouches
<1>3. ASSUME NEW sender \in Voters, NEW i \in Ids, NEW support \in Options,
             CastVote(sender, i, support)
      PROVE  FALSE
  <2>1. Count(proposals[i], sender, support).canceled = proposals[i].canceled
    BY <1>0 DEF Count, ProposalRecord
  <2>. QED  BY <1>1, <1>3, <2>1 DEF CastVote
<1>4. ASSUME NEW i \in Ids, Queue(i)
      PROVE  FALSE
  <2>1. proposals' = [proposals EXCEPT ![i] = [proposals[i] EXCEPT !.queued = TRUE]]
    BY <1>4 DEF Queue
  <2>2. [proposals[i] EXCEPT !.queued = TRUE].canceled = proposals[i].canceled
    BY <1>0 DEF ProposalRecord
  <2>. QED  BY <1>1, <2>1, <2>2
<1>5. ASSUME NEW i \in Ids, proposals' = [proposals EXCEPT ![i].executed = TRUE]
      PROVE  FALSE
  <2>1. [proposals[i] EXCEPT !.executed = TRUE].canceled = proposals[i].canceled
    BY <1>0 DEF ProposalRecord
  <2>. QED  BY <1>1, <1>5, <2>1
<1>6. ASSUME NEW sender \in Accounts, NEW i \in Ids, Cancel(sender, i)
      PROVE  State(j) = "Pending" \/ proposals[j].type = "Steward"
  <2>1. proposals' = [proposals EXCEPT ![i] = [proposals[i] EXCEPT !.canceled = TRUE]]
    BY <1>6 DEF Cancel
  <2>2. j = i
    BY <1>0, <2>1, RewriteEffect DEF OnlyTouches
  <2>. QED  BY <1>6, <2>2 DEF Cancel
<1>7. ASSUME NEW sc \in Councils, NEW i \in Ids, Veto(sc, i)
      PROVE  State(j) = "Queued"
  <2>1. NewId \notin Known /\ OnlyTouches({i, NewId})
    BY <1>0, <1>7, VetoEffect
  <2>2. j = i
    BY <1>0, <2>1 DEF OnlyTouches
  <2>. QED  BY <1>7, <2>2 DEF Veto, MayVeto
<1>8. ASSUME NEW r \in Ids, ResolveRatification(r)
      PROVE  FALSE
  <2>1. /\ r \in Known /\ ratificationOf[r] # 0 /\ ~proposals[r].executed
        /\ (DenyVeto(r) \/ UpholdVeto(r))
    BY <1>8 DEF ResolveRatification
  <2>2. CASE UpholdVeto(r)
    BY <1>5, <2>2 DEF UpholdVeto
  <2>3. CASE DenyVeto(r)
    <3>. DEFINE v   == ratificationOf[r]
                q   == [proposals[r] EXCEPT !.executed = TRUE]
                new == [proposals[v] EXCEPT !.canceled = FALSE, !.vetoRatificationDenied = TRUE]
    <3>1. proposals'[r] = q /\ proposals'[v] = new /\ OnlyTouches({r, v}) /\ v \in Known
      BY <2>1, <2>3, DenyEffect
    <3>2. v \in Ids
      BY <1>0, <3>1, KnownIds
    <3>3. q.canceled = proposals[r].canceled /\ ~new.canceled
      BY <1>0, <3>2 DEF ProposalRecord
    <3>. HIDE DEF v, q, new
    <3>. QED  BY <1>0, <3>1, <3>3 DEF OnlyTouches
  <2>. QED  BY <2>1, <2>2, <2>3
<1>9. CASE Outside
  BY <1>9, OutsideEffect DEF IInv, proposalVars
<1>10. CASE Proposing
  BY <1>2, <1>10 DEF Proposing, Propose, ProposeStewardSpend
<1>11. CASE Deciding
  <2>1. ASSUME NEW i \in Ids, Execute(i)
        PROVE  FALSE
    BY <1>5, <2>1 DEF Execute
  <2>. QED  BY <1>3, <1>4, <1>6, <1>7, <1>8, <1>11, <2>1 DEF Deciding, Options
<1>. QED  BY <1>9, <1>10, <1>11, Zenon DEF Next, Outside

\* A ratification starts in the step that creates it.
LEMMA NewRatification ==
    ASSUME IInv, Next, NEW j \in Known', j \notin Known, proposals'[j].type = "VetoRatification"
    PROVE  ~proposals'[j].canceled /\ proposals'[j].voteStart <= now'
<1>0. TypeOK /\ now \in Nat
  BY DEF IInv, TypeOK
<1>1. ASSUME NEW sender \in Voters, NEW declared \in DeclaredTypes,
             NEW payload \in Payloads \cup {NoPayload}, Propose(sender, declared, payload)
      PROVE  FALSE
  <2>. DEFINE type == IF declared = "Standard" THEN Classify(declared, payload) ELSE declared
  <2>1. Create(sender, type, payload)
    BY <1>1 DEF Propose
  <2>2. type # "VetoRatification"
    BY <1>1 DEF Propose, Classify
  <2>. HIDE DEF type
  <2>3. proposals'[j] = NewProposal(sender, type, payload)
    BY <1>0, <2>1, CreateEffect
  <2>. QED  BY <2>2, <2>3, NewProposalFields
<1>2. ASSUME NEW sender \in Stewards, NEW payload \in Payloads,
             ProposeStewardSpend(sender, payload.stewardSpend, payload.recipients)
      PROVE  FALSE
  <2>. DEFINE spend == [NoPayload EXCEPT !.stewardSpend = payload.stewardSpend,
                                         !.recipients = payload.recipients]
  <2>1. Create(sender, "Steward", spend)
    BY <1>2 DEF ProposeStewardSpend
  <2>. HIDE DEF spend
  <2>2. proposals'[j] = NewProposal(sender, "Steward", spend)
    BY <1>0, <2>1, CreateEffect
  <2>. QED  BY <2>2, NewProposalFields
<1>3. ASSUME NEW sc \in Councils, NEW i \in Ids, Veto(sc, i)
      PROVE  ~proposals'[j].canceled /\ proposals'[j].voteStart <= now'
  <2>1. proposals'[j] = NewProposal(sc, "VetoRatification", NoPayload) /\ now' = now
    BY <1>0, <1>3, VetoEffect DEF Veto
  <2>2. ParamsOf("VetoRatification").votingDelay = 0
    BY DEF ParamsOf
  <2>3. ~proposals'[j].canceled /\ proposals'[j].voteStart = now + 0
    BY <2>1, <2>2, NewProposalFields
  <2>. QED  BY <1>0, <2>1, <2>3
<1>4. CASE Outside
  BY <1>4, OutsideEffect DEF IInv, proposalVars, Known
<1>5. CASE Proposing
  BY <1>1, <1>2, <1>5 DEF Proposing
<1>6. CASE Deciding
  <2>1. CASE \E sc \in Councils, i \in Ids : Veto(sc, i)
    BY <1>3, <2>1
  <2>2. CASE UNCHANGED proposalCount
    BY <2>2 DEF Known
  <2>. QED  BY <1>6, <2>1, <2>2 DEF Deciding, CastVote, Queue, Execute, ResolveRatification, Cancel
<1>. QED  BY <1>4, <1>5, <1>6, Zenon DEF Next, Outside

\* Time does not run backwards.
LEMMA TimeMovesOn ==
    ASSUME IInv, Next
    PROVE  now' \in Nat /\ now <= now'
<1>1. now \in Nat
  BY DEF IInv, TypeOK
<1>2. CASE now' = now
  BY <1>1, <1>2
<1>3. CASE Mine
  BY <1>1, <1>3 DEF Mine
<1>. QED
  BY <1>2, <1>3, Zenon DEF Next, Proposing, Propose, ProposeStewardSpend, Deciding, CastVote, Queue,
     Execute, ResolveRatification, Cancel, Veto, Bootstrapping, SetExcludedAddresses, Register,
     BootstrapCouncil, ClearDeployer, SetWindDownActive, TokensMove, CrowdfundFinalizes

\* Nothing withdraws a ratification.
LEMMA RunKept ==
    ASSUME IInv, RatificationsRun, Next
    PROVE  RatificationsRun'
<1>. SUFFICES ASSUME NEW r \in Known', proposals'[r].type = "VetoRatification"
              PROVE  ~proposals'[r].canceled /\ proposals'[r].voteStart <= now'
  BY DEF RatificationsRun
<1>1. CASE r \notin Known
  BY <1>1, NewRatification
<1>2. CASE r \in Known
  <2>1. StillKnown(r) /\ now' \in Nat /\ now <= now' /\ TypeOK
    BY <1>2, NothingIsTakenBack, TimeMovesOn DEF IInv
  <2>2. /\ proposals[r].type = "VetoRatification" /\ ~proposals[r].canceled
        /\ proposals[r].voteStart <= now /\ proposals'[r].voteStart = proposals[r].voteStart
    BY <1>2, <2>1 DEF RatificationsRun, StillKnown, Stays
  <2>3. proposals[r].voteStart \in Nat /\ now \in Nat
    BY <1>2, <2>1, KnownFields
  <2>4. proposals'[r].voteStart <= now'
    BY <2>1, <2>2, <2>3
  <2>5. State(r) \notin {"Pending", "Queued"}
    BY <1>2, <2>1, <2>2, <2>3, StateFacts DEF Executable
  <2>6. ~proposals'[r].canceled
    BY <1>2, <2>2, <2>5, WhatIsCanceled
  <2>. QED  BY <2>4, <2>6
<1>. QED  BY <1>1, <1>2

\* The two facts about ratifications the refinement needs hold always.
LEMMA RatificationsAlways == Spec => [](IInv /\ VetoedOnce /\ RatificationsRun)
<1>1. Init => VetoedOnce /\ RatificationsRun
  BY DEF Init, VetoedOnce, RatificationsRun, Known
<1>2. IInv /\ IInv' /\ VetoedOnce /\ RatificationsRun /\ [Next]_vars
        => VetoedOnce' /\ RatificationsRun'
  <2>1. CASE Next
    BY <2>1, OnceKept, RunKept
  <2>2. CASE UNCHANGED vars
    BY <2>2 DEF vars, proposalVars, VetoedOnce, RatificationsRun, Known
  <2>. QED  BY <2>1, <2>2
<1>. QED  BY <1>1, <1>2, Invariance, PTL DEF Spec

(***************************************************************************)
(* The governor implements the life of a proposal: a veto happens at most  *)
(* once, a vetoed proposal returns exactly when its ratification is lost   *)
(* and resolved, the rest of the phases only move forward, and after the   *)
(* end of governance nothing is created, queued or enacted.                *)
(***************************************************************************)
THEOREM GovernorImplementsLifecycle == Spec => ImplementsLifecycle
<1>1. Init => Lifecycle!Init
  BY DEF Init, Lifecycle!Init, Phase, Known
<1>2. ASSUME IInv, IInv', VetoedOnce, RatificationsRun, [Next]_vars
      PROVE  [Lifecycle!Next]_(Lifecycle!vars)
  <2>1. CASE Next
    <3>1. \A i \in Ids : Lifecycle!Step(i)
      BY <1>2, <2>1, EveryStepMoves
    <3>2. settings.windDownActive => settings'.windDownActive
      BY <1>2, EndIsFinal
    <3>3. DOMAIN Phase' = Ids /\ DOMAIN ratificationOf' = Ids
      BY <1>2 DEF Phase, IInv, TypeOK
    <3>. QED  BY <3>1, <3>2, <3>3 DEF Lifecycle!Next
  <2>2. CASE UNCHANGED vars
    <3>1. Phase' = Phase
      BY <2>2 DEF vars, proposalVars, Phase, Known, State, VotedDown, PassesByDefault,
         QuorumReached, Quorum
    <3>. QED  BY <2>2, <3>1 DEF vars, proposalVars, Lifecycle!vars
  <2>. QED  BY <1>2, <2>1, <2>2
<1>. QED
  BY <1>1, <1>2, RatificationsAlways, Invariance, PTL
  DEF Spec, ImplementsLifecycle, Lifecycle!Spec

=============================================================================
