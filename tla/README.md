# A TLA+ model of Armada

This directory is a verification development of the Armada repository: the token sale, the
on-chain governance and treasury, and the off-chain services that move messages between
chains. It holds TLA+ modules translated from the source, TLC configurations that check them on
small instances, and theorems checked by TLAPS for every value of the constants.

Paths below are relative to the repository (`contracts/…`, `relayer/…`).

## 1. Inventory

### 1.1 Contracts of the first launch

| Component | State it keeps | Operations | Talks to |
|---|---|---|---|
| `ArmadaCrowdfund` | phase, per-(address, hop) nodes with deposits and invite counters, launch-team budgets, used invite nonces, sale result (size, ceilings, demands, totals), settlement flags | addSeed(s), invite, launchTeamInvite, commit, commitWithInvite, revokeInviteNonce, loadArm, cancel, finalize, claim, claimRefund, withdrawUnallocatedArm | USDC, `ArmadaToken.transferAndDelegate`, treasury |
| `ArmadaGovernor` | proposals with vote tallies and snapshots, selector classification maps, type parameters, excluded addresses, security council, wind-down flag | propose, proposeStewardSpend, castVote, queue, execute, cancel, veto, resolveRatification, setters behind the timelock | timelock, token votes, treasury (eligible supply, outflow limits), steward, crowdfund (quiet period) |
| `TimelockController` (OpenZeppelin, external) | operation timestamps | schedule, execute, cancel | every governed contract |
| `ArmadaTreasuryGov` | outflow windows per token with pending loosenings, rolling spend records, steward budgets | distribute, stewardSpend, outflow and budget setters, transferTo after wind-down | token, steward, wind-down |
| `TreasurySteward` | elected steward and term | electSteward, removeSteward | governor, treasury |
| `ArmadaToken` | ERC20Votes balances and delegations, transfer whitelist, delegation bans | transfers, transferAndDelegate, one-way setTransferable | crowdfund, revenue lock, wind-down |
| `RevenueCounter` | recognised revenue, fee-collector checkpoint, frozen flag | syncStablecoinRevenue, attestRevenue, setFeeCollector, freeze | fee module, revenue lock, wind-down |
| `RevenueLock` | milestone ratchet, per-beneficiary releases, freeze at wind-down | release, syncObservedRevenue, freezeAtWindDown | revenue counter, token |
| `RevenueReserveDistributor` | allocation, collected and reserved revenue | assign, collect, distribute, claim | fee token, revenue counter |
| `ArmadaWindDown` | deadline, threshold, triggered | triggerWindDown, governanceTrigger, sweeps | counter, lock, token, governor, pause, treasury |
| `ArmadaRedemption`, `RedemptionRouter` | redeemable assets | redeem after the delay | token, treasury, crowdfund (unsold ARM) |
| `ShieldPauseController` | pause expiry, used pauses | pauseShields, unpause, setWindDownActive | privacy pool |
| `AdapterRegistry` | authorized and withdraw-only sets | authorize, deauthorize, full deauthorize | privacy pool |

### 1.2 Contracts of the second launch

| Component | State | Operations |
|---|---|---|
| `PrivacyPool` (hub) with Merkle, Shield, Transact, Verifier modules | note tree, nullifiers, processed CCTP messages, fee settings | shield, transact, atomicCrossChainUnshield, handleReceiveFinalizedMessage |
| `PrivacyPoolClient`, `CCTPHookRouter`, `MockCCTPV2` | per-chain bindings, burn nonces | crossChainShield, relayWithHook, receive |
| `GaslessShieldWrapper(Client)` | authorisation use | gaslessShield |
| `ArmadaYieldVault`, `ArmadaYieldAdapter`, `MockAaveSpoke` | shares, principal, adapter flow | deposit, redeem, lendAndShield, redeemAndShield |
| `ArmadaFeeModule` | tiers, integrator fees, cumulative fees | fee calculation, recordShieldFee, setters |

### 1.3 Off-chain services

| Component | State | Hard behaviour |
|---|---|---|
| relayer `NonceCoordinator`, `wallet-manager` | cached nonce per chain | concurrent sends, reset during a critical section, a send that fails after broadcast |
| relayer `idempotency-store`, `http-api`, `privacy-relay` | recorded results, in-flight promises | concurrent and repeated requests, a crash between broadcast and persist |
| relayer `cctp-relay`, `iris-relay`, `pending-state-store`, `retry-queue-store`, `dead-letter-store`, `cursor-store` | pending messages, processed keys, block cursor, retries | crash and restart between any two writes, repeated scans, late attestations, exhausted retries |
| relayer `cctp-delivery-store` | delivery status served to the UI | out-of-order status writes |
| relayer fee calculators and verifiers | quotes | pure functions |
| crowdfund indexer (`ingest`, `db`, `reconcile`, `snapshots`) | raw logs, range records, cursors, snapshots | misleading providers, overlapping ranges, a poller and an operator's command at once, restart between two writes |
| crowdfund committer, admin, observer; governance-ui | UI state | multi-step transaction pipeline |

### 1.4 How the parts interact

* The crowdfund sends proceeds and unsold ARM to the treasury, and gives buyers ARM that is
  delegated in the same call. `ArmadaGovernor.propose` reads its `finalizedAt` for the quiet
  period, `ArmadaRedemption` reads `armStillOwed()` for the circulating supply.
* Governance acts only through the timelock, which owns the treasury, the counters and the
  registries. The security council can veto a queued proposal; a veto opens a ratification vote.
* Wind-down freezes revenue and locks, makes ARM transferable, stops governance, and turns the
  treasury over to redemption.
* The relayer reads burn events from each chain, waits for an attestation and submits the
  message on the destination chain. Nothing but its own files survives a restart.

### 1.5 What makes each component correct

* Crowdfund: escrowed USDC always covers every refund; reserved ARM covers every unclaimed
  allocation; an invite is paid for once; the sale is never oversold; a finished sale is final.
* Governor: only a defeated-or-won vote decides, a veto or its reversal happens once, nothing
  executes after wind-down, the council that is ejected is the one that vetoed.
* Treasury: spending in any window stays within the limit in force; loosening a limit takes
  effect only after its delay.
* Wind-down and redemption: the order of the freeze, one trigger, redeemers share fairly.
* Relayer: a message is submitted at least once and recorded as delivered only if it was; nonces
  are handed out in order without gaps; a replayed request returns the recorded result.
* Pool: the notes are never worth more than the pool holds, and every unspent note can be found
  and spent, whatever else was inserted beside it.
* Indexer: what is called verified is complete; the cursor reaches the confirmed head or an
  operator can see why not.

### 1.6 Hard behaviours

`PROJECT.json` lists every hazard at the line where it bites. In short: transactions of many
accounts interleave in any order and each can revert as a whole; deadlines and delays race
actions that are only valid before or after them; parameters change under proposals, payments
and budgets that were made with the old ones; settings take effect lazily, in whichever call
comes first; a veto takes a proposal back out of the timelock and a later vote may put it in
again; settlement and redemption happen in any order after the outcome is fixed. Off-chain, a
process dies between broadcasting a transaction and recording that it did, a reply is lost
although the call took effect, files cannot be written, several loops and commands share one
queue or one store, and a provider fails or leaves logs out.

## 2. Plan

Modules were written in the order of what is at stake: money in the sale first, then governance,
then the parts governance controls, then the services and the pool.

| Step | Modules | State |
|---|---|---|
| 1 | `CrowdfundWaterfall`, `SaleDemand`, `NaturalSums`, `Crowdfund`, `MCCrowdfund`, `MCInvites` | done |
| 2 | `NaturalSumLemmas`, `CrowdfundProofs` (the waterfall's proofs included) | done |
| 3 | `ProposalLifecycle` (abstract), `Governor`, `MCGovernor` | done |
| 4 | `GovernorProofs` | done, refinement included |
| 5 | `OutflowLimits` (abstract), `Treasury`, `EconomyProofs` | done, refinement included |
| 6 | `Revenue`, `WindDown` (which extends it with sale, lock, treasury and redemption), `MCEconomy`, `EconomyProofs` | done |
| 7 | `NonceCoordinator`, `RelaySubmission`, `MCSubmission`, `SubmissionProofs` | done |
| 8 | `IrisRelay`, `CctpRelay`, `Bridges`, `MCBridges`, `MCLiveness`, `CctpProofs`, `BridgesProofs` | done |
| 9 | `Indexer`, `MCIndexer`, its part of `CrowdfundProofs` | done |
| 10 | `CommitmentTree`, `PrivacyPool`, `MCPool`, `PoolProofs` | done |

Open, in this order: the yield vault with the pool's adapter calls, and the indexer's snapshots.

## 3. The modules and the code

On chain, a transaction runs to its end or reverts: every external function is one action whose
guard is the conjunction of its `require`s and custom errors. Every action of every account is
enabled whenever its guard holds: the interleaving of transactions is unrestricted. Off chain,
the code runs on one event loop and yields at each `await`: an action reaches from one await to
the next, and a kill may come at any of them. `PROJECT.json` maps each definition to its lines.
Definitions whose comment begins with "Mutant" are deliberately wrong variants of a definition,
kept to show that a property notices; no specification uses them.

An MC module often holds several **settings** of one or more modules: the module is instantiated
with constants of its own for each setting, a variable (`setting` or `part`) names the one that a
behaviour keeps from its initial state on, and what belongs to the others stands still. One run
then covers instances that would be too large together.

### 3.1 The sale: `contracts/crowdfund/ArmadaCrowdfund.sol`

`CrowdfundWaterfall` is the arithmetic of `finalize()` and `claim()`: ceilings per hop, the floor
of hop 2, leftovers that roll over, and pro-rata allocation with integer division. It is a module
of its own so that `SaleDemand` can walk through every demand without the rest of the contract.

`Crowdfund` is the contract. A node is an (address, hop) pair. The flag `isWhitelisted` and the
array `participantNodes` change together, in `_initParticipant` only, and become one set. Totals,
ceilings, settlement flags and balances are variables of their own, so that an accounting error
would show. Actions:

| Action | Code |
|---|---|
| `AddSeeds`, `LaunchTeamInvite`, `Invite`, `CommitWithInvite`, `RevokeInviteNonce` | `addSeed(s)`, `launchTeamInvite`, `invite`, `commitWithInvite`, `revokeInviteNonce` |
| `Commit` | `commit` with `_escrowCommit` |
| `ReceiveArm`, `LoadArm` | an ARM transfer to the contract, `loadArm` |
| `Cancel`, `Finalize` | `cancel`, `finalize` in its three outcomes (refund mode by demand, refund mode by allocation, sale) |
| `Claim`, `ClaimRefund` | `claim`, `claimRefund` |
| `WithdrawUnallocatedArm` | `withdrawUnallocatedArm` |
| `Tick` | block time |

Abstracted: a signed invite is a member of `Tickets`, the set of tickets whose EIP-712 signature
verifies; ERC-20 transfers are the change of balances they cause; the token's delegation of the
delivered ARM is external; USDC donated to the contract is left out (no accounting reads the
balance). ARM amounts are USDC amounts times `ArmPerUsdc`.

### 3.2 Governance: `contracts/governance/ArmadaGovernor.sol`

`Governor` models the governor with the parts it drives of OpenZeppelin's `TimelockController`
and of `TreasurySteward.sol`. A proposal is a record of everything `_initProposal` freezes plus
its flags; `State` is `state()`. Everything a passed proposal can change is one record,
`settings`; the deployer's remaining powers are `deployer`. Executing a proposal performs its
call in the same step, as `execute()` does through the timelock.

| Action | Code |
|---|---|
| `Propose`, `ProposeStewardSpend` | `propose`, `proposeStewardSpend`, with `_classifyProposal`, `_validateTimelockCalldata`, `_checkQuietPeriod`, `_initProposal` |
| `CastVote` | `castVote`, including a change of vote |
| `Queue`, `Execute`, `Cancel` | `queue` (with the outflow check), `execute`, `cancel` |
| `Veto`, `ResolveRatification` (`UpholdVeto`, `DenyVeto`) | `veto`, `resolveRatification` |
| `Perform` | the governed setters: parameters, selector registries, council, steward, timelock delay and roles, exclusions, wind-down contract, governance-triggered wind-down |
| `SetExcludedAddresses`, `Register`, `BootstrapCouncil`, `ClearDeployer` | the deployer's one-time setters |
| `SetWindDownActive` | the wind-down contract's call when its deadline passes |
| `TokensMove`, `CrowdfundFinalizes`, `Mine` | the world: votes, balances and limits move between blocks; time passes |

`Mine` ends a block: the votes in force become the past votes that a proposal of the next block
snapshots (`block.number - 1` in the code). The clock is coarse, so several blocks may share an
instant. A payload is a sum per token of what it distributes and what it steward-spends, the
recipients, and at most one governance call: the checks of the code read just that. The treasury's
balances, limits and budgets are inputs of the governor that may change at any time; `Treasury`
models them in detail. A timelock role stands for the account that must keep it (the governor's
proposer, executor and canceller roles, the timelock's own admin role); a revocation from any other
account is the role `"backup"`. A proposal may also *grant* a role to a third party, whose
operations `_validateTimelockCalldata` would then not see: that is left out, and what is said of the
timelock holds while the governor alone has its roles. UUPS upgrades are left out: an upgrade
replaces the code. Selectors are strings; `"distribute"` and `"stewardSpend"` stand for payments.

`ProposalLifecycle` is the abstract specification: the phases of proposals and which moves
between them are ever legal. Among its promises: nothing moves from a final phase, only a queued
proposal is enacted and not after governance has ended, a proposal is vetoed at most once, and it
comes back only in the very step in which a lost ratification is resolved. `Governor` implements
it under the mapping `phase <- State(i)`, `ratifies <- ratificationOf`,
`ended <- windDownActive`, checked as the property `ImplementsLifecycle`.

### 3.3 The treasury: `contracts/governance/ArmadaTreasuryGov.sol`

`OutflowLimits` is what the treasury promises about a token, with nothing lazy in it: three
settings (window, share of the balance, absolute amount) bound what may leave in the days that
end now; a tightening applies at once, a loosening by itself when its delay is over. `Treasury`
is the contract for one token. There, a loosening waits in `pending` and takes effect in the next
call that activates it, wind-down transfers move tokens past the limits, and a steward has a
budget over a window of its own. Payments are appended in the order of time and read back to a
cutoff; the model keeps the sum of each day, which is all a window reads. `Treasury` implements
`OutflowLimits` under a mapping that shows a matured pending value as in force:
`ImplementsOutflowLimits`.

Two history variables carry the other promises. `shown` keeps, for each day of the activation
delay, the settings in force or on their way that anybody could read at its end; `Notice` says
that every payment keeps to each of them, whatever governance decides meanwhile. `stewardPaid`
keeps what the steward was paid, whatever the contract forgets when a budget is removed.

### 3.4 Revenue, wind-down, redemption

`Revenue` is `RevenueCounter.sol` (fees of a collector, attestations of governance, change of
collector, freeze) with `RevenueLock.sol` (the rate-limited ratchet over the counter, milestones,
releases, freeze). `WindDown` extends it with `ArmadaWindDown.sol`, `ArmadaRedemption.sol` and
those operations of sale, token and treasury that enter the price of a redemption: settlement,
claims and their deadline, the sweep of unallocated ARM, transfers, sweeps. Both triggers perform
their five calls in one step and in the code's order (`EndGovernance`). `EndAssumption` asks that
the lock starts with at least the sum of its allocations, which the deployment asserts after
funding it (`scripts/deploy_crowdfund.ts`); `CounterAssumption` and `LockAssumption` type amounts,
milestones and the ratchet's daily increase. The history variable `entrusted` sums, per
collector, the fees it collected while it was the one in use, `attested` what governance meant to
credit: the revenue it added, and for an attestation the difference between the attested total and
what was recognised when it was proposed. `attestations` holds those being voted on. An executed
attestation overwrites what was recognised meanwhile, as the comment on `attestRevenue` warns
(section 8); `overtaken` records that this happened. Until then the counter is exactly
these two sums, afterwards at most.

### 3.5 The relayer's submissions

`NonceCoordinator` is `lib/nonce-coordinator.ts` with the two paths that sign through it and the
account's nonce and mempool as the node sees them. A critical section is several actions: enter,
seed the cache from the node, send, settle; a reset may come between. Sends may be answered after
their caller gave up. `RelaySubmission` is `POST /relay` from arrival to answer: the store of
idempotency records with its queue of file writes, the lock and the calldata dedup of the wallet
manager, receipts that backfill a record's status, expiry, and a restart that reloads the file.
Its operators begin with `Post` where the coordinator has one of the same name; `MCSubmission`
extends both and steps one of them per behaviour.

### 3.6 The relayer's bridges

`IrisRelay` is the path over Circle's attestation service, one sequential loop: `at` is the await at
which it stands. It scans chunk by chunk, polls attestations, broadcasts mints, checks receipts,
looks up and resubmits stuck transactions, gives up after the last retry, and writes its files
(pending, cursor, dead letters, delivery status) in the code's order. That `persistChain` also
forgets processed messages older than twice the attestation age is left out. `CctpRelay` is the path
over the mock messenger: source chains are scanned in parallel, `job` has one thread of control per
chain and one for the retries, which share a queue and its file. In both, `file` is what a restart
finds and `Restart` may strike at any await. `Bridges` is the choice `armada-relayer.ts` makes at
its start: the process constructs one of the two modules, and the other one stands still.
`MCBridges` and `MCLiveness` are the instances.

### 3.7 The pool: `contracts/privacy-pool/`

`CommitmentTree` is `MerkleModule.sol`: batches folded level by level into one remembered left node
per level, roll-over to the next tree, root history. The loop over a level is the recursive
function `HashedUpTo` (the array before each index), the loop over the levels `Folded`. Poseidon is
a constructor, so two roots are equal only if they were hashed from equal leaves, and the reference
is the root by definition, every node over its two children (`Rows`, `RootOf`). `PrivacyPool` is
the hub's pool with its shield and transact modules, one client chain and the messages between
them. A note is a number that stands for its commitment, with the position its event announced. A
proof is what its circuit guarantees (inputs are notes of one tree under a published root, values
are conserved) and binds (recipient and amount of an unshield, arguments of a cross-chain exit); it
can be held back, submitted by anybody to either entry point, and replayed. Fees of shields and of
messages are any amount the pool accepts.

### 3.8 The indexer: `crowdfund-ui/packages/indexer/src/ingest/`

`Indexer` has two processes on one store, the poller and an operator's command (`repair`, `verify`
or `backfill`). Each operation of the store is atomic, as on Postgres. Each process goes from write
to write: fetch and store logs, stage the range's record, audit it, patch the cursor with what it
computed before. The poller asks for confirmed blocks only, and those do not change, so the chain is
its height. The operator's `repair` and `verify` take any span, as `cli/index.ts` does (only
`backfill` stops at the confirmed head); for blocks that are not confirmed a provider answers any
part of the logs they will have, and `early` keeps those blocks. Logs that a reorganisation takes
away again are left out. A provider may fail, or answer without the logs it has; the auditor does
not miss what the primary provider missed in the same verification, which is the assumption the
audit exists for. Attempts are counted up to their limit, and `readMeta` with `getBlockNumber` is
one step. `MCIndexer` is the instance.

### 3.9 Sums

`NaturalSums` defines `SumOver(f, S)` as the number of elements of a union of disjoint
intervals. Recursion would compute the same number, but a proof about it needs induction over an
operator; the cardinality of a finite set comes with theorems that can be cited.

## 4. The runs

| Run | Asks | Instance |
|---|---|---|
| `InvitesAndDemand` | is every invite paid for, the graph a forest, a nonce spent once, the node cap kept? does the waterfall ever oversell, underflow, starve hop 2 or shrink when demand grows? | every budget one; `tickets`: two accounts, invitations that stack, tickets that expire or are the launch team's; `structure`: three accounts, no tickets or deposits; `demand`: base size 40, expansion at 50 to 60, each hop's demand from 0 to 45, one unit at a time |
| `CrowdfundSettle` | do escrow and ARM always cover what is owed, is every account made whole, is the outcome final? | two accounts, deposits of 35 and 70 against caps 60/40/20, ARM loaded or short, all outcomes |
| `GovernorVeto` | do governor, timelock and tallies stay in step, is the right council ejected, is what is enacted voted and delayed, is the life cycle kept? | `replaced`: councils change under an open ratification, no minimum delay; `repeated`: a council that comes back vetoes again; `voted`: one proposal, votes that move between blocks; `counted`: one proposal, its quorum a share of a supply whose exclusions and balances move |
| `GovernorChange` | can proposals take governance apart, can a steward spend out of office? | `changed`: two proposals out of every governance call; `elected`: spends, removal, re-election, distribution |
| `Liveness` | is every deposit settled, every veto decided, every burn minted or given up? | `sale`, `governance`, `iris`, `mock`, each with its fairness (section 5) |
| `Submission` | are nonces handed out one at a time, is nothing broadcast twice or answered wrongly, does every call end? | `nonces`: three callers, four nonces; `posts`: a request and its retry, another key with the same calldata, a request without a key |
| `Bridges` | is a burn ever lost, claimed without a mint, relayed again, or given its attempts anew? | `iris`: two burns in two chunks, two attempts, two broadcasts; `mock`: two chains in parallel, a processed set of one; each with one kill. Deadlock is checked: the relays never stop |
| `Economy` | can a payment surprise, does laziness show, is a fee counted twice or dropped, does waiting to redeem cost? | `limits` and `steward`: four units, delay of two days, four days; `earning` and `sharing`: one beneficiary, one buyer, two collectors |
| `Pool` | can every unspent note be spent, does the pool hold what its notes are worth? | two trees of four leaves; `mixing`: every operation over five notes, shields of up to two, one message, fees up to half; `filling`: both trees filled by shields of one to four notes |
| `Indexer` | is what is verified complete, and what can hold the cursor back? | two logs, three blocks, ranges of at most two, two attempts, one command, one kill; `confirmed`: an operator who asks for confirmed blocks, two faults; `early`: one who asks for any, one fault |
| `EarlyVerify` | is only confirmed data verified? It is not: a finding | the same chain and settings, one command, no kill |
| `MockGiveUp` | is a message whose last retry failed dead-lettered? It is not: a finding | `mock` of `Bridges` without kills or disk faults |

**The findings.** `cctp-relay.ts:786` says that an exhausted message is recorded durably. Its
branch is unreachable: `processRetryQueue` (`:843`) calls `enqueueRetry` only below the limit at
which `enqueueRetry` would dead-letter. After its last retry a message is in no queue and in no
file. `MockGiveUp` shows the shortest way there.

`specs/CROWDFUND_INDEXER_RUNBOOK.md:33` says that only data as far behind the head as the
confirmation depth is verified. A numeric `--to` of `verify` or `repair` is never compared with it
(`cli/index.ts:30`): `EarlyVerify` verifies a block before it is confirmed and the cursor moves past
the confirmed head. Logs such a block gets later are fetched by nobody. `VerifiedIsComplete` is
about every other block.

**Bounds, and why they are enough.** Sizes in the sale keep the order of the deployment (minimum <
base < trigger < maximum), and the caps and deposits are chosen so that each of the outcomes occurs:
below the minimum, refund by allocation, base size, expanded size, demand above and below each cap,
and divisions with a remainder. Two accounts at three hops give up to six nodes, enough for an
account that invites itself, stacks, and settles before and after another; three accounts without
deposits fill every slot and could exceed them by one. The node count is what makes a rounding error
grow; the setting `demand` and the proofs cover the arithmetic for all sizes. In the governor three
proposals are the least that lets one proposal be vetoed, its ratification run, and a third change
the council meanwhile; the delays keep their order (minimum delay <= execution delays <=
ratification period, extended cycle < activation delay) and the clock outlasts a proposal that is
vetoed, restored with the minimum delay and executed (`replaced`, where that delay is shorter than
the proposal's own); with votes or balances that move, one proposal (`proposalCount' <= 1`) is
enough, as tallies and quorum belong to a proposal. In the economy one attestation is voted on at a
time (`MaxAttestations`). In the treasury a delay of two days and windows of one and two let a
pending change mature, be replaced and stay unnoticed while payments are made on both sides of it
(`MaxTime`, `MaxBalance`). In wind-down `OnlyReleases` and `OnlyShares` leave out, per setting, what
the other one covers. In the coordinator four nonces let three callers succeed, fail and collide
(`MaxNonce`); in the submission path (`WithinBounds`) the request without a key comes where nothing
fails and a file has at most two writes waiting, the least in which a newer write could be
overtaken. In the bridges two attempts are one retry and a last one, and `MaxTxs` bounds broadcasts.
A second burn comes before the kill and where no fault is chosen: on the Iris bridge it meets the
kill, reverts and failing calls, but no evicted mint (`IrisBounds`, one burn has those); the mock
has either both burns of the hub or, with both orders alike, the hub's first and then the client's,
before a retry waits (`MockBounds`). The processed set of one entry evicts with the second. In the
pool a depth of two folds batches of every parity and size into trees that were left at every
position, and five mixed notes or eight filled ones roll over (`MaxTrees`, `MaxNotes`,
`MaxMessages`; `MixedNotes`, `MixedBatch` and `MixedBalance` for the mixing setting); the proof
covers every depth. `AddNotes` bounds a batch by a tree's capacity, 65536 leaves at the code's
depth, which no call's gas can reach. In the indexer `MaxFaults` = attempts, so a range can be
exhausted (`SettingStep` leaves one to the operator who asks early); `MaxCommands`, `MaxCrashes` and
`MaxHead` bound the rest, and two blocks give the overlapping ranges (1,1), (2,2), (1,2) in which a
stale cursor matters. The settings with faults name them in `FaultSets`; without a fault a stronger
property holds, and the properties say which faults they exclude.

A mutant of the code is recorded for every property of every run, and violates it.

`CHECK_DEADLOCK FALSE` appears where the system may stop: the clock of an instance ends, a
settled sale or ended governance has nothing left to do, requests, nonces, notes and blocks run
out. `Bridges` checks deadlock.

## 5. Fairness

Liveness is checked under the fair specifications only, and only where the code, or anybody's
interest, provides the steps.

* **Sale**: time passes; somebody calls `finalize()`, which anyone may; every depositor calls
  the settlement function its outcome offers. Nobody else need act, and the last is in the
  depositor's own interest: the property says that nothing can block it.
* **Governor**: time passes; somebody calls `resolveRatification()`, which anyone may, also
  after wind-down. No fairness is assumed of voters, proposers, council or deployer.
* **Submission**: the event loop runs continuations, every awaited call or write settles one way
  or the other, the clients' timeouts included. A request need not come.
* **Iris bridge**: the loop runs on (weak); any single scan, lookup, attestation poll or
  resubmission may fail but not every one forever (strong fairness of the succeeding step, since
  the loop is elsewhere in between); the attestation comes; a pooled mint is mined or evicted.
* **Mock bridge**: weak fairness of each thread of control and of the queue's writes; strong
  fairness of a scan that is answered and of a retry whose backoff has run out.
* **Indexer**: the poller's loop turns and backoff windows elapse. The operator need do nothing;
  faults are bounded, so providers answer in the end.

## 6. What is proved

The theorems hold for every value of the constants that satisfies the named assumptions of the
modules. `GovernorInputs` and `RolesAssumption` to `InputAssumption` type the inputs and say that
voters, holders and accounts are finitely many. `GovernorDelays` is the relation between the delays
that the code's constants and `initialize()` establish: initial minimum delay <=
`MIN_EXECUTION_DELAY`, initial delays within the bounds for any later change, `MAX_EXECUTION_DELAY`
<= ratification period (14 days both in the code). `GovernorSelectors`: `initialize()` lists no
selector twice. Of the treasury only numbers are assumed, a positive delay and a positive scale.
`NonceAssumption` and `PostAssumption` type their inputs and say that requests are finitely many,
`EndAssumption` what section 3.4 says of the lock's funding, `IndexerAssumption` that depth, range
size and bounds are numbers and ranges not empty. `PoolInputs` types the pool's inputs and says that
trees have at least one level, that the pool is not one of the accounts and that a fee is less than
the whole (`MAX_FEE_MODULE_SHIELD_FEE_BPS` < `BASIS_POINTS`). `IrisAssumption` and `CctpAssumption`
type the bridges' inputs, and say that the retry thread is no chain. TLC evaluates them all on the
runs of their modules.

| Module | Theorem | Says |
|---|---|---|
| `CrowdfundProofs` | `NeverOversold`, `FloorIsGuaranteed`, `DemandIsMonotone` | the three properties of the waterfall for all sizes and demands |
| | `TypeCorrect` | types; in particular no balance goes below zero |
| | `OutcomeNeverChanges` | a finished sale is final |
| | `LaunchTeamNeverTakesPart` | the launch team is never a participant |
| | `InvitesFormAForest` | every node goes back to a seed or the launch team |
| | `BudgetsKept` | hop by hop, invites received are invites sent one hop up and the launch team's; nobody sends more than its budget; the node cap is kept |
| | `InvitesRedeemedOnce` | a ticket that charges an inviter burns a nonce that was free |
| | `SolventAlways` | escrow and ARM cover every refund and allocation still owed |
| | `SettlementIsExact` | the step that settles an account leaves it with its allocation paid, the rest back and the ARM due at that time, and no other step touches it |
| | `ProceedsAreEarned` | proceeds leave only a sale that met its minimum, and no more than was demanded |
| | `CursorIsComplete` | of the indexer: up to the verified cursor every block is confirmed and its log stored, but for blocks an operator asked for before they were confirmed |
| `GovernorProofs` | `TypeCorrect`, `TalliesCorrect` | a changed vote never underflows a tally; buckets match voters |
| | `TimelockInStep` | an operation is pending exactly while its proposal is queued |
| | `NothingEnactedEarly` | vote won, own delay waited, governance not ended |
| | `StewardBounded` | what passes by default only pays others, while its steward is in office |
| | `EjectionIsAimed` | a denied veto ejects only the council that made it |
| | `StandardIsRegistered` | a selector nobody registered makes a proposal extended, and none is in both registries |
| | `GovernorImplementsLifecycle` | the governor implements `ProposalLifecycle` |
| | `AlwaysOperable` | no proposal of the governor's takes its roles or outgrows its own delay |
| `EconomyProofs` | `TypeCorrect` | types; no payment takes the balance below zero |
| | `NobodyIsSurprised` | a payment keeps to the settings that anybody could read within the delay before it |
| | `StewardBounded` | no series of budgets lets a steward spend more than the largest limit in the shortest window |
| | `LazinessIsInvisible` | the lazy treasury implements `OutflowLimits` |
| | `RevenueEarned` | no fee counts twice and none is dropped but by an attestation that was overtaken, the ratchet keeps its pace, the lock covers what it owes, the denominator of redemption does not underflow |
| | `RedeemersAreEqual` | no step after wind-down lowers what an ARM is worth |
| `SubmissionProofs` | `OneNonceEach` | critical sections never overlap; the cached nonce is ahead of the account only after an eviction; while every reply arrives, a nonce is handed out once |
| | `AnswersHonest` | a client is told of its own broadcast, of an error only if nothing was sent, of the receipt's status |
| | `BroadcastOnce` | the lock is held around one broadcast; calldata that raced goes out once |
| | `KeySpentOnce` | a key whose broadcast is on disk is not broadcast again |
| `CctpProofs` | `CctpTruthful` | what the mock bridge counts as relayed, or reports as delivered, is minted |
| | `CctpKeepsUp` | what its cursor file has passed is in the queue file, minted or out of retries, while it keeps up |
| `BridgesProofs` | `RunsOneBridge` | the process with both bridges implements each of them |
| | `IrisInvariant` | the real bridge's queue, files and mempool agree, whatever fails |
| | `KeepingUpBridgesLoseNothing` | neither bridge loses a burn a scan has passed, while it keeps up |
| | `NothingIsClaimed` | the real bridge settles and reports as delivered only what is minted, if bytes tell burns apart |
| | `SettledIsNotPaidAgain` | no broadcast for a burn the pending file records as settled |
| | `AttemptsGrow` | no entry of the mock bridge's queue file is given an attempt back |
| `PoolProofs` | `SpendableAlways` | the roots are those of the leaves; every unspent note is where it was announced, under a published root, and its nullifier is unused |
| | `ValueAlways` | the pool holds what its unspent notes are worth; a shield in flight will be accepted whatever fee is taken |

The type theorems are proved without a run of their own: TLC checked them on the way to the
proofs.

**The governor's inductive invariant** (`IInv` in `GovernorProofs`). `TimelockAgrees` and
`EnactedAfterVoteAndDelay` are not inductive by themselves, because of the veto. A denied veto
puts the proposal back with the timelock's *minimum* delay, which may be shorter than the
proposal's own. That is safe only because the ratification vote was at least as long as any
execution delay, and because no second ratification can restore the same proposal meanwhile. So
the invariant keeps an account of open vetoes: an open ratification points at a proposal that is
queued, canceled and not executed, whose delay ends no later than the ratification's vote
(`OpenVetoes`), and no two open ratifications point at the same one (`OneOpenVetoEach`).
`QueuedHasPassed` carries the result of the vote past the freeze of tallies, `ProposalsSafe` what
was validated at creation, `SettingsSafe` that it suffices against every later change of
parameters, `OperationsFollow` the link to the timelock. The proof has one lemma per action for
types and one for the rest; steps outside governance share a lemma, as do changes of flags.

`OnlyRegisteredIsStandard` is inductive together with the same claim about the registry
(`StandardByVote`): every selector in it was there from the start or named by a proposal that was
executed, and a proposal's class is that of its selectors when it was made; and the setters keep
the two registries apart (`RegistriesDisjoint`). The refinement is
proved step by step from `IInv` and two more facts: a veto stands, or was denied for good and
cannot be repeated (`VetoedOnce`), and a ratification's vote starts at once and is never withdrawn
(`RatificationsRun`). A step that changes one proposal's state is one of `ProposalLifecycle`'s
moves, every other step leaves all phases alone or lets time pass for them.

**The sale.** `TypeOK` is inductive, but its proof is about more than types: the code's
subtractions are checked, so it shows that a refund is never negative (an allocation, after two
floor divisions, never exceeds the deposit behind it) and that `finalize()` always yields natural
ceilings. `LaunchTeamStaysOut` and `InviteForest` are inductive relative to it: for the first,
every path that creates a node is followed, the redemption of tickets the launch team signed
included; for the second, a node's parent never leaves the set and its count of invites only
grows. `OutcomeIsFinal` follows from the phase guards and from what settlement leaves alone. The
waterfall theorems rest on lemmas about rounding down, at the start of the same module, the sums
on `NaturalSumLemmas`.

Two more invariants carry the rest. `StructureInv` is about the graph: nobody outside it has an
invite or a deposit (`Outsiders`), the invites received at a hop are those sent one hop up and the
launch team's (`InvitesConserved`), and nobody invites past a budget, which keeps `finalize()`
within the node cap (`WithinBudgets`). `BooksInv` is about money: the totals are the sums of the
deposits and an open sale has settled nobody (`Totals`, `SaleOpen`); the escrow holds the refunds
of every account not settled yet, and beyond them at most the rounding buffer of a sold-out sale;
the ARM held covers the allocations (`EscrowSolvent`, `ArmReserved`). The step that needs an
argument is `finalize()`: per hop, the shares after two floor divisions add up to at most the hop's
ceiling (`HopShares`), and the ceilings to at most the sale, so what is left for refunds and claims
is enough whatever the divisions lose. Each later settlement takes one account out of the sum.
Where such a sum needs induction over a finite set, the proof takes the least size at which the
claim fails (`LeastElement`) and removes an element: the library's induction theorems are not
needed for that.

**The treasury.** `Notice` is about the past: which settings were readable at the end of a day
within the delay. Its invariant, `NoticeInv`, says that the settings of every recent day are on
record and nothing older is (`ShownLately`), that a pending value is always looser than the one it
replaces (`PendingLoosens`), and the two facts that tie the lazy contract to the past: a setting in
force is no looser than one shown within the delay (`InForceAsShown`), nor is a pending value that
matures within the delay of that day (`PendingAsShown`). The steward's bound (`StewardInv`) rests
on the fact that what the contract remembers of the steward's payments is what was paid, whatever
happened to the budget.
The refinement is proved step by step: activation is a stutter of the abstract settings, and
every change of a setting is a `Tighten` or a `Loosen` of `OutflowLimits`.

**The nonce coordinator.** That a handed-out nonce is free is not inductive: the cache is written
by a section that has left the node long ago, and `reset()` may come in between. The invariant
(`IInv` in `SubmissionProofs`) has three parts besides types. `Serialised`: whoever is inside is the
head of the promise chain, and each caller waits in it once, so there is one inside. `NoGap`:
unless the node evicts, every nonce below the one in use, or below the one cached, is mined or in
the pool. `Agreed`: while every reply arrives, the pool has no holes, no send is still under way
outside a section, and the nonce in use or cached next is one the node has not seen. Resets need no
assumption: they drop the cache, and the next seed comes from the node.

**Submissions.** `PostInv` follows a broadcast from the lock to the answer. One request holds the
wallet's lock (`LockHeld`); a request is broadcast once, under a hash of its own (`Broadcasts`);
with no kill, expiry or lost reply, dedup entries cover what was sent and nothing about to be sent
(`Deduped`); a key has one
submission at a time, and none once it has a record (`Owners`). Every copy of the records, in
memory, in the file or in a write that waits, is of broadcasts that were made (`CopiesTrue`), the
last write that waits, or else the file, is what memory holds (`Writers`, `LastWrite`), and a key
with a record anywhere has one in memory until records expire (`Remembered`).
`AnswersAreTruthful` and `RejectedWasNotSent` are then what the client is told. The parts about
the file are needed because a restart makes the file the memory.

**Revenue and wind-down.** `EndInv` joins the counter (`CounterInv`: the checkpoint is not ahead
of the collector, the recognised revenue is what was entrusted and attested, less what waits, or
less once an attestation was overtaken; one being voted on was proposed on what was recognised
then and adds no less than nothing) with
the lock (`LockCovers`: it holds at least the allocations less the releases) and the order of the
trigger (`Ended`: governance ended, counter and lock frozen). The denominator of a redemption is
written as a sum of parts (`Denominator`): holders, the lock's ARM that is unlocked, and the lower
of what the sale owes and holds. That what is withheld is covered is again rounding: entitlements
rounded down one by one add up to no more than the rounded total (`WithheldCovers`). Fairness is
proved per action: a redemption leaves the others a share that is no smaller because theirs was
rounded down (`ShareLeaves`); a claim, release or transfer moves ARM between parts without adding
to the sum; a sweep adds to a pool.

**The bridges.** Two theorems have hypotheses of their own. `KeepsUp` says that the relayer is never
further behind a chain than its lookback: a restart that is further behind starts at the lookback
floor (`resolveBootCursor`, by design) and the burns before it are passed over, so without it the
theorem would be false. In the runs the chains are no longer than the lookback and it always holds.
`BodiesDiffer` says that two burns never have the same bytes: `checkAttestation` picks the entry of
a source transaction by comparing bytes, so two equal burns of one transaction would answer for
each other. What makes the bytes differ is in the contracts: the hook data of a cross-chain
unshield has a nonce (`CCTPTypes.sol`), a shield's its ciphertext.

For the real bridge the invariant (`Inv` in `BridgesProofs`) relates memory, files and mempool.
Nothing is both waiting and settled (`Apart`); the files have nothing memory has not got (`Behind`)
and lack something only at the await where it is being written (`Saved`); an entry that was
broadcast refers to a broadcast of its own burn, in memory and on file (`Referring`); and what a pass
still has to do is in the queue in the state the pass found it (`Handling`), which is what makes
acting on receipts fetched earlier safe. `Scanned` then says that the cursor, the chunk in hand and
the cursor file pass only burns that are waiting or settled; `Minted` and `Reported` that what is
settled or reported is so, in memory and on file. Every step is of one of a few kinds (`Kind`: it
leaves the queue alone, saves, settles, dead-letters or rewrites one entry, scans, restarts), and
most parts are proved once per kind.

For the mock bridge `Holding` says where each thread can stand and that retries and scans exclude
each other, `Written` that a write under way is one its thread waits for. Writes of the queue file
overlap, so the file may be several snapshots behind: `Lagging` says that between rounds of retries
the file, and each snapshot, lacks only messages whose chain waits for a later write; `Growing` that
from the file through the snapshots to memory attempts never decrease. That the file recovers what
the cursor passed is the conjunction `Carrying`: a chunk's messages are in hand, queued or over
(`Chunks`) until the cursor passes them, and from then on in the queue or the retries' hand
(`InHand`), in the file and in every snapshot that may replace it (`OnFile`), or over.

`RunsOneBridge` takes both sets of theorems over to `Bridges`.

**The pool.** `PoolInv` has four parts. `TreeInv` is about the trees: the stored root and every
published one is the root by definition of a stretch of its tree's leaves, and `filledSubTrees`
has, at every level where the next leaf will be a right child, the finished left sibling
(`Frontier`). `NotesInv` adds that each note's leaf is where its event announced it, so that no two
notes share a nullifier. Then the nullifiers are those of the spent notes and the balance is the
worth of the others; `MessagesInv` says that every message has a first note that bears its fee. The
heart is `LevelIsFolded`: one level of `insertLeaves`, from an odd or an even position and for any
batch, computes the nodes of the level above and remembers what the longer tree needs, whatever an
earlier tree left in `filledSubTrees`; `BatchIsFolded` is the whole insertion. `LeafUnderRoot`
descends from a root to a leaf.

The tree is defined by recursion over levels and indices, and the library's induction theorems take
an operator that no installed prover can instantiate. The lemmas therefore induct over a *set* of
numbers (`UpwardInduction`, which rests on the least number outside it): first they show that each
recursive function exists up to every bound and read its equations off the one that CHOOSE picks,
then what holds of every level.

**The indexer** (the last part of `CrowdfundProofs`). `VerifiedIsComplete` is about the cursor in
the store, which both processes overwrite with values they read long before. The invariant
(`IndexInv`) therefore asks of every cursor that a process still holds what it asks of the stored
one (`SoundAt`): that the blocks up to it are confirmed or were asked for early (`Known`) and their
logs are stored or are of such blocks (`Kept`). Such a promise, once true, stays true, because
confirmed blocks stay confirmed, `early` only grows and rows are never removed. What makes a cursor
true in the first place is that a verified record's logs are stored (`RecordsAt`), which the audit
ensures (`ProcessAt`) and no kill undoes, and that the contiguous cursor counts blocks of verified
records only (`ContiguousIsSound`).

## 7. What is only model-checked

* Liveness (`EveryDepositSettles`, `EveryVetoIsDecided`, `EveryBurnSettles`, `EveryCallSettles`,
  `OnlyExhaustedRangesHoldBack`): temporal properties under fairness are beyond the prover.
* That the last retry of the mock bridge is dead-lettered: it is not (section 4).

## 8. What is not modelled, and what was seen on the way

The components of section 1 with status `not_modelled` in `PROJECT.json`, each with its reason
there: the yield vault and adapter (arithmetic of one call over an external vault and market),
the fee module and the relayer's fee checks (tables and pure functions over formats; `PrivacyPool`
and `Revenue` take their results as inputs), the gasless wrappers and the faucet (stateless
forwarding), the user interfaces, deployment scripts, tests and vendored code. What a partly
modelled component leaves out is in its note: the reserve distributor, delegation of ARM and its
bans, the redemption router, the set-up calls of the pool, NFTs and the token blocklist, the
finality levels of CCTP, the indexer's snapshots, alerts and API. `MAX_PAUSE_DURATION` is zero,
so a pause of the council ends in the block it begins in. Out of reach for good: zero-knowledge
proofs and cryptography (oracles where a model needs them), React components, Solidity gas limits
(except the node cap that exists because of them), and proxies' upgrades.

Reading the code against its comments while modelling showed more disagreements than the two
recorded with runs. They are listed for whoever works on these files next; the models follow the
code, and the properties are stated so that they hold of it.

| Text | Code |
|---|---|
| `relayer/lib/nonce-coordinator.ts:25`: a call that throws did not consume its nonce | the timeout at `relayer/modules/cctp-relay.ts:717` throws, and the send may still land: its nonce is then used and handed out again |
| `relayer/lib/nonce-coordinator.ts:79`: `reset()` re-seeds the next call, and is called when nothing is in flight | `relayer/modules/iris-relay.ts:1494` calls it whatever is in flight; a section that settles afterwards caches its own successor over the reset |
| `relayer/modules/idempotency-store.ts:107`: a failed submission means that no broadcast happened | a reply may be lost after the node took the transaction; nothing is recorded (`:134`), and a retry broadcasts again |
| `relayer/modules/iris-relay.ts:1089`: the cursor is never durable before the pending entries | `persistChain` swallows a failed write (`:1001`), and the cursor moves on |
| `relayer/modules/iris-relay.ts:583`: of several messages of one transaction, the own one is selected | two burns with equal bytes both match the first (`:590`) |
| `relayer/modules/iris-relay.ts:756`: dead-lettered messages were never delivered | a failed lookup counts as a dropped transaction (`:1469`); it may be mined after its message was given up |
| `relayer/modules/http-api.ts:236`: the outcome of the mint is recorded for `/cctp-status` | a message found to be already processed is settled without a status (`iris-relay.ts:1352`, `cctp-relay.ts:757`) and stays pending there |
| `relayer/modules/cctp-relay.ts:773`: the queue is persisted so that a restart does not strand a message | a failed write is swallowed (`:507`) while the cursor moves on |
| `crowdfund-ui/packages/indexer/src/ingest/reconcile.ts:2`: gaps heal, or persistent failures are escalated | an exhausted range is deferred by the backfill even when it was verified piece by piece meanwhile (`isDeferredByPolicy`), and not reported for the same reason (`getExhaustedRepairRanges`). If a stale cursor patch puts the cursor back before it, neither happens; `OnlyExhaustedRangesHoldBack` therefore does not ask that the operator is told |
| `contracts/governance/RevenueCounter.sol:160`: accumulated fees are not silently dropped | at a change of collector they are not; but an attestation that executes after a sync overwrites what was synced while it was voted on, and no later sync credits it again (the comment at `:138` warns of it). `RevenueIsEarned` allows that one loss (`overtaken`) |
| `specs/GOVERNANCE.md:737`: early and late redeemers receive the same whether or not buyers have claimed | the claim deadline ends what an unclaimed allocation counts for, and a sale finalized after the trigger adds to circulation; `RedemptionIsFair` names both exceptions |
