# VaultQuest: TLA+ models and proofs

VaultQuest is a prize-linked savings protocol on Stellar. Soroban contracts hold
the money, a TypeScript backend keeps a database projection of what clients intend
and what the chain confirms, a wallet kit and a web frontend show both and send
transactions. This directory holds TLA+ models of the parts whose correctness
depends on the order of steps, the TLC configurations that check them on small
instances, and TLAPS proofs of the properties that matter most.

`PROJECT.json` maps every definition to the source lines it models, lists the runs
with their properties, one mutant per checked property, the disagreements found, the
hazards of the code and the theorems.

## 1. Inventory

### Contracts (`contracts/drip-pool`)

| Component | State | Hard behaviour | Correct when |
|---|---|---|---|
| Pool governance (`lib.rs`) | signers, threshold, epoch, proposals | electorate changes while proposals are half approved; delay and expiry | only a quorum of today's signers applies anything; governance can neither lock up nor reopen |
| Pool accounting (`lib.rs`, `vault.rs`) | participants (V1 and V2 records), pool totals, withdrawal queue, token balance | several ways to withdraw the same principal; partial payments; emergency in between | the pool stays solvent, nobody is paid twice, the queue is FIFO |
| Prize rounds (`lib.rs`) | rounds, deposits per round | settlement racing finalization; rounding; absent signers | shares fit in the settled total and nothing settled changes |
| Strategy adapter (`strategy_adapter.rs`) | strategy, rotation phase, deployed principal | losses and false reports, rotation interrupted half way | principal is attributed to the strategy that holds it |
| Upgrade proxy (`proxy.rs`) | current code, upgrade proposals, migrations | signers change under a half-approved upgrade; several upgrades alive | an upgrade starts from the code it was proposed for and has a quorum of today's signers |

### Backend (`backend/src`, `scripts`)

| Component | State | Hard behaviour | Correct when |
|---|---|---|---|
| Job leases (`leaseService.ts`, `cron.ts`) | one row per job: worker, token, expiry | ticks of several replicas; statements delayed after their times were computed; crashes | holders whose lease is fresh exclude each other; nobody blocks a job for good |
| Action ledger (`ledger.ts`, sweeps of `reconciler.ts`) | actions, parked events, action leases, Redis copies | event before hash; read-then-write; late events | a decided row has the chain's word behind it; one transaction, one action |
| Repair proposals (`reconciler.ts`) | drift, plans, approvals, audit, quarantine | racing approvers and executions; plans that are stale when applied | nothing is applied without its approvals; financial drift reaches a person |
| Stellar indexer (`stellarIndexer.ts`) | cursor, checkpoint, quarantine | failing writes, restart, Redis in front of the row | no event is left behind |
| Escrow settlement (`escrowService.ts`, roll-back in `reconciler.ts`) | settlement per vault | a submission that timed out but landed; overlapping calls; calls with and without a payee; a roll-back that comes late | settled means paid, and seen where a payee is named; paid once |
| Quests (`questService.ts`) | progress, grants, payout actions | overlapping sweeps, crashes, aborted transactions | a completed quest is credited once |
| Sessions (`walletAuth.ts`, `adminSessionService.ts`) | challenges, sessions, per-process caches | requests racing on one nonce or token | one session per signature; closed stays closed |
| Reminders, backups, read models, list cache | notifications; dumps; pages over a changing ledger; Redis and memory | overlapping sweeps; killed dumps; rows that move while paging; writes between a fetch and its store | reminded once; a restorable dump remains; a page leaves no row of its list out; an old list is served only for a known cause |
| Draw proofs (`drawProofService.ts`, `lib/draw-proof*.ts`) | proofs, cards | failed RPC reads, races to create, payloads without the draw's ledger, late checks in the browser | a proof is grounded in what the chain revealed, before the draw where the payload names its ledger |
| Deployment and release checks (`scripts/*`, `server.ts`, `env.ts`) | manifest, three environments, TTLs | environments edited between generation and attestation; two queries apart | parts that attest agree; a clean report is ahead of every expiry |
| Critical reads (`criticalReadPolicy.ts`, twice) | samples, stability scores | stale, late and lying providers | what a quorum authorizes was true |
| Amounts (`amount.ts`, `safe-amount.ts`) | exact amounts | widths, rounding, signs | shares fit, display reads back |

### Client (`stellar-wallet-connect`, `components`, `app`, `lib`)

| Component | State | Hard behaviour | Correct when |
|---|---|---|---|
| Query cache and hooks | entries by key, watchlist | invalidation during a fetch, polling, outages | an invalidated view is fetched again; data never goes backwards |
| Transaction flow | reducer, persisted record | reload, wallet switch, timeout and retry | success was confirmed, a reload recovers what was shown |
| RPC pools | node health | concurrent calls over one pool | a submission is sent once |
| Wallet tabs | connection per tab, localStorage | other tabs, checks that overlap, answers of the extension that come late | a disconnect is not undone by the checks under way |
| Dialogs, retry queue, forms, consoles, timers, banner, notifications, archive, custom endpoints | local component state, localStorage | limits that move, timers that outlast a render, overlapping requests, several pages | what is sent was checked; what is shown is so; what was decided stays decided |

How they interact. Clients call the contracts directly and tell the backend's action
ledger what they sent. The indexer polls contract events and reconciles them into
ledger rows; events that come before their action are parked. Confirmed draws get a
proof, confirmed deposits advance quests. The cron jobs of the reconciler, the
indexer, quests, backups and reminders all run under job leases, because every
replica schedules them. Inside the pool contract governance, accounting and rounds
share one storage: governance applies proposals to the pool's totals, accounting
moves the tokens, and rounds keep their own books; the proxy reads its signers from
the pool.

## 2. Modules

### Conventions

*Atomicity.* One contract invocation is one action. The Soroban host undoes all writes
of an invocation that returns `Err` or traps, so a rejected call is no step: guards are
the conjunction of the code's conditions and early returns. Two consequences are worth
knowing. `approve` and `execute_proposal` remove an expired proposal and then return
`Err`, so the removal never happens; the same goes for the proxy's `Expired` mark. And
the code's own roll-back branches after a failed transfer, as well as `Pool.locked`,
are unreachable within one invocation. In the backend one SQL statement is one action
(one commit, where the statements of a transaction cannot be told apart), and
everything the code computes before an `await` is captured in the caller's own state.
In the client a step ends at every `await`, timer and render; a handler reads the state
of the render that made it.

*Names.* Actions carry the names of the functions they model; `f_read` and `f_write` are the
parts of `f` on the two sides of an `await`. Definitions named `X_Something` directly
before `X` are mutated forms of `X`; they show that the property concerned can fail, and
no specification uses them.

*Clocks.* Ledger sequence and timestamp are one clock in `PoolAccounting`. The
processes' clocks agree in `JobLease`.

*External.* Horizon, the RPC nodes, Freighter, `pg_dump`, strategies and signatures are
not in the repository. Each is modelled by every answer the code provides for: success,
refusal, a late or lost answer, and where the code distrusts it, a false one.

### Contract modules

* `PoolGovernance`: `admins`, `threshold` and `epoch` are the electorate, `proposals` the
  stored proposals with their electorate snapshot, `pool` and `custody` what fund-moving
  proposals touch. Depositors and strategy calls are the environment (`PoolActivity`).
* `UpgradeProxy` extends it: the proxy has no signers of its own, every call reads those of
  the pool, and its steps interleave with the pool's.
* `StrategyRotation`: set, propose, validate, drain, reconcile, activate, cancel, deploy,
  recall, harvest, emergency recall. The strategy is external; it may refuse, redeem less
  than asked, lose tokens between calls and report what it likes.
* `PoolAccounting`: `part` and `legacy` are the V2 and V1 participant records, `queue`, `head` and
  `pending` the withdrawal queue with its duplicate guard, `custody` the token balance.
  `fulfill_withdrawal_queue` is one action whose loop (`FulfillLoop`) is a recursive function over
  the loop's state (`FulfillStart`, `FulfillNext`). `WithdrawUsers` and `LockedUsers` say which of
  the two withdrawal calls an account's client uses; the runs that need them apart keep them
  apart.
* `PoolRounds`: `rounds` and `deposits`. The calls reserved to signers are open, because who
  may call is the subject of `PoolGovernance`.
* `GovernanceProofs` (pool, proxy, strategies), `PoolRoundsProofs` and `PoolAccountingProofs` hold
  the theorems, `SumProofs` the facts about sums and induction they share.

### Backend modules

* `JobLease`: `Fire` computes `expiresAt` and issues the INSERT, `Create` is that INSERT or its
  unique-key failure, `TakeOver` the conditional UPDATE, `Heartbeat` the timer that computes
  `now`, `Renew`/`RenewFails` its UPDATE whenever it executes, `Release` the DELETE, `Crash` the
  death of a process. A heartbeat in flight when the job ends executes later.
* `ActionLedger`: requests (`createAction`, `attachTxHash`, `cancelAction`), `reconcileEvent`
  with its parked events and their Redis copy, `sweepOrphans`, `recoverSubmittedLeases`, at
  READ COMMITTED: only the unique index on `tx_hash` and row locks order two writers.
* `RepairProposals`: `detectDrift`, `buildRepairPlan`, and every statement of proposing,
  approving and executing a plan while the rows it is about keep changing.
* `EventIndexer`: one tick with its fetch, decode, quarantine, batch, per-event fallback and
  registry writes, and the write-behind checkpoint; it is shown to implement `AtLeastOnce`.
* `Backfill`: the operator's script over a range of events, dry or not, fetched page by page up to
  the script's limit, beside whoever else records the same transactions.
* `EscrowSettlement`: `settleVault` and its retries, with and without a payee to verify, against a
  chain that may take a transaction and lose the answer; the recheck; and the reconciler, which
  finds a vault resolving for too long (`findOrphanedSettlement`) and later rolls it back whatever
  it has become (`rollBackSettlement`).
* `QuestGrants`, `WalletSessions`, `CronJobs` (reminders, backups), `DrawProofs`, `LedgerViews`:
  the services of those names. A hash is the tagged value it is taken
  of. In PostgreSQL a unique violation aborts the transaction also when it is caught. A dump holds
  nothing, its table of contents or everything, and a connection string what is written in it and
  what is omitted. A draw whose payload names no ledger takes the time at which it is read for one.
  A list is filtered by status and type, page by page, as the code filters it.
* `Deployment`: manifest and attestation on three hosts; TTL report and provenance.
* `BackendReads`: the quorum policy the backend and the wallet kit each have, and the
  read-through cache of the category list.
* `Amounts`: a purse that is filled from payloads and typed texts, shown and shared out in exact
  arithmetic. The floating-point formats of `formatting.ts` are not part of it; where one is read
  back, in the app's deposit dialog, `DepositDialogs` has it.
* `DeliveryProofs` (leases, indexer, and the client's query cache), `PayoutProofs` (ledger, escrow,
  quests) and `ServiceProofs` (all other services, and their composition) hold theorems.

### Client modules

* `QueryCache` (`queryClient.ts`, `queryKeys.ts`, `hooks.ts`, `apiClient.ts`): what a view shows is
  known by its version at the source.
* `TxFlow` (`txStateMachine.ts`, `PoolDetail.tsx`), `RpcPools` (`horizonPool.ts`,
  `stellarRpcPool.ts`), `WalletTabs` (`walletService.ts` with the two components that check it,
  `StellarWalletIndicator.tsx`, whose checks overlap in a tab, and `HeaderWalletStatus.jsx`).
* `DepositDialogs`, `RetryQueue`, `ClientForms` (pool creation, support), `CustomRpc`: what leaves a
  form. The amount of a deposit is a text: what it shows and what the dialog reads in it.
* `AdminConsole`: proposals, settings with their simulation, pool approvals,
  replays.
* `NotificationCenter`, `TimedWidgets`, `StatusBanner`: what a page shows.
* `Exports`: the round archive, and an activity file put together from pages. `SavingsMirror`: the
  mock savings and quests, and the predicates of `lib/conformance-spec.ts` against all of its
  fixtures.
* `ClientProofs` holds the theorems about all of these but the query cache.

### MC modules

`MCServices`, `MCClient`, `MCDelivery` and `MCPoolGovernance` each hold several systems that
do not share state. The variable `scenario` says which of them runs in a behaviour: the
others keep their initial state (`Keeps`, `Frame`), so a run explores the union of the
systems' state spaces, not their product. A property of such a run is a conjunction of
the modules' own, grouped by what they promise, and is violated as soon as one part is.
`PoolRounds` is one of the scenarios of `MCDelivery`, because a locked round is one more thing
that must eventually happen. `PoolAccounting` is checked as it stands, with the accounts given
in its configurations.

## 3. Runs

| Run | Property | What it says |
|---|---|---|
| `services` | `LedgerSound` | a row is confirmed or reverted only on an event of that outcome for a hash it carried; no transaction counts for two actions; a decided row holds no lease |
| | `RepairsControlled` | no step of a plan is applied before the approvals it needs, by others than its proposer, also when two approvers race; executed plans leave no financial drift without a quarantine row |
| | `SettlementSound` | settled or awaiting verification means the recorded transaction took effect; a call that finds one recorded never submits; a row that names payee and amount resolves only after the verifier saw the transfer, unless calls overlapped; paid once unless an answer was lost, calls overlapped or a roll-back hit a vault paid since |
| | `GrantsCreditOnce` | a completed quest has its grant, a grant is credited at most once, granted means credited |
| | `SessionsSound` | a challenge opens one session, a logged-out session stays so under a racing refresh, a revoking server refuses |
| | `ProofsSound` | a proof is of a confirmed draw and a seed the chain revealed for it; where the payload names the draw's ledger, committed before it and one per round; verified is sound; a badge is of the proof it shows |
| | `OperationsSafe` | a restorable dump remains; half a dump is restored only by a drill that chose it beside a running dump or after a failed one; no drill writes production; attested parts agree; a clean TTL report is ahead; reminders come once and not when disabled; a back-fill without failures left no transaction out of what it fetched |
| | `ReadsAreTrue` | quorum reads were true and fresh at their ledger; a walk over a filtered list leaves no row out but those a list of submitted actions drops in its cursor's place; claimable was paid; an old list is served for one of three causes; amounts survive display and division |
| | `StandsFirm` | a confirmation takes actions out of the portfolio only when its action was created before all that count and names another asset; a repeated creation event does not revive a deactivated pool |
| `client` | `OutcomesAreReal` | success was confirmed where the caller waits for it, a reload recovers what was shown, back-off really retries, a transaction is submitted once, critical reads ask a live node, an exported file is whole, claims pay what was earned |
| | `SentWasChecked` | deposits, pools, tickets, parameters and endpoints passed their checks in the state in which they leave; a deposit differs from what was checked only after an edit during the kit's refresh or by a separator in the app's text |
| | `ShownIsSo` | counts, progress, exports, banner, prices, countdowns and refreshes agree with the state behind them |
| | `ChoicesStand` | a disconnect is undone by none of the indicator's checks until one met another address; a dismissal, a decision and an error toast are not undone by what was under way |
| `delivery` | `LeasesExclude`, `NoStepBack` | fresh leases exclude each other, none is taken over early; a view never goes back to older data |
| | `NothingLeftBehind`, `ImplementsDelivery` | the cursor never runs ahead of what was handled; the indexer implements at-least-once delivery with its checkpoint as the place to resume from |
| | `ExpiredLeaseReclaimed`, `EventuallyHandled`, `InvalidatedIsRefetched`, `LockedRoundSettles` | liveness, see below |
| | `RoundsConsistent`, `NoOverDistribution`, `RoundsFrozen` | exact snapshots, shares fit in any order of claims, settled is frozen |
| `pool_governance` | `ProposalsWellFormed`, `EpochPinsElectorate`, `AppliedByCurrentQuorum`, `NoStuckProposal`, `QuorumStaysReachable` | the electorate of a live proposal is today's, today's quorum applies it, any stored proposal can be cancelled, no lock-up |
| | `ChangesAreGuarded` | signers change only through proposals, emergencies wait for the timelock, resuming needs covered liabilities |
| | `UpgradeLineage`, `StrategyAccounted`, `ReplacementsGuarded` | upgrades form one chain of versions; principal is attributed to the strategy that holds it, whatever it reports; replacements waited and were agreed on |
| `pool_solvency` | `AccountsBacked`, `PrincipalKept` | the pool is solvent, queued amounts are backed, nobody is paid twice, principal falls only by what is paid |
| `pool_queue` | `QueueConsistent`, `QueueFIFO` | queue and duplicate guard agree; first come, first served |
| `pool_emergency` | `NeverOverpaid`, `EmergencyRateKept` | an exit never worsens the rate of those who stay |

Violations, each against a line of the repository:

| Run | Shows |
|---|---|
| `job_lease_overlap` | a late `releaseJobLease` deletes its successor's row; against `cron.ts:30` |
| `pool_withdrawn_twice` | `withdraw_locked` pays what `withdraw` already paid; against `test.rs:940` |
| `pool_exit_while_queued` | the queue pays principal that the emergency exit wrote off; against `test.rs:940` |
| `pool_legacy_deposit` | `deposit` forgets the V1 principal; against `lib.rs:437` |
| `admin_timelock` | the proposals page offers a high-risk proposal after as many milliseconds as its delay has seconds; against `lib.rs:82` and the page's own words at `page.jsx:128` |

*Bounds.* Every bound is a constant in a guard, or an operator of an MC module named `...Bound`.
Three accounts are the fewest with a majority, a minority and someone rotated out; three proposals
let one be applied while another is half approved and a third is stale (`ElectorateBound`);
`PoolBound` keeps the payloads that move funds to two proposals, with every ledger up to expiry.
`ProxyBound`: two upgrades, or one beside proposals of the pool, which is what a stale upgrade and
a stale electorate need. In `PoolAccounting` two accounts and amounts up to 3 suffice for every
way two claims compete for one token, for a partial payment and for a rounded share; the clock
reaches past lockup, deadline and expiry. In `PoolRounds` a total of 10, or of 0 after
`finalize_round`, over principals of up to 3 rounds the shares of three accounts. `LedgerBound`
and `InFlightBound`: two rows compete for one hash, or one row meets two hashes, and of two
requests, the indexer and the sweeps two are under way at once; races in this code are between two
writers of one row. The services have two workers, callers or tabs, since every one of their races
is between two; `RepairProposals` has three operators, so that two approvers race over the plan of
a third; `MaxCalls`, `MaxTurns`, `MaxVisits` and the like leave room for a failure, a crash and a
retry of both. `MaxMishaps` 2 lets a batch fail and a write of its fallback fail too, or a crash
meet a Redis outage. The streams of `EventIndexer` are the shortest with a pool event, two events
of one transaction, a spoofed and an undecodable one in every relevant order. With a TTL of 2 a
clock of 3 (`delivery`) lets a lease expire and be taken over, and one of 4 (`job_lease_overlap`)
lets the successor's expire too.

`Backfill` sees every range of up to three events over two transactions, in pages of one and with
a limit of two, so that a range may end on a page, on the limit or beyond it. A critical read may
be of a ledger two closes old with a freshness of one. A connection string is of production, of
its neighbours in each field, or omits the database. The balance of the app's dialog
(`AppBalance`) is where separators begin (`GroupTokens` tokens), the other amounts are below. In
`WalletTabs` two checks are under way in all (`MCTabNext`), in one tab or in two, one tab at a
time awaits the wallet, and the extension has two accounts, the first of them in use at the start.
`CustomRpc` has a field of the wallet's EVM client and one of the client's own, and URLs with and
without a slash at the end; the EVM node is typed with one and not left blank, its Test is clicked
once before the first save (`MaxProbes`), two saves are of different values and of one the Horizon
node is heard first (`MCCustomRpcNext`). The administrators' clock has two milliseconds in a
second (`MsPerSecond`), which is enough to tell the units apart. Parts of a module that share
nothing move one at a time: savings and quests (`MCMirrorNext`), a wallet's rows and the pool
registry (`MCViewNext`), lifetimes and provenance (`MCReleaseNext`). Alternatives that the code
treats alike are taken once: the order of two like requests, deposits or calls (`RequestsInOrder`,
`MCQuestNext`, `MCPoolNext`), the operator who proposes (`MCRepairNext`), the first of two
balances (`MCCriticalInit`), wrong values of a field (`MCPoolFormNext`), the round of a legacy
proof (`MCProofsInit`); a settlement is a release or a distribution with a payee or a refund
without one, which have both final states (`MCInputs`), and a vault that was paid twice is looked
at no further (`MCEscrowNext`). `MCBannerNext`: an endpoint that hangs or refuses recovers before
it does the other.

*Symmetry* is used over accounts other than the founder, code versions and strategies
(`pool_governance`), and over interchangeable actors (`services`, `client`), in runs without
temporal properties. Deadlock is checked where the system cannot stop; elsewhere the
instances end when their bounds are exhausted.

*Fairness.* `JobLease`: cron keeps firing, statements return and jobs end, so weak
fairness of acquiring, of a heartbeat's return and of ending; heartbeats and crashes are
not fair. `EventIndexer`: cron starts a tick every minute and its statements return, and an
undecodable event halts the stream until a release knows it, so weak fairness of the tick
and of `DecoderFixed`; nothing makes Redis or the checkpoint's write-back fair.
`QueryCache`: React renders what was notified, requests end one way or the other, outages
end. `PoolRounds`: time passes, and somebody calls `finalize_round`, which is open to
everyone, once a round is overdue; no signer is assumed to act.

*Restrictions of the passing runs.* `pool_solvency` has no prizes and no emergency, and each
client keeps to one way of withdrawing, because the code is not solvent otherwise. The rounds of
`delivery` assume that signers prune with the full list of participants. Several properties except
what the code gives up, and say that it gives up nothing else; section 6 has each exception with
its line. `PaidOnceUnlessLost` excepts lost answers, overlapping calls and a roll-back of a vault
paid since it was found adrift, `ResolvedIsVerified` overlapping calls. `EventIndexer`'s `lost` is
the set of events whose own write failed. `ProofsAreGrounded` says "before the draw" and "one per
round" only where the payload names the ledger. `PagesCoverTheWalk` excepts lists of submitted
actions, `OldListsHaveACause` names three causes, `HalfRestoresAreExcused` dumps under way or
failed. `SignedWasChecked` excepts two ways to change an amount, `OnlyAnOlderActionInverts` the
action created before all that count. `CheckNeverReadopts` is about the indicator, in one tab,
until a check has met another address: `HeaderWalletStatus.jsx`, which no page imports, keeps no
memory of a disconnect. `DrawProofs` has the RPC client its tests construct, which `app.ts` does
not give it.

## 4. Proofs

Eight modules hold theorems. Apart from the facts about sums every one says of a
specification that it keeps an invariant, takes only certain steps or implements another
one. They hold for all values of the constants, from the named assumptions of the module
that declares them (finite sets of accounts, natural amounts and delays); where a theorem
has a hypothesis of its own it is named below. The argument is always the same: an
inductive invariant that implies the property, one lemma per action that keeps it, and a
last temporal step. TLC checks the same properties on the instances of section 3. Every
safety property of a passing run is stated by a theorem; what is left to TLC alone is at
the end of this section.

*Compositions.* `ContractsAreGoverned`, `DeliveryIsSound`, `ServicesAreSound` and `ClientIsSound`
say that the specifications the runs check (`MCSpec` of the four MC modules) keep all their safety
properties. Each rests on a lemma that a behaviour of the composition is a behaviour of every
component: a step of it is a step of the component or leaves its variables alone. The bounds of an
MC module only take steps away, so that nothing about a component is assumed from them. Two have a
hypothesis: the payloads about signers that `MCPoolGovernance` proposes are among `Payloads`, and
a process runs one tick at a time (`OneTickPerProcess`).

*Governance* (`GovernanceProofs`). `TypeCorrect`, `ElectoratePinned`, `QuorumApplies`,
`AlwaysCancellable`, `BootstrapEnds`, `ProposalsStayWellFormed`, and the action property
`GuardedChanges`. `GovInv` is the type invariant, the pinning, that approvals come from the
proposal's snapshot, that no proposal is from a later epoch, and that there is a signer
at all. The code compares approvals with the snapshot taken at creation; that this
equals today's electorate needs the argument that every change of signers or threshold
raises the epoch and that no proposal is from the future, otherwise a raised epoch could
meet an old proposal. `ApplyStep` says what an applied action does to the electorate.

*Upgrades and strategies* (`GovernanceProofs`). `UpgradesFormLineage`, `UpgradesAreGuarded` and
`ReplacementsAreGuarded` rest on `ProxyInv`, which holds beside `GovInv`: `RowKnows` says that a
proposal of the generation in force was made against the logic in force and one of the epoch in
force under today's electorate. The proxy's steps interleave with the pool's, so the key lemma is
`EpochStep`: the electorate changes only together with its epoch. `StrategyStaysAccounted` and
`RotationsAreGuarded` rest on `RotationInv`: what is booked as deployed is out at the strategy in
use and nowhere else (`Booked`), a strategy has the gains it made (`GainsHeld`), the pool and its
strategies hold what is owed, the yield and those gains until a strategy loses tokens
(`HoldingsCover`), and the candidate on file is the last proposal (`CandidateKnown`).
`HoldingsCover` without the gains is what the run checks and is not inductive: a gain may be
credited later.

*Accounting* (`PoolAccountingProofs`). The operations are first reduced to what they do to one
record (`Starts`, `Shifts`, `Changes`), to none (`QuietStep`), or to one turn of the queue's loop
(`Turned`); every theorem is then about these.

* `QueueStaysConsistent` (with the types), by `PoolInv`, and `QueueIsServedInOrder`, for any
  participants, amounts and queue. The loop of `fulfill_withdrawal_queue` is a recursive
  function of the number of turns; `FulfillSound` is proved for every number of them.
* `ExitsKeepTheRate`: an emergency exit never worsens the rate for those who remain.
* `PoolStaysBacked`, by `BackedInv`: records are fair, a pending row is backed by the principal
  of its owner's migrated record, and all books together are at most what is free. Hypotheses: no
  client uses both ways of withdrawing, and there are no prizes, emergencies or escrow
  releases. V1 records are allowed.
* `PrincipalIsKept`, by `PaidInv`. Hypothesis: no V1 records.
* `NobodyIsOverpaid`, by `OverpaidInv`. Hypothesis: nothing is queued; prizes, emergencies,
  recapitalization and sweeps are allowed.

The hypotheses are not conveniences: without them the code does violate the property, and
`pool_withdrawn_twice`, `pool_legacy_deposit`, `pool_exit_while_queued` and section 6 show how.

*Rounds* (`PoolRoundsProofs`). `RoundTypes`, `RoundsPayWithinTotal`, `RoundsAreFrozen` by
`RoundInv`, which is inductive because a total is zero until settlement, which alone writes it.
`RoundsAddUp` by `SumsInv`: a snapshot is the sum of the deposits and all shares still to be
claimed fit in what is left, which needs that no deposit is filed under an id not opened yet.
`NoClaimIsRefused` adds `Divisible`, that a deposit never exceeds the snapshot it is divided by:
the checks with which `round_claim` guards its arithmetic never fire. `RoundsStayConsistent` has
the hypothesis that signers prune with the full list of participants, because `prune_round` looks
only at the list it is given.

*Sums* (`SumProofs`). `SumUpdate` and the lemmas beside it say how a sum over a finite set changes
with one entry, compares, splits and bounds floor shares (`SumProportion`). The library's
induction theorems take an operator as a parameter, which no installed prover can instantiate;
here induction is over a given set of naturals or of subsets (`NaturalsByInduction`,
`SubsetsByRemoval`), which the library's theorem on smallest elements yields. With it the modules'
recursive functions are shown to be what their equations say, for every length: the queue's loop,
the filter of the archive, the seeds of the notification center, the powers of the radix.

*Delivery* (`DeliveryProofs`). `LeasesStayExclusive` by `FreshOwnsRow`: a tick whose lease is
fresh by its own knowledge is the one the row names. Hypothesis: a process runs one tick at a time
(`job_lease_overlap` shows that the code does not ensure it and what follows). `TakeoversWait`
needs no hypothesis. `NothingStaysBehind` by `IndexerInv`: up to the cursor and up to any event
still to be written each event is handled or to be written (`NothingPassed`), up to both
checkpoints each is handled, and nothing is written from an undecodable event on (`BelowGap`).
`IndexerDelivers` is the safety part of the refinement of `AtLeastOnce`: the initial state maps to
one, and each step to `Handle`, to `Move` or to a stutter. `ViewsNeverGoBack` by `CacheInv`: one
request at most is under way for a view, its answer is no older than what is shown, and the stored
copy of the saved pools is what is shown of them. `NothingIsTakenBack` joins it with
`TakeoversWait`.

*Payouts* (`PayoutProofs`). `SettlementStaysSound` by `EscrowInv`: what a call holds (`CallHolds`)
and that while nothing was lost, no calls overlapped and no roll-back came late, what took effect
is recorded or in the hands of one verifying call (`UndisturbedPaysOnce`). A roll-back empties the
row, so that nothing about what was paid can rest on the row alone. `GrantsStayCreditedOnce` by
`QuestInv`: the rows of one quest agree (`RowsAgree`) and what a sweep read is still true in the
part it relies on, since no grant disappears and no credit is taken back (`SweepKnows`).
`LedgerStaysSound` by `LedgerInv`: at READ COMMITTED a handler writes on the strength of an
earlier read, so `CallKnows` says what of it must still hold; an event is applied only to
an action that has carried its hash, also if another request changed the row between.

*Control* (`ServiceProofs`). `RepairsStayControlled` by `RepairInv`: approvals are never the
proposer's own, and an execution under way has the approvals it needs, works off steps of its plan
and has sent financial drift to review when it ends (`CallRests`). `SessionsStaySound` by
`SessionInv`: there is a session exactly when its challenge is consumed, it was opened once, a
request about to write has read a session that exists, and a revoked admin row is out of its
revoker's cache for good. `DrawProofsStaySound` by `ProofsInv`: a call past its reads holds one
usable event of a confirmed draw, two rows of one round and one ledger are the same row, and the
one check that may still set the card's status is of the proof shown.

*Reads* (`ServiceProofs`). `ReadsStayTrue` has one invariant per reader. `WalkHolds`: a client
that walks the pages of a filtered list has seen every row of the start that still matches from
its cursor on, and none twice, while newer rows arrive in front and rows change their status.
`CriticalHolds`: an honest provider's sample is the balance after a ledger that has closed; a
quorum then has an honest member because the liars are fewer (assumption `LiarsAreFew`).
`CacheHolds`: what is cached, or what a lookup will still store, is current unless a write has not
been invalidated yet, an invalidation failed, or a lookup begun before it stored after it.
`AmountsHold`: the shares paid are those of the purse, and what is displayed reads back by
`Powers`. `PortfolioStandsFirm` is by `RowsHold`.

*Operations* (`ServiceProofs`). `OperationsStaySafe`: a sweep works on what was enabled when it
read the preferences (`RemindersHold`); pruning follows a dump that completed the same day, the
newest file is complete while no dump runs and the last did not fail, and a drill that chose its
file then finds it complete or gone (`DumpHolds`, `DrillHolds`); what a page or server attests is
what the manifest named (`DeployHolds`); what a TTL check read of an entry is no more than the
entry has (`ReleaseHolds`); every event of a back-fill before its position is counted once and on
record unless a failure is counted (`ScriptHolds`).

*Client* (`ClientProofs`). One invariant per machine; the theorems combine them.

* `FormsAreChecked`: a step back to the input takes back what was checked, and an amount differs
  from it only in the two ways named (`CheckedIsCurrent`, `ReviewedIsValid`); a verdict on an
  endpoint is of the URL that answered, up to the slashes at its end (`VerdictsAreEarned`). That a
  deposit adds no warning to a pool needs the arithmetic of exposure and idle ratio for any pool
  whose minimum is at most 10000 basis points (`DepositAddsNothing`).
* `ChoicesAreKept`: an indicator's tab that disconnected suppresses the address it left until it
  meets another (`PartedIsSuppressed`), for any number of checks under way; and while nobody else
  has written under a page's key, the key holds what the page shows (`PagesRemembered`);
  `ErrorsNeverExpire`.
* `OutcomesHold`: the stage of the flow follows the run that waits and the stored record follows
  the screen (`TxShape`, `SlotFollows`); a row that waits for its back-off has its timer
  (`BackoffShape`); a call sends one request per attempt for a critical read and one at all for a
  submission (`CallFits`); the lines of an export end where its cursor is (`Continues`); what a
  saver was paid is recorded (`MirrorShape`).
* `PagesTellWhatIsSo`: beside the invariants above, `ArchiveHolds`: records are sorted by a
  permutation that exists (`OrdersAreListed`) and that gives one document (`OneDocument`), so that
  the export does not depend on the order of its source; the page shows the newest that match
  (`KeepsOf`). `BannerHolds`: once no check from before a trouble is awaited any more, each later
  check has told of it, is awaited or is about to begin. `FeeHolds`, `CountdownHolds`,
  `BridgeHolds` and `RefreshHolds` are about prices and timers. That records of one id are the
  same record is an assumption of `Exports`: the id is the key of the list.

*Only model-checked.*

* The four liveness properties, because the prover has neither fairness nor ENABLED:
  `ExpiredLeaseReclaimed`, `EventuallyHandled`, `InvalidatedIsRefetched`, `LockedRoundSettles`. TLC
  checks them on the instances of section 3 under the fairness given there.
* Of `ImplementsDelivery` the theorem states what the run checks, initial state and steps;
  `AtLeastOnce` has no fairness, its progress is `EventuallyHandled`.
* The states that a theorem's hypothesis leaves out are not covered by it: clients that use both
  ways of withdrawing, V1 records beside the queue, ticks that overlap in a process. The runs
  that expect a violation show what the code does there.

## 5. What is left

Nothing that the passing runs check is provable here and unproved. What could be added next
is breadth: the pool's configuration calls and `replayRange` (section 7), the planner and the
vault pages of the frontend, and the settings pages with their own persistence. A theorem
on liveness needs a prover that handles fairness.

## 6. Further disagreements

Met while modelling, without a run of their own. A name in brackets is the property
that is stated so as to except exactly this.

Contracts and leases:

* `leaseService.ts:48`: a released row is inserted again with token 1, so a replaced holder
  can find its token current again; `leaseService.ts:14` says the token increments on
  every acquisition.
* `leaseService.ts:104`: a renewal whose UPDATE is delayed past the expiry revives an
  expired row; `leaseService.ts:89` says an expired lease is never resurrected.
* `lib.rs:792` and `:858`: expired proposals are not purged (the removal is rolled back);
  `lib.rs:33` says they are.
* `lib.rs:1417`, `:1685` and `vault.rs:68`: withdrawals leave `total_deposited` as it was;
  `test.rs:2161` asserts 0 after all withdrawals.
* `lib.rs:2055`: a prize is credited without a reserve behind it;
  `VAULTQUEST_ARCHITECTURE_DESIGN.md:33` states the solvency invariant including prizes.
* `lib.rs:2397`: `prune_round` looks only at the participants listed by its caller;
  `lib.rs:2380` says it rejects rounds with outstanding deposits.
* `strategy_adapter.rs:560`: `harvest` bounds a loss by the balance change inside the call, so
  a loss between calls is never recognised (the header says losses are absorbed); drain
  and reconcile then cannot finish and only `emergency_recall_strategy` clears the principal.
  A gain kept back in one harvest and handed over in the next is credited twice.
* `activate_strategy` accepts the phase Proposed, so validation may be skipped; nothing that
  decides reads the code-hash allowlist, though `lib.rs:2492` says unlisted strategies cannot
  be proposed.

Backend:

* `ledger.ts:161`: `defaultLeaseTtlMs` is declared nowhere, so `PATCH /actions/:id/submitted`
  without a TTL never succeeds.
* `ledger.ts:321`: `cancelAction` reads and then updates by id, so it can overwrite a confirmed
  row; `constants.ts:7` calls those states terminal.
* `ledger.ts:256`: the search for another action with the same hash leaves the row itself out, so
  of two attachments of one hash to one row the second writes `submitted` over what was confirmed
  in between; `constants.ts:7` calls that state terminal.
* `ledger.ts:415`: a walk over the submitted actions by cursor loses rows when the cursor's row is
  decided between two pages [`PagesCoverTheWalk`].
* `ledger.ts:847`: an action created before all others and confirmed after them turns the
  portfolio to its own asset and takes the others out [`OnlyAnOlderActionInverts`], what `:835`
  calls an inversion of the guard's intent; the guard is against actions created late only.
* `ledger.ts`: an attach and a reconcile that run side by side park the event of a row that
  carries its hash; a parked event in Redis outlives the row that `sweepOrphans` deletes.
* `reconciler.ts:553` says that reapplying a plan is a no-op; the audit lookup compares a path
  that the stored plan does not have. Proposals made as a dry run execute all the same (`:989`);
  an approval that races an execution turns executed back into approved. Two approvers who both
  read that none has approved write `pending` both (`:937`), and the plan stays pending with the
  approvals it needs.
* `escrowService.ts`: a time-out after the transaction landed rolls the vault back and the
  retry pays again, as do overlapping calls [`PaidOnceUnlessLost`]; the constant's comment
  says it can be retried safely.
* `reconciler.ts:589`: the roll-back of a settlement is an update by id; a vault paid since it was
  found is unresolved again and paid again [`PaidOnceUnlessLost`].
* `escrowService.ts:280`: a settlement whose caller names no payee or amount is reported settled
  without a transfer having been seen; a call that names nobody settles the row of one that
  does [`ResolvedIsVerified`].
* `stellarIndexer.ts:476` and `:507`: the cursor advances past a write that failed, and past
  events decoded before a quarantine insert that throws [`lost`]; `:448` says that the cursor
  only advances past events that were written. Distinct events of one transaction in one
  batch are dropped as duplicates.
* `questService.ts`: the unique violation caught inside `$transaction` aborts it, so a wallet with
  an existing grant fails every sweep; payouts are created pending though the comment
  says confirmed.
* `walletAuth.ts`: of two concurrent refreshes both succeed but only the last one's tokens
  work. An administrator's session that one process revoked is served from another's cache
  until it expires.
* `cacheService.ts:462`: eviction compares with an invalid date, so the maps never evict and
  exceed `maxEntries`. A fetch begun before a write and stored after its invalidation
  caches the old list again [`OldListsHaveACause`].
* `backupService.ts:299`: `pg_restore --list` reads the table of contents, so a drill beside a
  running dump or after a killed one restores half of it [`HalfRestoresAreExcused`]; `:435`
  compares host and database as they are written while `buildPgRestoreArgs` fills in `localhost`
  and `postgres`, so an omitted or second name of production passes the guard.
* `app.ts:166` passes a pre-handler where `auditRoutes` expects the administrator's session
  service, so an authenticated request to `/admin/audit` fails (`tests/audit.spec.ts:63` expects
  200).
* `backfill.ts`: a range of more events than the fetch limit, or one that a node answers with a
  short page, is reported completed like any other [`BackfillComplete`]. A pool's creation event
  is parked like any other and counted as processed, and so never reaches the pool registry.
* `notificationService.ts`: a unique violation in `createIfMissing` ends the rest of the sweep.
* `app.ts:129` gives `DrawProofService` no RPC client, so the deployed application generates no
  proofs; they are unsigned, so `verified` is never stored as true; failed reads are stored as
  empty participants; the frozen principal is not covered by the audit hash. Without `draw_ledger`
  in the payload `drawProofService.ts:79` takes milliseconds for a ledger, so no commitment is too
  late for that draw (`:320`) and it gets a proof for each instant it is read with
  [`ProofsAreGrounded`].
* `generate-manifest.ts` keeps the old manifest when version and commit are unchanged although
  the environment changed; `check-ttl.ts --json` never exits with 1.
* `safe-amount.ts:98`: `divScalar` by a number below one half throws in spite of its zero guard;
  the default rounding may display more than is held.

Client:

* `hooks.ts:36`: a fetch that is in flight during an invalidation clears the mark with old
  data; portfolio and prize keys are never invalidated by pool actions.
* `txStateMachine.ts`: nobody passes `waitForConfirmation`, so "Transaction confirmed" is shown
  for a submission; a time-out followed by a retry doubles the action; a wallet switch clears
  the record of the wrong scope.
* `DepositModal.tsx:88`: Max and the quick amounts round to two places and may exceed the
  limit; the review is not checked again after a refresh, and the amount may be edited while
  `handleContinue` awaits it [`SignedWasChecked`].
* `DepositModal.jsx:60`: Max and the quick amounts of the app's dialog write the amount with its
  separators ("1,000.00"), of which `:30` reads 1; review and success show the whole
  [`SignedWasChecked`].
* `VaultRetryQueue.jsx`: the retry counter is not raised by failures, so
  `MAX_RETRY_ATTEMPTS` (`:19`) does not bound them.
* `admin/proposals/page.jsx:781` counts approvals without asking whose they are, so one
  administrator may approve repeatedly, though `:124` tells the user otherwise; executed proposals
  can be cancelled; `expiresAt` decides nothing. (For the delay of `:60` see `admin_timelock`.)
* `StellarWalletIndicator.tsx:135`: another tab's poll adopts a disconnected address again, and its
  storage event brings it back here; a reload forgets the disconnect; and once a check has met
  another account, one that read the old address before may bring it back
  [`CheckNeverReadopts`]. `HeaderWalletStatus.jsx` keeps no memory of a disconnect at all; no page
  imports it.
* `NotificationProvider.tsx:110` writes one account's dismissed ids under the next account's
  key, which `:10` excludes.
* `IndexerReplayControl.jsx:311` says that replays exclude each other; leaving the page allows a
  second one. `PoolApprovalQueue.jsx:49` stores a note typed for one pool with another.
* `CustomRpcModal.jsx`: a late answer marks an edited address as tested; `customRpc.js:49` pings
  an address without its trailing slashes and the wallet's client uses it with them.
  `PositionMaturityCountdown.jsx:58`: an extended date keeps the announcement of the earlier one.
  `app/vaults/archive` has an unresolved merge marker at line 5 of its page and exports all
  records under a filtered count.
* `vaults/planner/page.jsx:65`: the projected date is computed when the form changes, so a page
  left open saves a past date; a monthly date from 29 January on runs over February.
  `services/questService.ts:101`: two quests of one millisecond share an id.
* `stellarRpcPool.ts` and `horizonPool.ts`: a refused submission marks its node twice; `pingAll` has
  no caller. `walletService.ts` uses `resolveHorizonNodes` without importing it.

Also open: the fencing token restarts at 1 after a release (`leaseService.ts:48`), the
withdrawal queue's tail is a `u32` (`lib.rs:581`), and a later deposit with a shorter lockup
replaces a longer one (`lib.rs:1131`).

## 7. Not modelled

* The vault factory is a registry keyed by a salt with admin-only writes. The mock contracts
  and the deprecated vault are test doubles or no longer built.
* Of the pool contract, storage rent (`renew_*`), one-time configuration (`set_token`,
  `set_token_decimals`) and views move no money and take part in no sequence the
  properties talk about.
* Of the indexer, `replayRange` has no caller; topics and XDR of an event
  are left out.
* Chat relays messages, metrics and mail are output, schema versions and attestations are
  single reads or writes; their state is used by nothing that is modelled.
* The rest of the frontend renders what it is given, or runs on mock data. Tests, linters and
  repository scripts keep no state.

`PROJECT.json` lists every component with its reason.
