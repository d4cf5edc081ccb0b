--------------------------- MODULE StrategyRotation ---------------------------
(***************************************************************************)
(* The pool's yield strategy (contracts/drip-pool/src/strategy_adapter.rs):*)
(* principal is deployed to it, recalled and harvested, and one strategy   *)
(* is replaced by another through propose, validate, drain, reconcile and  *)
(* activate.  The calls are reserved to signers; a call that returns Err   *)
(* is no step.                                                             *)
(*                                                                         *)
(* A strategy is external.  It keeps the accounting contract of            *)
(* common/src/strategy.rs as far as tokens go (redeem returns what it      *)
(* moved; harvest hands over gains, earned between calls, and nothing      *)
(* else) but may redeem less than it is asked for, refuse any call, and    *)
(* report what it likes.                                                   *)
(***************************************************************************)
EXTENDS Integers, FiniteSets, FiniteSetsExt, Functions

CONSTANTS
    Strategies,
    Compatible,      \* those with STRATEGY_INTERFACE_VERSION
    ExposureCaps,    \* caps that are proposed
    MinIdleReserve,
    RotationDelay,   \* HIGH_RISK_DELAY_LEDGERS
    MaxSequence,     \* bound on the ledger sequence
    MaxTokens        \* bound on the tokens in the system

ASSUME RotationAssumption ==
    /\ IsFiniteSet(Strategies) /\ Compatible \subseteq Strategies /\ ExposureCaps \subseteq Int
    /\ {MinIdleReserve, RotationDelay, MaxSequence, MaxTokens} \subseteq Nat

VARIABLES
    strategy,        \* Pool.strategy, or NoStrategy
    candidate,       \* ProposedStrategy, ProposedExposureCap and StrategyRotationReadyAt, or NoCandidate
    phase,           \* StrategyRotationPhase
    exposure_cap,    \* StrategyExposureCap
    in_strategy,     \* Pool.principal_in_strategy
    total,           \* Pool.total_deposited
    yield,           \* Pool.distributable_yield
    idle,            \* the pool's own tokens
    holdings,        \* each strategy's tokens
    gains,           \* those of them it earned
    sequence,        \* env.ledger().sequence()
    owed,            \* principal depositors have not withdrawn
    out,             \* principal each strategy was sent, neither returned nor written off
    lastProposal,    \* the latest proposal and when it was made
    lossy            \* whether a strategy has lost tokens

rotationVars ==
    <<strategy, candidate, phase, exposure_cap, in_strategy, total, yield, idle, holdings,
      gains, sequence, owed, out, lastProposal, lossy>>
rotation == <<strategy, candidate, phase, exposure_cap, lastProposal>>
tokens == <<idle, holdings, gains, owed, lossy>>
books == <<in_strategy, total, yield, out>>

NoStrategy == "none"
NoCandidate == [to |-> NoStrategy, cap |-> 0, readyAt |-> 0]
Unlimited == 2 * MaxTokens + 1   \* i128::MAX

RotationInit ==
    /\ strategy = NoStrategy /\ candidate = NoCandidate /\ phase = "Idle"
    /\ exposure_cap = Unlimited
    /\ in_strategy = 0 /\ total = 0 /\ yield = 0 /\ idle = 0 /\ owed = 0
    /\ holdings = [s \in Strategies |-> 0] /\ gains = holdings /\ out = holdings
    /\ sequence = 0 /\ lastProposal = [to |-> NoStrategy, cap |-> 0, at |-> 0] /\ lossy = FALSE

-----------------------------------------------------------------------------
\* Rotation.

Propose(s, cap) ==
    /\ cap > 0
    /\ phase = "Idle"
    /\ s \in Compatible
    /\ candidate' = [to |-> s, cap |-> cap, readyAt |-> sequence + RotationDelay]
    /\ lastProposal' = [to |-> s, cap |-> cap, at |-> sequence]
    /\ phase' = "Proposed"
    /\ UNCHANGED <<strategy, exposure_cap>>

set_strategy(s) ==
    /\ \/ strategy # NoStrategy /\ Propose(s, Unlimited)
       \/ /\ strategy = NoStrategy /\ s \in Compatible
          /\ strategy' = s /\ exposure_cap' = Unlimited /\ phase' = "Idle"
          /\ UNCHANGED <<candidate, lastProposal>>
    /\ UNCHANGED <<tokens, books, sequence>>

propose_strategy(s, cap) == Propose(s, cap) /\ UNCHANGED <<tokens, books, sequence>>

\* The strategy may refuse by reporting a total that is not its balance.
validate_strategy ==
    /\ phase = "Proposed"
    /\ phase' = IF in_strategy > 0 THEN "Draining" ELSE "Reconciled"
    /\ UNCHANGED <<strategy, candidate, exposure_cap, lastProposal, tokens, books, sequence>>

\* Mutant: activation does not wait.
MayActivate_AtOnce ==
    /\ phase \in {"Reconciled", "Proposed"}
    /\ in_strategy = 0

MayActivate ==
    /\ phase \in {"Reconciled", "Proposed"}
    /\ sequence >= candidate.readyAt
    /\ in_strategy = 0

activate_strategy ==
    /\ MayActivate
    /\ strategy' = candidate.to /\ exposure_cap' = candidate.cap
    /\ candidate' = NoCandidate /\ phase' = "Idle"
    /\ UNCHANGED <<lastProposal, tokens, books, sequence>>

cancel_strategy_rotation ==
    /\ phase # "Idle"
    /\ candidate' = NoCandidate /\ phase' = "Idle"
    /\ UNCHANGED <<strategy, exposure_cap, lastProposal, tokens, books, sequence>>

-----------------------------------------------------------------------------
\* Principal.

Floor0(n) == Max({n, 0})

deploy_to_strategy(amount) ==
    LET free == total - in_strategy
    IN  /\ phase = "Idle" /\ strategy # NoStrategy
        /\ in_strategy + amount <= exposure_cap
        /\ amount <= free /\ free - amount >= MinIdleReserve
        /\ amount <= idle
        /\ in_strategy' = in_strategy + amount
        /\ out' = [out EXCEPT ![strategy] = @ + amount]
        /\ idle' = idle - amount
        /\ holdings' = [holdings EXCEPT ![strategy] = @ + amount]
        /\ UNCHANGED <<rotation, gains, owed, lossy, total, yield, sequence>>

AfterRecall_AsAsked(amount, recalled) == Floor0(in_strategy - amount)  \* mutant: the return value is ignored

\* The principal still booked after a recall of `amount' that brought `recalled'.
AfterRecall(amount, recalled) == Floor0(in_strategy - recalled)

\* Tokens the strategy redeems, principal first.
Redeem(recalled) ==
    /\ idle' = idle + recalled
    /\ holdings' = [holdings EXCEPT ![strategy] = @ - recalled]
    /\ gains' = [gains EXCEPT ![strategy] = Min({@, holdings[strategy] - recalled})]
    /\ UNCHANGED <<owed, lossy>>

internal_recall_from_strategy(amount) ==
    /\ amount > 0 /\ strategy # NoStrategy
    /\ \E recalled \in 0 .. Min({amount, holdings[strategy]}) :
          /\ Redeem(recalled)
          /\ in_strategy' = AfterRecall(amount, recalled)
          /\ out' = [out EXCEPT ![strategy] = Floor0(@ - recalled)]
    /\ UNCHANGED <<total, yield>>

recall_from_strategy(amount) ==
    internal_recall_from_strategy(amount) /\ UNCHANGED <<rotation, sequence>>

drain_strategy(amount) ==
    /\ phase \in {"Draining", "Proposed"}
    /\ internal_recall_from_strategy(amount)
    /\ phase' = IF in_strategy' = 0 THEN "Reconciled" ELSE "Draining"
    /\ UNCHANGED <<strategy, candidate, exposure_cap, lastProposal, sequence>>

\* total_assets and redeem of all of it; what did not come back is written off.
emergency_recall_strategy ==
    /\ strategy # NoStrategy
    /\ \E recalled \in 0 .. holdings[strategy] : Redeem(recalled)
    /\ in_strategy' = 0
    /\ out' = [out EXCEPT ![strategy] = 0]
    /\ UNCHANGED <<rotation, total, yield, sequence>>

-----------------------------------------------------------------------------
\* Harvest: what the strategy reports counts as far as token balances moved.

verified_yield(reported, idle_delta, strategy_delta) ==
    Min({reported, Floor0(idle_delta) + Floor0(strategy_delta)})

verified_loss(reported, strategy_delta) == Min({reported, Floor0(-strategy_delta)})

internal_harvest_strategy ==
    /\ strategy # NoStrategy
    /\ \E moved \in 0 .. gains[strategy], claim \in {0, MaxTokens}, hit \in {0, MaxTokens} :
          /\ idle' = idle + moved
          /\ holdings' = [holdings EXCEPT ![strategy] = @ - moved]
          /\ gains' = [gains EXCEPT ![strategy] = @ - moved]
          /\ yield' = yield + verified_yield(claim, moved, -moved)
          /\ in_strategy' = Floor0(in_strategy - verified_loss(hit, -moved))
          /\ out' = [out EXCEPT ![strategy] = Floor0(@ - verified_loss(hit, -moved))]
    /\ UNCHANGED <<owed, lossy, total>>

harvest_strategy == internal_harvest_strategy /\ UNCHANGED <<rotation, sequence>>

\* The harvest is best effort; principal left over makes the call fail.
reconcile_strategy ==
    /\ phase # "Idle"
    /\ internal_harvest_strategy \/ UNCHANGED <<tokens, books>>
    /\ in_strategy' = 0
    /\ phase' = "Reconciled"
    /\ UNCHANGED <<strategy, candidate, exposure_cap, lastProposal, sequence>>

-----------------------------------------------------------------------------
\* The environment: depositors, winners, the strategies' fortunes, and time.

AllTokens == idle + SumFunction(holdings)

Depositing ==
    /\ AllTokens < MaxTokens /\ owed < MaxTokens /\ total < MaxTokens
    /\ total' = total + 1 /\ owed' = owed + 1 /\ idle' = idle + 1
    /\ UNCHANGED <<rotation, holdings, gains, lossy, in_strategy, yield, out, sequence>>

\* withdraw leaves total_deposited as it was.
Withdrawing ==
    /\ idle > 0 /\ owed > 0
    /\ owed' = owed - 1 /\ idle' = idle - 1
    /\ UNCHANGED <<rotation, holdings, gains, lossy, books, sequence>>

PayingYield ==
    /\ idle > 0 /\ yield > 0
    /\ yield' = yield - 1 /\ idle' = idle - 1
    /\ UNCHANGED <<rotation, holdings, gains, lossy, owed, in_strategy, total, out, sequence>>

Earning(s) ==
    /\ AllTokens < MaxTokens /\ holdings[s] > 0
    /\ holdings' = [holdings EXCEPT ![s] = @ + 1] /\ gains' = [gains EXCEPT ![s] = @ + 1]
    /\ UNCHANGED <<rotation, idle, owed, lossy, books, sequence>>

\* Once is enough to leave everything after it impaired.
Losing(s) ==
    /\ ~lossy /\ holdings[s] > 0
    /\ holdings' = [holdings EXCEPT ![s] = @ - 1]
    /\ gains' = [gains EXCEPT ![s] = Floor0(@ - 1)]
    /\ lossy' = TRUE
    /\ UNCHANGED <<rotation, idle, owed, books, sequence>>

LedgerCloses ==
    /\ sequence < MaxSequence
    /\ sequence' = sequence + 1
    /\ UNCHANGED <<rotation, tokens, books>>

RotationNext ==
    \/ \E s \in Strategies :
          set_strategy(s) \/ (\E cap \in ExposureCaps : propose_strategy(s, cap))
    \/ validate_strategy \/ reconcile_strategy \/ activate_strategy \/ cancel_strategy_rotation
    \/ \E amount \in 1 .. MaxTokens :
          \/ deploy_to_strategy(amount) \/ recall_from_strategy(amount) \/ drain_strategy(amount)
    \/ harvest_strategy \/ emergency_recall_strategy
    \/ Depositing \/ Withdrawing \/ PayingYield \/ LedgerCloses
    \/ \E s \in Strategies : Earning(s) \/ Losing(s)

RotationSpec == RotationInit /\ [][RotationNext]_rotationVars

-----------------------------------------------------------------------------
\* The principal booked as deployed is what the strategy in use was sent and has
\* neither returned nor written off, within its cap; a strategy that was replaced
\* holds none of it.  Until a strategy loses tokens the pool and its strategies
\* hold what is owed to depositors and the yield credited, whatever the
\* strategies reported (#532, #601).
StrategyAccounted ==
    /\ \A s \in Strategies : out[s] = IF s = strategy THEN in_strategy ELSE 0
    /\ in_strategy <= exposure_cap
    /\ lossy \/ AllTokens >= owed + yield

\* A strategy in use is replaced only by the one proposed last, with the cap
\* proposed for it, and not before the delay after that proposal, whatever
\* was cancelled and proposed before (#532, #533).
RotationGuarded ==
    [strategy # NoStrategy /\ strategy' # strategy =>
       /\ strategy' = lastProposal.to /\ exposure_cap' = lastProposal.cap
       /\ sequence >= lastProposal.at + RotationDelay]_rotationVars
=============================================================================
