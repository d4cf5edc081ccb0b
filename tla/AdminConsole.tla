---------------------------- MODULE AdminConsole ----------------------------
(***************************************************************************)
(* The administrators' console, two machines: proposals and settings, and  *)
(* the operations page.                                                    *)
(***************************************************************************)
EXTENDS Integers, FiniteSets

(***************************************************************************)
(* The administrators' pages: proposals                                    *)
(* (app/app/admin/proposals/page.jsx), and settings                        *)
(* (app/app/admin/settings/page.jsx) with its parameter simulation         *)
(* (lib/admin-parameter-simulation.ts). Several administrators use the     *)
(* pages; `clock' is in milliseconds, MsPerSecond of them in a second.     *)
(* Parameter values are in tenths.                                         *)
(***************************************************************************)
CONSTANTS
  Admins,                   \* ADMIN_ADDRESSES
  RequiredSignatures,
  HIGH_RISK_DELAY_SECONDS,
  MsPerSecond,
  LastTick,                 \* bound on the clock
  ProposedValues,           \* what is typed into the simulation
  ParamCatalog              \* parameter -> its spec

ASSUME AdminAssumption ==
  /\ RequiredSignatures \in Nat \ {0} /\ HIGH_RISK_DELAY_SECONDS \in Nat /\ MsPerSecond \in Nat \ {0}
  /\ LastTick \in Nat /\ ProposedValues \subseteq Int
  /\ \A p \in DOMAIN ParamCatalog : ParamCatalog[p].min \in Int /\ ParamCatalog[p].max \in Int

VARIABLES
  page,       \* the page that is open: each has its own state, lost when it is left
  visitor,    \* whose wallet is connected; may be no administrator
  clock,
  card,       \* the proposal as the page has it
  drafts,     \* parameter -> proposed value or NoDraft
  overrideBlocked,
  health      \* service -> status shown

adminVars == <<page, visitor, clock, card, drafts, overrideBlocked, health>>

NoDraft == -1
Parameters == DOMAIN ParamCatalog
HealthServices == {"smartContract", "backendApi", "indexer", "rpcLayer"}

Cards ==
  [status : {"active", "expired"}, currentSignatures : {0}, executed : {FALSE}, isHighRisk : BOOLEAN, treeValid : BOOLEAN]

NoCard == [status |-> "active", currentSignatures |-> 0, executed |-> FALSE, isHighRisk |-> FALSE, treeValid |-> FALSE]

AdminInit ==
  /\ page \in {"proposals", "settings"}
  /\ card \in (IF page = "proposals" THEN Cards ELSE {NoCard})
  /\ visitor \in Admins
  /\ clock = 0
  /\ drafts = [p \in Parameters |-> NoDraft] /\ overrideBlocked = FALSE
  /\ health = [s \in HealthServices |-> "loading"]

-----------------------------------------------------------------------------
(* The proposals page.  The proposal was created at time 0.                  *)

resolveLifecycle ==
  CASE card.status = "cancelled" -> "CANCELLED"
    [] card.status = "expired" -> "EXPIRED"
    [] card.executed -> "EXECUTED"
    [] card.currentSignatures < RequiredSignatures -> "PENDING_BELOW_THRESHOLD"
    [] card.isHighRisk /\ clock < HIGH_RISK_DELAY_SECONDS -> "PENDING_TIMELOCK"  \* seconds as milliseconds
    [] OTHER -> "READY_TO_EXECUTE"

isAdmin == page = "proposals" /\ visitor \in Admins

\* Every entry of the decoded tree has a contract and a method.
verifyAuthorizationTree == card.treeValid

canApprove == isAdmin /\ resolveLifecycle = "PENDING_BELOW_THRESHOLD" /\ verifyAuthorizationTree

\* The Execute button is rendered for canExecute and the ready state.
canExecute == isAdmin /\ resolveLifecycle = "READY_TO_EXECUTE"

canCancel == isAdmin /\ card.status # "cancelled"

\* The page counts approvals, not who gave them.
handleApprove ==
  /\ canApprove
  /\ card' = [card EXCEPT !.currentSignatures = @ + 1]
  /\ UNCHANGED <<page, visitor, clock, drafts, overrideBlocked, health>>

handleExecute ==
  /\ canExecute
  /\ card' = [card EXCEPT !.executed = TRUE]
  /\ UNCHANGED <<page, visitor, clock, drafts, overrideBlocked, health>>

handleCancelProposal ==
  /\ canCancel
  /\ card' = [card EXCEPT !.status = "cancelled"]
  /\ UNCHANGED <<page, visitor, clock, drafts, overrideBlocked, health>>

\* Another wallet; and the countdown of the timelock ticks.
ConnectWallet ==
  /\ page = "proposals"
  /\ visitor' \in Admins \cup {"stranger"}
  /\ UNCHANGED <<page, clock, card, drafts, overrideBlocked, health>>

TimelockCountdown ==
  /\ page = "proposals" /\ clock < LastTick /\ clock' = clock + 1
  /\ UNCHANGED <<page, visitor, card, drafts, overrideBlocked, health>>

-----------------------------------------------------------------------------
(* The parameter simulation.                                                 *)

\* validateProposedParameter, called without the other proposals.
validateProposedParameter(p, value) ==
  /\ ParamCatalog[p].integer => value % 10 = 0
  /\ ParamCatalog[p].min <= value /\ value <= ParamCatalog[p].max

\* Blocking rules beyond the bounds.
Stringent(p, value) ==
  \/ p = "treasuryFeeBps" /\ value < 5
  \/ p = "maxDepositPerVaultUnits" /\ 2 * value < ParamCatalog[p].current

relativeRisk(p, value) ==
  LET from == ParamCatalog[p].current
      change == IF value > from THEN value - from ELSE from - value IN
  CASE 10 * change <= from -> "none"
    [] 10 * change <= 3 * from -> "low"
    [] 10 * change <= 5 * from -> "medium"
    [] OTHER -> "high"

Blocks(p, value) == ~ validateProposedParameter(p, value) \/ Stringent(p, value)

\* simulateParameterChange
simulateParameterChange(p, value) ==
  LET blocked == Blocks(p, value) /\ ~ overrideBlocked
      valid == validateProposedParameter(p, value) IN
  [blocked |-> blocked, overridden |-> Blocks(p, value) /\ overrideBlocked, riskLevel |-> relativeRisk(p, value),
   needsConfirmation |-> ~ valid \/ blocked \/ relativeRisk(p, value) \in {"medium", "high"}]

Drafted == {p \in Parameters : drafts[p] # NoDraft}

\* createParameterDiffPreview: what the page lists for the drafts.
diffPreview == [p \in Drafted |-> simulateParameterChange(p, drafts[p])]
conflicts == {"minDepositUnits", "maxDepositPerVaultUnits"} \subseteq Drafted
             /\ drafts["maxDepositPerVaultUnits"] < drafts["minDepositUnits"]

\* addProposal: a newer value for a parameter replaces the older one.
addProposal ==
  /\ page = "settings"
  /\ \E p \in Parameters, value \in ProposedValues : drafts' = [drafts EXCEPT ![p] = value]
  /\ UNCHANGED <<page, visitor, clock, card, overrideBlocked, health>>

setOverrideBlocked ==
  /\ Drafted # {}
  /\ overrideBlocked' = ~ overrideBlocked
  /\ UNCHANGED <<page, visitor, clock, card, drafts, health>>

-----------------------------------------------------------------------------
(* The settings page checks the services once, when it is mounted.           *)

\* The backend's answer on the indexer: an error, or the lag since the last success.
IndexerStatus(answer) ==
  CASE answer = "none" -> "unavailable"
    [] answer = "error" -> "degraded"
    [] answer = "lag over 20" -> "unavailable"
    [] answer = "lag over 5" -> "degraded"
    [] OTHER -> "operational"

BackendStatus(answer) == CASE answer = "fast" -> "operational" [] answer = "slow" -> "degraded" [] OTHER -> "unavailable"
RpcStatus(answer) ==
  CASE answer = "fast" -> "operational" [] answer \in {"slow", "http error"} -> "degraded" [] OTHER -> "unavailable"
ContractStatus(answer) == CASE answer = 200 -> "operational" [] answer = 500 -> "degraded" [] OTHER -> "unavailable"

verifyHealth ==
  /\ page = "settings" /\ health["indexer"] = "loading"
  /\ \E i \in {"none", "error", "lag over 20", "lag over 5", "in step"}, b \in {"fast", "slow", "none"},
        r \in {"fast", "slow", "http error", "none"}, c \in {200, 404, 500} :
       health' = [smartContract |-> ContractStatus(c), backendApi |-> BackendStatus(b),
                  indexer |-> IndexerStatus(i), rpcLayer |-> RpcStatus(r)]
  /\ UNCHANGED <<page, visitor, clock, card, drafts, overrideBlocked>>

AdminNext ==
  \/ handleApprove \/ handleExecute \/ handleCancelProposal \/ ConnectWallet \/ TimelockCountdown
  \/ addProposal \/ setOverrideBlocked \/ verifyHealth

AdminSpec == AdminInit /\ [][AdminNext]_adminVars

-----------------------------------------------------------------------------
(* A high-risk proposal is executed no sooner than its delay of 17,280        *)
(* ledgers, about 24 hours, after its creation (page.jsx:41-43, 128;          *)
(* contracts/drip-pool/src/lib.rs:84).  The page fails it: its clock is in    *)
(* milliseconds and line 60 adds the seconds of the delay to it.              *)
HighRiskDelayHeld == card.executed /\ card.isHighRisk => clock >= HIGH_RISK_DELAY_SECONDS * MsPerSecond

(* What the simulation lets through is within the parameter's bounds: unless *)
(* the operator overrides, a draft that is not marked as blocked can be       *)
(* applied, and one that leaves the bounds always asks for a confirmation.    *)
UnblockedIsWithinBounds ==
  \A p \in Drafted :
    LET outside == drafts[p] < ParamCatalog[p].min \/ drafts[p] > ParamCatalog[p].max IN
    /\ outside => diffPreview[p].needsConfirmation
    /\ outside => diffPreview[p].blocked \/ diffPreview[p].overridden

(***************************************************************************)
(* The operations page of the administrators: PoolApprovalQueue.jsx and    *)
(* IndexerReplayControl.jsx, shown while a wallet is connected and usable  *)
(* by an administrator's. The state of both is lost with the connection.   *)
(***************************************************************************)
CONSTANTS
  Listings,       \* pools that wait for approval
  LedgerNumbers   \* what may be typed as a ledger

ASSUME OperationsAssumption == LedgerNumbers \subseteq Nat

NoRange == <<>>

VARIABLES
  operator,       \* the connected wallet: none, admin or other
  review,         \* listing -> pending, approved or rejected
  noteFor,        \* selectedPool, with the text of reviewNote
  range,          \* the ledgers typed
  dryRun,         \* the range of the dry run that is awaited, or NoRange
  dryRunResult,
  showConfirm,
  replay,         \* the range of this page's replay, or NoRange
  progress,
  replayResult

opsVars == <<operator, review, noteFor, range, dryRun, dryRunResult, showConfirm,
             replay, progress, replayResult>>

queueVars == <<review, noteFor>>
replayVars == <<range, dryRun, dryRunResult, showConfirm, replay, progress, replayResult>>

FreshControl ==
  /\ range = <<0, 0>> /\ dryRun = NoRange /\ dryRunResult = NoRange /\ showConfirm = FALSE
  /\ replay = NoRange /\ progress = 0 /\ replayResult = NoRange

OpsInit ==
  /\ operator = "none"
  /\ review = [l \in Listings |-> "pending"]
  /\ noteFor = "nobody"
  /\ FreshControl

-----------------------------------------------------------------------------

\* Both components are unmounted, and their state with them.
DisconnectOperator ==
  /\ operator # "none" /\ operator' = "none"
  /\ review' = [l \in Listings |-> "pending"] /\ noteFor' = "nobody"
  /\ range' = <<0, 0>> /\ dryRun' = NoRange /\ dryRunResult' = NoRange /\ showConfirm' = FALSE
  /\ replay' = NoRange /\ progress' = 0 /\ replayResult' = NoRange

\* Another account of a connected wallet keeps the components mounted.
ConnectOperator(who) ==
  /\ operator # who /\ operator' = who
  /\ UNCHANGED <<queueVars, replayVars>>

-----------------------------------------------------------------------------
(* PoolApprovalQueue.                                                        *)

pendingPools(l) == review[l] = "pending"

TypeNote(l) ==
  /\ operator = "admin" /\ pendingPools(l)
  /\ noteFor' = l
  /\ UNCHANGED <<operator, review, replayVars>>

\* The note is the one last typed, for whichever pool.
Decide(l, verdict) ==
  /\ operator = "admin" /\ pendingPools(l)
  /\ review' = [review EXCEPT ![l] = verdict]
  /\ noteFor' = "nobody"
  /\ UNCHANGED <<operator, replayVars>>

-----------------------------------------------------------------------------
(* IndexerReplayControl.                                                     *)

isBusy == dryRun # NoRange \/ replay # NoRange

isValidRange(r) == 0 \notin {r[1], r[2]} /\ r[2] >= r[1]

TypeLedger(i, n) ==
  /\ operator = "admin" /\ ~isBusy /\ n # range[i]
  /\ range' = [range EXCEPT ![i] = n]
  /\ UNCHANGED <<operator, queueVars, dryRun, dryRunResult, showConfirm, replay, progress, replayResult>>

handleDryRun ==
  /\ operator = "admin" /\ isValidRange(range) /\ ~isBusy
  /\ dryRun' = range /\ dryRunResult' = NoRange
  /\ UNCHANGED <<operator, queueVars, range, showConfirm, replay, progress, replayResult>>

DryRunDone ==
  /\ dryRun # NoRange
  /\ dryRunResult' = dryRun /\ dryRun' = NoRange
  /\ UNCHANGED <<operator, queueVars, range, showConfirm, replay, progress, replayResult>>

\* The dialog covers the page, whose controls stay enabled below it.
AskConfirm ==
  /\ operator = "admin" /\ isValidRange(range) /\ ~isBusy /\ dryRunResult # NoRange /\ ~showConfirm
  /\ showConfirm' = TRUE
  /\ UNCHANGED <<operator, queueVars, range, dryRun, dryRunResult, replay, progress, replayResult>>

CancelConfirm ==
  /\ operator = "admin" /\ showConfirm /\ replay = NoRange
  /\ showConfirm' = FALSE
  /\ UNCHANGED <<operator, queueVars, range, dryRun, dryRunResult, replay, progress, replayResult>>

\* handleReplay up to its await: the closure keeps the range.
handleReplay ==
  /\ operator = "admin" /\ showConfirm /\ replay = NoRange
  /\ showConfirm' = FALSE /\ replay' = range /\ progress' = 10 /\ replayResult' = NoRange
  /\ UNCHANGED <<operator, queueVars, range, dryRun, dryRunResult>>

NextProgress(p) == IF p < 90 THEN p + 20 ELSE p

ProgressTick ==
  /\ replay # NoRange /\ NextProgress(progress) # progress
  /\ progress' = NextProgress(progress)
  /\ UNCHANGED <<operator, queueVars, range, dryRun, dryRunResult, showConfirm, replay, replayResult>>

\* The replay of this page ends.
ReplayDone ==
  /\ replay # NoRange
  /\ progress' = 100 /\ replayResult' = replay /\ replay' = NoRange
  /\ UNCHANGED <<operator, queueVars, range, dryRun, dryRunResult, showConfirm>>

OpsNext ==
  \/ DisconnectOperator
  \/ \E who \in {"admin", "other"} : ConnectOperator(who)
  \/ \E l \in Listings : TypeNote(l) \/ \E v \in {"approved", "rejected"} : Decide(l, v)
  \/ \E i \in 1 .. 2, n \in LedgerNumbers : TypeLedger(i, n)
  \/ handleDryRun \/ DryRunDone \/ AskConfirm \/ CancelConfirm
  \/ handleReplay \/ ProgressTick \/ ReplayDone

OpsSpec == OpsInit /\ [][OpsNext]_opsVars

-----------------------------------------------------------------------------
(* Properties.                                                               *)

\* A decision on a listing is final while the page is open: the queue offers
\* only pending pools (PoolApprovalQueue.jsx).
DecisionStands ==
  [\A l \in Listings : review[l] # "pending" /\ operator' # "none" => review'[l] = review[l]]_opsVars

\* The bar reaches 100 only with the result of this page's replay
\* (IndexerReplayControl.jsx).
ProgressNeverEarly == progress >= 100 => replay = NoRange /\ replayResult # NoRange

\* The ledgers shown beside a running dry run or replay are the ones it works
\* on: they cannot be edited meanwhile (IndexerReplayControl.jsx).
ShownRangeIsRunning ==
  /\ dryRun # NoRange => dryRun = range
  /\ replay # NoRange => replay = range
=============================================================================
