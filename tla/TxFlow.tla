-------------------------------- MODULE TxFlow --------------------------------
(***************************************************************************)
(* A wallet action in the browser: the transaction state machine and its   *)
(* localStorage record (vault/lib/txStateMachine.ts), driven from the pool *)
(* page (vault/components/PoolDetail.tsx) and shown by the timeline        *)
(* (components/TransactionTimeline.tsx).                                   *)
(*                                                                         *)
(* `flow' is stateRef, `shown' what the last render displayed; effects run *)
(* after a render.  The tab may be closed and the wallet switched at any   *)
(* time, transactions land or revert on their own.                         *)
(***************************************************************************)
EXTENDS FiniteSets, Naturals, Sequences

CONSTANTS
  Scopes,       \* wallet and network pairs: one localStorage slot each
  MaxTxs,       \* bound on submitted transactions
  MaxSwitches   \* bound on closed tabs and switched wallets

ASSUME TxFlowAssumption == MaxTxs \in Nat \ {0} /\ MaxSwitches \in Nat

VARIABLES
  flow,      \* state machine: stage, hash (0: none) and the stage that failed
  shown,     \* the state of the last render
  running,   \* where the run under way waits
  scope,     \* of the last render
  wallet,    \* connected now
  records,   \* scope -> localStorage record
  waits,     \* whether the caller passes waitForConfirmation
  chain,     \* hash -> "sent", "landed" or "reverted"
  switches

txVars == <<flow, shown, running, scope, wallet, records, waits, chain, switches>>

STAGE_ORDER == <<"preparing", "awaiting-signature", "submitting", "confirming", "indexing">>
ActiveStages == {STAGE_ORDER[i] : i \in 1 .. 5}

isTerminalState(s) == s.stage \in {"success", "failed"}
isActiveState(s) == s.stage \in ActiveStages

InitialFlow == [stage |-> "idle", hash |-> 0, failedAt |-> "none"]
NoRecord == [stage |-> "none", hash |-> 0]
Recorded(s) == [stage |-> s.stage, hash |-> s.hash]

At(stage, hash) == [stage |-> stage, hash |-> hash, failedAt |-> "none"]

\* transitionTxState: an event that is not legal changes nothing.
transitionTxState(s, event, arg) ==
  CASE event = "START" /\ ~ isActiveState(s) -> At("preparing", 0)
    [] event = "AWAIT_SIGNATURE" /\ s.stage = "preparing" -> At("awaiting-signature", 0)
    [] event = "SUBMITTED" /\ s.stage = "awaiting-signature" -> At("submitting", arg)
    [] event = "CONFIRMING" /\ s.stage = "submitting" -> At("confirming", arg)
    [] event = "INDEXING" /\ s.stage = "confirming" -> At("indexing", arg)
    [] event = "SUCCEEDED" /\ s.stage = "indexing" -> At("success", arg)
    [] event = "FAILED" /\ isActiveState(s) -> [At("failed", 0) EXCEPT !.failedAt = arg]
    [] event = "RESET" /\ ~ isActiveState(s) -> InitialFlow
    [] OTHER -> s

\* mapTxError: where the timeline marks the failure.
mapTxError(kind, fallback) ==
  CASE kind \in {"wallet_disconnected", "signature_rejected"} -> "awaiting-signature"
    [] kind = "rpc_failure" -> "submitting"
    [] kind \in {"contract_error", "confirmation_timeout", "lockup_active", "insufficient_liquidity"} -> "confirming"
    [] kind = "stale_data" -> "indexing"
    [] OTHER -> fallback

stateFailureFallback(s) == IF isActiveState(s) THEN s.stage ELSE "confirming"

Started(s) == transitionTxState(transitionTxState(s, "START", 0), "AWAIT_SIGNATURE", 0)

TxInit ==
  /\ waits \in BOOLEAN
  /\ wallet \in Scopes
  /\ flow = InitialFlow /\ shown = InitialFlow
  /\ running = "none" /\ scope = wallet
  /\ records = [s \in Scopes |-> NoRecord]
  /\ chain = <<>> /\ switches = 0

\* What the page may be told of the pool.
Pools == [status : {"open", "locked", "drawing", "settled"}, joined : BOOLEAN, isEmergency : BOOLEAN]

\* availableActions: the emergency brake blocks what the contract blocks.
availableActions(pool) ==
  LET actions == CASE pool.status = "open" -> IF pool.joined THEN {"drip", "withdraw"} ELSE {"join"}
                   [] pool.status = "locked" -> IF pool.joined THEN {"withdraw"} ELSE {}
                   [] pool.status = "settled" -> IF pool.joined THEN {"claim", "withdraw"} ELSE {}
                   [] OTHER -> {} IN
  IF pool.isEmergency THEN actions \ {"join", "drip"} ELSE actions

Disabled == isActiveState(shown)

\* run: nothing while a run is in flight; then START and AWAIT_SIGNATURE.
run ==
  /\ (\E pool \in Pools : availableActions(pool) # {}) /\ ~ Disabled
  /\ running = "none" /\ ~ isActiveState(flow)
  /\ flow' = Started(flow) /\ running' = "signing"
  /\ UNCHANGED <<shown, scope, wallet, records, waits, chain, switches>>

Failed(kind) ==
  /\ flow' = transitionTxState(flow, "FAILED", mapTxError(kind, stateFailureFallback(flow)))
  /\ running' = "none"

\* submitAction throws: refused in the wallet, or the answer of the RPC server
\* is lost, whether the transaction went out or not.
SubmitFails ==
  /\ running = "signing"
  /\ \/ Failed("signature_rejected") /\ UNCHANGED chain
     \/ Failed("rpc_failure") /\ (UNCHANGED chain \/ (Cardinality(DOMAIN chain) < MaxTxs /\ chain' = Append(chain, "sent")))
  /\ UNCHANGED <<shown, scope, wallet, records, waits, switches>>

\* submitAction returns a hash; without waitForConfirmation the run goes on at
\* once, unless onConfirmed throws.
Submitted ==
  LET h == Len(chain) + 1
      confirming == transitionTxState(transitionTxState(flow, "SUBMITTED", h), "CONFIRMING", h) IN
  /\ running = "signing" /\ h <= MaxTxs
  /\ chain' = Append(chain, "sent")
  /\ \/ waits /\ flow' = confirming /\ running' = "waiting"
     \/ ~waits /\ flow' = transitionTxState(confirming, "INDEXING", h) /\ running' = "indexing"
     \/ ~waits /\ running' = "none"
        /\ flow' = transitionTxState(confirming, "FAILED", mapTxError("other", stateFailureFallback(confirming)))
  /\ UNCHANGED <<shown, scope, wallet, records, waits, switches>>

\* The promise of waitForConfirmation for this run's hash is resolved.
Settled == chain[flow.hash] = "landed"

Confirmed ==
  /\ running = "waiting" /\ Settled
  /\ flow' = transitionTxState(flow, "INDEXING", flow.hash) /\ running' = "indexing"
  /\ UNCHANGED <<shown, scope, wallet, records, waits, chain, switches>>

\* It is rejected; withTimeout gives up; or onConfirmed throws.
ConfirmFails ==
  /\ running = "waiting"
  /\ \/ chain[flow.hash] = "reverted" /\ Failed("contract_error")
     \/ Failed("confirmation_timeout")
     \/ Settled /\ Failed("other")
  /\ UNCHANGED <<shown, scope, wallet, records, waits, chain, switches>>

Indexed ==
  /\ running = "indexing"
  /\ flow' = transitionTxState(flow, "SUCCEEDED", flow.hash) /\ running' = "none"
  /\ UNCHANGED <<shown, scope, wallet, records, waits, chain, switches>>

\* onDismiss and onRetry of the timeline: back to idle, ignored while active.
reset ==
  /\ isTerminalState(shown)
  /\ flow' = transitionTxState(flow, "RESET", 0)
  /\ UNCHANGED <<shown, running, scope, wallet, records, waits, chain, switches>>

\* The first effect of usePersistentTxFlow, when the scope is new: its record
\* is taken out, and a run that throws shows the interrupted action, unless a
\* run is in flight.
Recovers(s) == records[s] # NoRecord /\ running = "none"

\* The second effect: the slot of the scope follows the rendered state.
Persisted(s, state) == [records EXCEPT ![s] = IF isActiveState(state) THEN Recorded(state) ELSE NoRecord]

\* A render and its effects.
Render ==
  /\ shown # flow \/ scope # wallet
  /\ shown' = flow /\ scope' = wallet
  /\ records' = Persisted(wallet, flow)
  /\ IF scope # wallet /\ Recovers(wallet)
     THEN flow' = Started(transitionTxState(flow, "RESET", 0)) /\ running' = "recovering"
     ELSE UNCHANGED <<flow, running>>
  /\ UNCHANGED <<wallet, waits, chain, switches>>

\* The page is opened again: a new state machine, then the effects of the mount.
Reopen(w) ==
  /\ switches < MaxSwitches /\ switches' = switches + 1
  /\ wallet' = w /\ scope' = w
  /\ shown' = InitialFlow
  /\ records' = Persisted(w, InitialFlow)
  /\ IF records[w] # NoRecord THEN flow' = Started(InitialFlow) /\ running' = "recovering"
                              ELSE flow' = InitialFlow /\ running' = "none"
  /\ UNCHANGED <<waits, chain>>

\* The synthetic run throws: confirmation_timeout with a hash, else rpc_failure.
RecoveryShown ==
  /\ running = "recovering"
  /\ \E kind \in {"confirmation_timeout", "rpc_failure"} : Failed(kind)
  /\ UNCHANGED <<shown, scope, wallet, records, waits, chain, switches>>

SwitchWallet(w) ==
  /\ switches < MaxSwitches /\ switches' = switches + 1
  /\ w # wallet /\ wallet' = w
  /\ UNCHANGED <<flow, shown, running, scope, records, waits, chain>>

ChainSettles(h) ==
  /\ chain[h] = "sent"
  /\ \E outcome \in {"landed", "reverted"} : chain' = [chain EXCEPT ![h] = outcome]
  /\ UNCHANGED <<flow, shown, running, scope, wallet, records, waits, switches>>

TxNext ==
  \/ run \/ SubmitFails \/ Submitted \/ Confirmed \/ ConfirmFails \/ Indexed \/ reset
  \/ Render \/ RecoveryShown
  \/ \E w \in Scopes : Reopen(w) \/ SwitchWallet(w)
  \/ \E h \in DOMAIN chain : ChainSettles(h)

TxSpec == TxInit /\ [][TxNext]_txVars

-----------------------------------------------------------------------------
(* When the caller waits for confirmation, "Transaction confirmed" is only    *)
(* shown for a transaction that landed: neither the late confirmation of a    *)
(* run that timed out nor a wallet switch carries over to the next one.       *)
SuccessIsConfirmed == waits /\ flow.stage = "success" => chain[flow.hash] = "landed"

(* Closing the tab loses nothing the user saw: whenever the screen is up to   *)
(* date and shows an action under way, the slot of the connected wallet       *)
(* holds that stage and hash; and once nothing runs, it holds no record.      *)
RecordMatchesScreen ==
  shown = flow /\ scope = wallet => records[wallet] = IF isActiveState(shown) THEN Recorded(shown) ELSE NoRecord
=============================================================================
