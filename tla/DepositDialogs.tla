---------------------------- MODULE DepositDialogs ----------------------------
(***************************************************************************)
(* The dialogs money goes in and out through: the wallet kit's deposit and *)
(* withdrawal modals (vault/components/DepositModal.tsx,                   *)
(* WithdrawalModal.tsx, lib/depositPreview.ts) and the app's deposit modal *)
(* with its fee selector (components/app/DepositModal.jsx,                 *)
(* GasPrioritySelector.jsx).  Amounts are in thousandths of a token; the   *)
(* limit is the tightest of balance, wallet cap and pool cap.  The kit's   *)
(* limits move with other deposits; the app's is the balance it holds.     *)
(*                                                                         *)
(* An amount is a text: the number it shows and the one that parseFloat    *)
(* reads in it, which stops at a separator of thousands.                   *)
(***************************************************************************)
EXTENDS Integers, FiniteSets

CONSTANTS
  Amounts,      \* what can be typed
  Limits,       \* values of the limit
  AppBalance,   \* usdcBalance of the app's modal
  Token,        \* thousandths in a token, fewer in the runs
  GroupTokens,  \* tokens from which a separator is written, fewer in the runs
  PreviewPools, \* pools a preview is computed for
  MaxFeeLoads   \* bound on fee requests

ASSUME DialogAssumption ==
  /\ Amounts \subseteq Nat /\ Limits \subseteq Nat /\ MaxFeeLoads \in Nat
  /\ AppBalance \in Nat /\ Token \in Nat \ {0} /\ GroupTokens \in Nat \ {0}
  /\ PreviewPools \subseteq [tvl : Nat, strategyBps : Nat, idle : Int, queued : Nat,
                             maxStrategyBps : Nat, minIdleBps : Nat]
  /\ \A p \in PreviewPools : p.minIdleBps <= 10000

VARIABLES
  dialog,    \* "deposit" or "withdraw" of the wallet kit, "app"
  step,
  amount,    \* the text in the field
  limit,     \* as the props say it now
  refreshing,\* "no", "balance", or "continue": handleContinue awaits it
  checked,   \* the amount handleContinue accepted last, its limit, and whether
             \* the field was edited while it awaited the refresh
  queued,    \* the withdrawal was queued
  errorKind, \* why the last broadcast failed
  network,   \* of the fee selector
  gasPrice,  \* the network whose price is held, or "none"
  loads,     \* fee requests under way: network and whether cancelled
  feeLoads   \* so far

dialogVars == <<dialog, step, amount, limit, refreshing, checked, queued, errorKind, network, gasPrice, loads, feeLoads>>
feeVars == <<network, gasPrice, loads, feeLoads>>

NETWORKS == {"avalanche", "stellar"}

Plain(n) == [shown |-> n, read |-> n]

\* "1,000.00" is read as 1.
Grouped(n) == [shown |-> n, read |-> IF n < GroupTokens * Token THEN n ELSE (n \div (GroupTokens * Token)) * Token]

\* The app's modal starts with 250 of a balance of 1000.
DialogInit ==
  /\ dialog \in {"deposit", "withdraw", "app"}
  /\ limit \in IF dialog = "app" THEN {AppBalance} ELSE Limits
  /\ amount = Plain(IF dialog = "app" THEN AppBalance \div 4 ELSE 0)
  /\ step = "input" /\ refreshing = "no" /\ checked = [amount |-> 0, limit |-> 0, edited |-> FALSE]
  /\ queued = FALSE /\ errorKind = "none"
  /\ network = "avalanche" /\ gasPrice = "none"
  /\ loads = IF dialog = "app" THEN {[network |-> "avalanche", cancelled |-> FALSE]} ELSE {}
  /\ feeLoads = 0

-----------------------------------------------------------------------------
(* calculateDepositPreview.  A pool has its tvl, the share in the strategy   *)
(* in basis points, its idle liquidity (-1: not reported), what is queued,   *)
(* and its two thresholds.                                                   *)

AtLeast0(n) == IF n < 0 THEN 0 ELSE n
Rounded(n, d) == (2 * n + d) \div (2 * d)

\* New deposits are idle liquidity first (in ten-thousandths).
PostIdle(p, d) == (IF p.idle < 0 THEN AtLeast0(p.tvl * 10000 - p.tvl * p.strategyBps) ELSE p.idle * 10000) + d * 10000

ExposureBps(p, d) == IF p.tvl + d > 0 THEN Rounded(p.tvl * p.strategyBps, p.tvl + d) ELSE p.strategyBps
IdleRatioBps(p, d) == IF p.tvl + d > 0 THEN Rounded(PostIdle(p, d), p.tvl + d) ELSE 10000

queuePressureLevel(p, d) ==
  CASE p.queued = 0 \/ 2 * PostIdle(p, d) >= 3 * p.queued * 10000 -> 0
    [] PostIdle(p, d) >= p.queued * 10000 -> 1
    [] 2 * PostIdle(p, d) >= p.queued * 10000 -> 2
    [] OTHER -> 3

warnings(p, d) ==
  {w \in {"HIGH_STRATEGY_EXPOSURE", "LOW_IDLE_LIQUIDITY", "QUEUED_WITHDRAWAL_PRESSURE"} :
     CASE w = "HIGH_STRATEGY_EXPOSURE" -> ExposureBps(p, d) > p.maxStrategyBps
       [] w = "LOW_IDLE_LIQUIDITY" -> IdleRatioBps(p, d) < p.minIdleBps /\ p.tvl + d > 0
       [] w = "QUEUED_WITHDRAWAL_PRESSURE" -> p.queued * 10000 > PostIdle(p, d)}

-----------------------------------------------------------------------------
\* toFixed(2), and the same rounding to cents in formatAssetAmount
toFixed(n) == Rounded(n, 10) * 10

\* What a quick amount types: the app formats it for reading.
Typed(n) == IF dialog = "app" THEN Grouped(toFixed(n)) ELSE Plain(toFixed(n))

\* The app also has a minimum of one token, and wants the fee covered; whether
\* it is does not matter here.
isValid(a) == a > 0 /\ a <= limit /\ (dialog = "app" => a >= Token)

Editable_Review == step \in {"input", "review"}

\* The amount can be edited in the input step, while a refresh runs as well.
Editable == step = "input"

EditTo(text) ==
  /\ amount' = text
  /\ checked' = [checked EXCEPT !.edited = @ \/ refreshing = "continue"]
  /\ UNCHANGED <<dialog, step, limit, refreshing, queued, errorKind>> /\ UNCHANGED feeVars

\* The app's field is a text and takes separators, those of the kit do not.
setAmount ==
  /\ Editable
  /\ \E a \in Amounts :
       \/ EditTo(Plain(a))
       \/ dialog = "app" /\ EditTo(Grouped(a))

\* Max and the quick amounts: a share of the limit.
handleQuickAmount ==
  /\ step = "input"
  /\ \E pct \in {25, 50, 75, 100} : EditTo(Typed((limit * pct) \div 100))

\* Other deposits and withdrawals change the props of the kit's modals.
LimitMoves ==
  /\ dialog # "app" /\ limit' \in Limits
  /\ UNCHANGED <<dialog, step, amount, refreshing, checked, queued, errorKind>> /\ UNCHANGED feeVars

\* The app's refresh is a timer that changes no balance and holds up nothing.
handleRefresh ==
  /\ dialog # "withdraw"
  /\ \/ step = "input" /\ refreshing = "no" /\ refreshing' = "balance" /\ UNCHANGED limit
     \/ /\ refreshing = "balance" /\ refreshing' = "no"
        /\ limit' \in IF dialog = "app" THEN {limit} ELSE Limits
  /\ UNCHANGED <<dialog, step, amount, checked, queued, errorKind>> /\ UNCHANGED feeVars

\* Of the kit's deposit the button is disabled while a refresh runs.
handleContinue ==
  /\ step = "input" /\ isValid(amount.read) /\ (dialog = "deposit" => refreshing = "no")
  /\ checked' = [amount |-> amount.read, limit |-> limit, edited |-> FALSE]
  /\ \/ dialog = "deposit" /\ refreshing' = "continue" /\ UNCHANGED step
     \/ dialog # "deposit" /\ step' = "review" /\ UNCHANGED refreshing
  /\ UNCHANGED <<dialog, amount, limit, queued, errorKind>> /\ UNCHANGED feeVars

\* The deposit modal refreshed the balance; whether that worked or threw.  What
\* is reviewed is the field as it is now.
ContinueRefreshed ==
  /\ refreshing = "continue"
  /\ refreshing' = "no"
  /\ limit' \in Limits
  /\ \/ step' = "review"
     \/ UNCHANGED step
  /\ UNCHANGED <<dialog, amount, checked, queued, errorKind>> /\ UNCHANGED feeVars

Back ==
  /\ step = "review"
  /\ step' = "input"
  /\ UNCHANGED <<dialog, amount, limit, refreshing, checked, queued, errorKind>> /\ UNCHANGED feeVars

handleConfirm ==
  /\ step = "review"
  /\ step' = "broadcasting" /\ errorKind' = "none"
  /\ UNCHANGED <<dialog, amount, limit, refreshing, checked, queued>> /\ UNCHANGED feeVars

\* onDeposit or onWithdraw returns; the app's timer only ever succeeds.
Broadcast ==
  /\ step = "broadcasting"
  /\ \/ step' = "success" /\ queued' \in (IF dialog = "withdraw" THEN BOOLEAN ELSE {FALSE}) /\ UNCHANGED errorKind
     \/ /\ dialog # "app" /\ step' = "review" /\ UNCHANGED queued
        /\ errorKind' \in {"generic"} \cup (IF dialog = "withdraw" THEN {"lockup_active", "insufficient_liquidity"} ELSE {})
  /\ UNCHANGED <<dialog, amount, limit, refreshing, checked>> /\ UNCHANGED feeVars

\* Not while broadcasting.  Opened again, the kit's modals are new ones, and
\* the app's keeps its amount.
onClose ==
  /\ step # "broadcasting"
  /\ step' = "input" /\ queued' = FALSE /\ errorKind' = "none"
  /\ IF dialog = "app" THEN UNCHANGED <<amount, refreshing>> ELSE amount' = Plain(0) /\ refreshing' = "no"
  /\ UNCHANGED <<dialog, limit, checked>> /\ UNCHANGED feeVars

-----------------------------------------------------------------------------
(* GasPrioritySelector: the effect of a new network or a refresh cancels the *)
(* request under way and starts another.                                     *)

Reload(n) ==
  loads' = {[l EXCEPT !.cancelled = TRUE] : l \in loads} \cup {[network |-> n, cancelled |-> FALSE]}

setNetworkKey ==
  /\ dialog = "app" /\ step = "input" /\ feeLoads < MaxFeeLoads
  /\ \E n \in NETWORKS : network' = n /\ Reload(n)
  /\ feeLoads' = feeLoads + 1
  /\ UNCHANGED <<dialog, step, amount, limit, refreshing, checked, queued, errorKind, gasPrice>>

isLoading == \E l \in loads : ~ l.cancelled

Applies_Late(l) == TRUE
Applies(l) == ~ l.cancelled

\* A price, or the network's fallback price, unless cancelled.
loadFees(l) ==
  /\ loads' = loads \ {l}
  /\ gasPrice' = IF Applies(l) THEN l.network ELSE gasPrice
  /\ UNCHANGED <<dialog, step, amount, limit, refreshing, checked, queued, errorKind, network, feeLoads>>

DialogNext ==
  \/ setAmount \/ handleQuickAmount \/ LimitMoves \/ handleRefresh \/ handleContinue \/ ContinueRefreshed
  \/ Back \/ handleConfirm \/ Broadcast \/ onClose \/ setNetworkKey
  \/ \E l \in loads : loadFees(l)

DialogSpec == DialogInit /\ [][DialogNext]_dialogVars

-----------------------------------------------------------------------------
(* The price the fee is computed from is the selected network's whenever     *)
(* nothing is loading: an answer for a network left meanwhile is dropped.    *)
PriceOfNetwork == dialog = "app" /\ ~ isLoading => gasPrice = network

(* What is reviewed and signed was checked, however often the user went back *)
(* and limits moved, but for two ways the dialogs leave open: the kit's      *)
(* deposit may be edited while its check awaits the refresh, and the app's   *)
(* reads less in a text with separators than the review shows, which is      *)
(* what its Max writes from a thousand on.                                   *)
SignedWasChecked ==
  step \in {"review", "broadcasting"} =>
    /\ checked.amount <= checked.limit
    /\ amount.read = checked.amount \/ checked.edited
    /\ checked.edited => dialog = "deposit"
    /\ amount.shown = amount.read \/ (dialog = "app" /\ amount.shown >= GroupTokens * Token /\ amount.read < amount.shown)

(* Depositing helps a pool: for every pool, the preview of a deposit raises  *)
(* no warning and no queue pressure the pool does not have without it.       *)
DepositNeverAddsWarning ==
  amount.read > 0 => \A p \in PreviewPools :
    /\ warnings(p, amount.read) \subseteq warnings(p, 0)
    /\ queuePressureLevel(p, amount.read) <= queuePressureLevel(p, 0)

=============================================================================
