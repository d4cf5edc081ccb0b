----------------------------- MODULE TimedWidgets -----------------------------
(***************************************************************************)
(* The components of the app that live on timers and animation frames:     *)
(* RoundCountdown.jsx, PositionMaturityCountdown.jsx,                      *)
(* BridgeStatusTracker.jsx, BalanceAutoRefresh.jsx and the toasts of       *)
(* useTransactionToast.js, each while its props change and time passes.    *)
(* One of them is mounted in a behaviour.                                  *)
(***************************************************************************)
EXTENDS Naturals, FiniteSets

CONSTANTS
  LastSecond,        \* bound on the time
  BridgeSteps,     \* BRIDGE_STEPS.length
  EstimatedTime,   \* of a bridge transfer
  Intervals,       \* REFRESH_OPTIONS, 0 being Off
  ToastIds

ASSUME TimedAssumption ==
  /\ {LastSecond, BridgeSteps, EstimatedTime} \subseteq Nat /\ BridgeSteps > 0
  /\ Intervals \subseteq Nat

Widgets == {"round", "position", "bridge", "refresh", "toasts"}

VARIABLES
  widget, tick,
  deadline,        \* endDate of the round, maturityDate of the position
  frame,           \* an animation frame is requested
  phase,           \* the status prop of a position
  completed,       \* alreadyCompleted
  reached,         \* calls of onMaturityReached
  bridgeStep, elapsed, stalled,
  period, left, hidden, lastUpdate,   \* BalanceAutoRefresh
  watched,         \* visible time since the last refresh (history)
  hasty,           \* a refresh came before its interval had been watched (history)
  toasts           \* id -> [type, error, expires]

timedVars == <<widget, tick, deadline, frame, phase, completed, reached, bridgeStep, elapsed, stalled,
               period, left, hidden, lastUpdate, watched, hasty, toasts>>

countdownVars == <<deadline, frame, phase, completed, reached>>
bridgeVars == <<bridgeStep, elapsed, stalled>>
refreshVars == <<period, left, hidden, lastUpdate, watched, hasty>>

NoToasts == [i \in {} |-> 0]

TimedInit ==
  /\ widget \in Widgets
  /\ tick = 0 /\ deadline \in 1 .. 2 /\ frame = TRUE
  /\ phase = "active" /\ completed = FALSE /\ reached = 0
  /\ bridgeStep = 0 /\ elapsed = 0 /\ stalled = FALSE
  /\ period \in Intervals /\ left = period /\ hidden = FALSE /\ lastUpdate = 0
  /\ watched = 0 /\ hasty = FALSE
  /\ toasts = NoToasts

-----------------------------------------------------------------------------
(* RoundCountdown and PositionMaturityCountdown.                             *)

isComplete == deadline <= tick

Counting == widget = "round" \/ (widget = "position" /\ phase \notin {"matured", "expired"})

FirstCompletion == isComplete /\ ~completed

\* update: the next frame is requested until the time is up.
CountdownFrame ==
  /\ Counting /\ frame
  /\ frame' = ~isComplete
  /\ IF widget = "position" /\ FirstCompletion
       THEN completed' = TRUE /\ reached' = reached + 1
       ELSE UNCHANGED <<completed, reached>>
  /\ UNCHANGED <<widget, tick, deadline, phase, bridgeVars, refreshVars, toasts>>

EffectRestarts_Once(w) == w = "position"

\* The effect depends on the date: it is run again when the date changes.
EffectRestarts(w) == TRUE

NewDeadline(d) ==
  /\ widget \in {"round", "position"} /\ d # deadline
  /\ deadline' = d
  /\ frame' = IF EffectRestarts(widget) THEN Counting ELSE frame
  /\ UNCHANGED <<widget, tick, phase, completed, reached, bridgeVars, refreshVars, toasts>>

\* The position's status changes; its effect also depends on the callback, which
\* the parent makes anew whenever it renders.
PositionRenders(p) ==
  /\ widget = "position"
  /\ phase' = p
  /\ frame' = (p \notin {"matured", "expired"})
  /\ UNCHANGED <<widget, tick, deadline, completed, reached, bridgeVars, refreshVars, toasts>>

-----------------------------------------------------------------------------
(* BridgeStatusTracker.                                                      *)

BridgeDone(s) == s >= BridgeSteps - 1

\* The effect of a step that completes the transfer.
ClearsStall(s) == BridgeDone(s)

\* The parent gives a step, an earlier one when it retries.
SetBridgeStep(s) ==
  /\ widget = "bridge" /\ s # bridgeStep
  /\ bridgeStep' = s
  /\ stalled' = (stalled /\ ~ClearsStall(s))
  /\ UNCHANGED <<widget, tick, countdownVars, elapsed, refreshVars, toasts>>

BridgeSecond ==
  /\ widget = "bridge" /\ ~BridgeDone(bridgeStep) /\ elapsed < LastSecond
  /\ elapsed' = elapsed + 1
  /\ stalled' = (stalled \/ 2 * elapsed' > 3 * EstimatedTime)
  /\ UNCHANGED <<widget, tick, countdownVars, bridgeStep, refreshVars, toasts>>

-----------------------------------------------------------------------------
(* BalanceAutoRefresh.                                                       *)

Animating == widget = "refresh" /\ period # 0 /\ ~hidden

\* animate: the time since the last frame is taken off.
RefreshFrame ==
  /\ Animating /\ lastUpdate # tick
  /\ LET delta == tick - lastUpdate IN
     IF left <= delta
       THEN /\ left' = period /\ watched' = 0
            /\ hasty' = (hasty \/ watched < period)
       ELSE left' = left - delta /\ UNCHANGED <<watched, hasty>>
  /\ lastUpdate' = tick
  /\ UNCHANGED <<widget, tick, countdownVars, bridgeVars, period, hidden, toasts>>

\* The effect that starts the animation again takes the time of the start.
ResumesAt == tick

VisibilityChange ==
  /\ widget = "refresh"
  /\ hidden' = ~hidden
  /\ lastUpdate' = IF hidden /\ period # 0 THEN ResumesAt ELSE lastUpdate
  /\ UNCHANGED <<widget, tick, countdownVars, bridgeVars, period, left, watched, hasty, toasts>>

\* setRefreshInterval and both effects that depend on it.
ChooseInterval(v) ==
  /\ widget = "refresh" /\ v # period
  /\ period' = v /\ left' = v /\ watched' = 0
  /\ lastUpdate' = IF v # 0 /\ ~hidden THEN tick ELSE lastUpdate
  /\ UNCHANGED <<widget, tick, countdownVars, bridgeVars, hidden, hasty, toasts>>

-----------------------------------------------------------------------------
(* Toasts.                                                                   *)

\* The delay after which addToast removes its toast, 0 for never.
ToastDelay(type, error) ==
  CASE type = "pending" -> 2
    [] type # "error" \/ ~error -> 1
    [] OTHER -> 0

addToast(i, type, error) ==
  /\ widget = "toasts" /\ i \notin DOMAIN toasts
  /\ toasts' = [x \in DOMAIN toasts \cup {i} |->
                  IF x # i THEN toasts[x]
                  ELSE [type |-> type, error |-> error,
                        expires |-> IF ToastDelay(type, error) = 0 THEN 0 ELSE tick + ToastDelay(type, error)]]
  /\ UNCHANGED <<widget, tick, countdownVars, bridgeVars, refreshVars>>

removeToast(i) ==
  /\ i \in DOMAIN toasts
  /\ toasts' = [x \in DOMAIN toasts \ {i} |-> toasts[x]]
  /\ UNCHANGED <<widget, tick, countdownVars, bridgeVars, refreshVars>>

\* The timeout of addToast.
ToastTimeout(i) ==
  /\ i \in DOMAIN toasts /\ toasts[i].expires # 0 /\ toasts[i].expires <= tick
  /\ removeToast(i)

\* The visitor closes it, or opens the debugger from it.
DismissToast(i) == widget = "toasts" /\ removeToast(i)

-----------------------------------------------------------------------------

Tick ==
  /\ widget # "bridge" /\ tick < LastSecond /\ tick' = tick + 1
  /\ watched' = IF Animating THEN watched + 1 ELSE watched
  /\ UNCHANGED <<widget, countdownVars, bridgeVars, period, left, hidden, lastUpdate, hasty, toasts>>

TimedNext ==
  \/ Tick \/ CountdownFrame \/ BridgeSecond \/ RefreshFrame \/ VisibilityChange
  \/ \E d \in 1 .. LastSecond : NewDeadline(d)
  \/ \E p \in {"active", "matured", "paused", "expired"} : PositionRenders(p)
  \/ \E s \in 0 .. BridgeSteps - 1 : SetBridgeStep(s)
  \/ \E v \in Intervals : ChooseInterval(v)
  \/ \E i \in ToastIds : \/ ToastTimeout(i) \/ DismissToast(i)
                         \/ \E type \in {"pending", "success", "error"}, e \in BOOLEAN :
                              (e => type = "error") /\ addToast(i, type, e)

TimedSpec == TimedInit /\ [][TimedNext]_timedVars

-----------------------------------------------------------------------------
(* Properties.                                                               *)

\* A countdown stops asking for frames only when its time is up, also when the
\* round or the position is given a later date after it had stopped.
FrozenOnlyAtTheEnd == Counting /\ ~frame => isComplete

\* The parent is told once that the position matured, however often the effect
\* is run again, the date moved or the callback replaced.
MaturityToldOnce == reached <= 1

\* A completed transfer is never shown as stalled, and a stalled one has taken
\* longer than one and a half times its estimate.
StalledIsOverdue == stalled => ~BridgeDone(bridgeStep) /\ 2 * elapsed > 3 * EstimatedTime

\* "Pauses automatically when the window is hidden" (BalanceAutoRefresh.jsx): a
\* refresh comes only after a whole interval of visible time.
RefreshesAreSpaced == ~hasty

\* The toast of a failed transaction with its error stays until the visitor
\* takes it away.
ErrorToastStays ==
  [\A i \in DOMAIN toasts :
     toasts[i].error /\ ToastTimeout(i) => i \in DOMAIN toasts']_timedVars
=============================================================================
