------------------------------ MODULE RetryQueue ------------------------------
(***************************************************************************)
(* The retry queue of failed wallet actions                                *)
(* (components/app/VaultRetryQueue.jsx): a recheck of the server's status, *)
(* a submission, and automatic retries with backoff.  A click renders at   *)
(* once; what a timer or a request changes is rendered later, and handlers *)
(* read the rendered rows (actionsRef).  Timers outlast a render.          *)
(***************************************************************************)
EXTENDS FiniteSets, Naturals

CONSTANTS
  Queued,              \* ids of the queued actions
  MAX_RETRY_ATTEMPTS,
  MaxTries             \* bound on failed submissions, and on a row's retryCount

ASSUME RetryAssumption == MAX_RETRY_ATTEMPTS \in Nat \ {0} /\ MaxTries \in Nat

VARIABLES
  rows,       \* id -> row of the component's state
  rendered,   \* the rows of the last render
  attempt,    \* id -> the retry under way and what it captured of the row
  timers,     \* id -> "none", "retry" or "dismiss"
  cancelling, \* ids whose cancellation is under way
  tries       \* id -> failed submissions so far

retryVars == <<rows, rendered, attempt, timers, cancelling, tries>>

RESOLVED_SERVER_STATUSES == {"confirmed", "completed", "reconciled", "reverted"}

\* The rows the component starts with.
QueuedRows ==
  [present : {TRUE}, status : {"failed"}, retryState : {"idle"}, retryCount : 0 .. MAX_RETRY_ATTEMPTS - 1,
   serverStatus : {"failed", "confirmed"}]
  \cup {[present |-> TRUE, status |-> "pending", retryState |-> "idle", retryCount |-> 0, serverStatus |-> "submitted"]}

NoAttempt == [at |-> "none", count |-> 0, serverStatus |-> "failed"]

RetryInit ==
  /\ rows \in [Queued -> QueuedRows]
  /\ rendered = rows
  /\ attempt = [a \in Queued |-> NoAttempt]
  /\ timers = [a \in Queued |-> "none"]
  /\ cancelling = {}
  /\ tries = [a \in Queued |-> 0]

\* updateAction: rows that are gone stay gone.
updateAction(a, row) == [rows EXCEPT ![a] = IF rows[a].present THEN row ELSE @]

RetryEnabled(row) == row.present /\ row.status # "pending" /\ row.retryState \notin {"retrying", "scheduled", "resolved"}

\* The synchronous part of attemptRetry.
Begin(a) ==
  /\ attempt[a] = NoAttempt /\ rendered[a].present
  /\ attempt' = [attempt EXCEPT ![a] = [at |-> "checking", count |-> rendered[a].retryCount,
                                          serverStatus |-> rendered[a].serverStatus]]
  /\ timers' = [timers EXCEPT ![a] = "none"]
  /\ rows' = updateAction(a, [rows[a] EXCEPT !.retryState = "retrying"])

handleRetry(a) ==
  /\ RetryEnabled(rendered[a])
  /\ Begin(a)
  /\ rendered' = rows'
  /\ UNCHANGED <<cancelling, tries>>

\* The backoff timer, seconds after the row was rendered as scheduled.
AutomaticRetry(a) ==
  /\ timers[a] = "retry" /\ rendered = rows
  /\ IF rendered[a].present /\ rendered[a].retryState = "scheduled" THEN Begin(a)
     ELSE timers' = [timers EXCEPT ![a] = "none"] /\ UNCHANGED <<rows, attempt>>
  /\ UNCHANGED <<rendered, cancelling, tries>>

\* fetchActionStatus answers: a resolved row is shown and dismissed later.
fetchActionStatus(a) ==
  /\ attempt[a].at = "checking"
  /\ IF attempt[a].serverStatus \in RESOLVED_SERVER_STATUSES
     THEN /\ rows' = updateAction(a, [rows[a] EXCEPT !.retryState = "resolved"])
          /\ timers' = [timers EXCEPT ![a] = "dismiss"]
          /\ attempt' = [attempt EXCEPT ![a] = NoAttempt]
     ELSE attempt' = [attempt EXCEPT ![a].at = "submitting"] /\ UNCHANGED <<rows, timers>>
  /\ UNCHANGED <<rendered, cancelling, tries>>

submitRetry(a) ==
  /\ attempt[a].at = "submitting" /\ attempt[a].count < MaxTries
  /\ rows' = updateAction(a, [rows[a] EXCEPT !.status = "pending", !.retryState = "idle",
                                             !.retryCount = attempt[a].count + 1, !.serverStatus = "submitted"])
  /\ attempt' = [attempt EXCEPT ![a] = NoAttempt]
  /\ UNCHANGED <<rendered, timers, cancelling, tries>>

ScheduleTimer(a) == timers' = [timers EXCEPT ![a] = "retry"]

\* The submission fails: exhausted, or scheduled with its backoff.
RetryFails(a) ==
  /\ attempt[a].at = "submitting" /\ tries[a] < MaxTries
  /\ tries' = [tries EXCEPT ![a] = @ + 1]
  /\ attempt' = [attempt EXCEPT ![a] = NoAttempt]
  /\ IF attempt[a].count + 1 >= MAX_RETRY_ATTEMPTS
     THEN rows' = updateAction(a, [rows[a] EXCEPT !.retryState = "exhausted"]) /\ UNCHANGED timers
     ELSE rows' = updateAction(a, [rows[a] EXCEPT !.retryState = "scheduled"]) /\ ScheduleTimer(a)
  /\ UNCHANGED <<rendered, cancelling>>

DismissTimer(a) ==
  /\ timers[a] = "dismiss"
  /\ timers' = [timers EXCEPT ![a] = "none"]
  /\ rows' = [rows EXCEPT ![a].present = FALSE]
  /\ UNCHANGED <<rendered, attempt, cancelling, tries>>

\* Cancel on a pending row; the row is failed half a second later, whatever it is by then.
handleCancel(a) ==
  /\ \/ /\ rendered[a].present /\ rendered[a].status = "pending" /\ rendered[a].retryState # "retrying"
        /\ a \notin cancelling
        /\ cancelling' = cancelling \cup {a}
        /\ rows' = rows
     \/ /\ a \in cancelling
        /\ cancelling' = cancelling \ {a}
        /\ rows' = updateAction(a, [rows[a] EXCEPT !.status = "failed"])
  /\ UNCHANGED <<rendered, attempt, timers, tries>>

handleDismiss(a) ==
  /\ rendered[a].present /\ rendered[a].status # "pending" /\ rendered[a].retryState # "retrying"
  /\ timers' = [timers EXCEPT ![a] = "none"]
  /\ rows' = [rows EXCEPT ![a].present = FALSE]
  /\ rendered' = rows'
  /\ UNCHANGED <<attempt, cancelling, tries>>

Visible(r) == {a \in Queued : r[a].present}

\* Offered for more than one row, also while some are being retried: their
\* in-flight marks are cleared, the attempts go on.
handleClearAll ==
  /\ Cardinality(Visible(rendered)) > 1
  /\ timers' = [a \in Queued |-> IF rendered[a].present THEN "none" ELSE timers[a]]
  /\ rows' = [a \in Queued |-> [rows[a] EXCEPT !.present = FALSE]]
  /\ rendered' = rows'
  /\ UNCHANGED <<attempt, cancelling, tries>>

RenderRows ==
  /\ rendered # rows
  /\ rendered' = rows
  /\ UNCHANGED <<rows, attempt, timers, cancelling, tries>>

RetryNext ==
  \/ handleClearAll \/ RenderRows
  \/ \E a \in Queued :
       \/ handleRetry(a) \/ AutomaticRetry(a) \/ fetchActionStatus(a) \/ submitRetry(a) \/ RetryFails(a)
       \/ DismissTimer(a) \/ handleCancel(a) \/ handleDismiss(a)

RetrySpec == RetryInit /\ [][RetryNext]_retryVars

-----------------------------------------------------------------------------
(* A row that says "Retrying soon", whose buttons are disabled, has its timer *)
(* pending, and a pending backoff timer belongs to such a row: cancelling,    *)
(* dismissing and resolving never strand a row or wake a settled one.         *)
BackoffIsPending ==
  \A a \in Queued : rows[a].present => (rows[a].retryState = "scheduled" <=> timers[a] = "retry")

=============================================================================
