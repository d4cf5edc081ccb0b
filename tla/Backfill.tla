------------------------------ MODULE Backfill ------------------------------
(***************************************************************************)
(* The operator's back-fill of a range of ledgers (backend/src/scripts/    *)
(* backfill.ts) beside the running service: it fetches the range's events  *)
(* page by page, up to a limit, and hands each of them to                  *)
(* LedgerService.reconcileEvent, which keeps one record per transaction.   *)
(* It neither reads nor moves the indexer's cursor, and treats a pool's    *)
(* creation as an ordinary event.                                          *)
(***************************************************************************)
EXTENDS Naturals, Sequences

CONSTANTS
  Ranges,        \* ranges considered: sequences of events [tx, decodes]
  RpcPageLimit,  \* events of one request
  FetchLimit,    \* events of one fetchEvents call
  MaxBackfills   \* bound on the runs of the script

ASSUME BackfillAssumption ==
  /\ \A r \in Ranges : r \in Seq([tx : Nat, decodes : BOOLEAN])
  /\ RpcPageLimit \in Nat \ {0} /\ FetchLimit \in Nat \ {0}
  /\ MaxBackfills \in Nat

VARIABLES
  range,         \* the events of the range on the chain
  onRecord,      \* transactions in action_ledger or pending_events
  poison,        \* positions in poison_events
  script,        \* the run: stage, events fetched, position, dryRun, its counters, what it wrote,
                 \* and whether a node held events of the range back
  backfills      \* number of runs so far

backfillVars == <<range, onRecord, poison, script, backfills>>

NoScript == [stage |-> "none", got |-> 0, heldBack |-> FALSE, at |-> 1, dryRun |-> FALSE, processed |-> 0, skipped |-> 0, failed |-> 0,
             wrote |-> {}]

BackfillInit ==
  /\ range \in Ranges
  /\ onRecord = {} /\ poison = {}
  /\ script = NoScript /\ backfills = 0

-----------------------------------------------------------------------------

\* The indexer records the event, or a wallet attaches the hash to its action.
RecordedElsewhere(i) ==
  /\ range[i].tx \notin onRecord
  /\ onRecord' = onRecord \cup {range[i].tx}
  /\ UNCHANGED <<range, poison, script, backfills>>

StartScript(dryRun) ==
  /\ script.stage \notin {"fetching", "running"} /\ backfills < MaxBackfills
  /\ backfills' = backfills + 1
  /\ script' = [NoScript EXCEPT !.stage = "fetching", !.dryRun = dryRun]
  /\ UNCHANGED <<range, onRecord, poison>>

Lesser(m, n) == IF m <= n THEN m ELSE n

PageSizeNow == Lesser(RpcPageLimit, FetchLimit - script.got)
InRange == Len(range) - script.got

\* One page: a node that is behind, or scans few ledgers at a time, returns
\* fewer events than there are.  A page that is not full, or the limit, ends the
\* fetch.
FetchPage ==
  /\ script.stage = "fetching"
  /\ \E n \in 0 .. Lesser(PageSizeNow, InRange) :
       script' = [script EXCEPT !.got = @ + n, !.heldBack = @ \/ n < Lesser(PageSizeNow, InRange),
                    !.stage = IF n < PageSizeNow \/ script.got + n = FetchLimit THEN "running" ELSE "fetching"]
  /\ UNCHANGED <<range, onRecord, poison, backfills>>

\* All endpoints fail: the script ends.
FetchFails ==
  /\ script.stage = "fetching"
  /\ script' = [script EXCEPT !.stage = "fatal"]
  /\ UNCHANGED <<range, onRecord, poison, backfills>>

Event == range[script.at]
AtEvent == script.stage = "running" /\ script.at <= script.got

\* The script goes on after counting the event.
CountAs(field) == [script EXCEPT !.at = @ + 1, ![field] = @ + 1]

\* What does not decode is quarantined, unless this is a dry run, and counts as
\* failed; a quarantine that fails ends the script.
QuarantineMalformed ==
  /\ AtEvent /\ ~Event.decodes
  /\ IF script.dryRun
     THEN script' = CountAs("failed") /\ UNCHANGED poison
     ELSE \/ script' = [CountAs("failed") EXCEPT !.wrote = @ \cup {script.at}] /\ poison' = poison \cup {script.at}
          \/ script' = [script EXCEPT !.stage = "fatal"] /\ UNCHANGED poison
  /\ UNCHANGED <<range, onRecord, backfills>>

\* A dry run looks the transaction up, in two reads.
ForecastEvent ==
  /\ AtEvent /\ Event.decodes /\ script.dryRun
  /\ script' = CountAs(IF Event.tx \in onRecord THEN "skipped" ELSE "processed")
  /\ UNCHANGED <<range, onRecord, poison, backfills>>

\* reconcileEvent upserts: a transaction on record stays as it is.
ReconcileOne ==
  /\ AtEvent /\ Event.decodes /\ ~script.dryRun
  /\ onRecord' = onRecord \cup {Event.tx}
  /\ script' = [CountAs("processed") EXCEPT !.wrote = @ \cup {script.at}]
  /\ UNCHANGED <<range, poison, backfills>>

isDuplicate(error) == error = "P2002"

\* It throws: a concurrent insert of the same transaction won ("P2002"), or the
\* database failed.
ReconcileThrows(error) ==
  /\ AtEvent /\ Event.decodes /\ ~script.dryRun
  /\ error = "P2002" => Event.tx \in onRecord
  /\ script' = CountAs(IF isDuplicate(error) THEN "skipped" ELSE "failed")
  /\ UNCHANGED <<range, onRecord, poison, backfills>>

CompleteScript ==
  /\ script.stage = "running" /\ script.at > script.got
  /\ script' = [script EXCEPT !.stage = "completed"]
  /\ UNCHANGED <<range, onRecord, poison, backfills>>

BackfillNext ==
  \/ \E i \in DOMAIN range : RecordedElsewhere(i)
  \/ \E dry \in BOOLEAN : StartScript(dry)
  \/ FetchPage \/ FetchFails
  \/ QuarantineMalformed \/ ForecastEvent \/ ReconcileOne \/ CompleteScript
  \/ \E error \in {"P2002", "database"} : ReconcileThrows(error)

BackfillSpec == BackfillInit /\ [][BackfillNext]_backfillVars

-----------------------------------------------------------------------------

\* A dry run writes nothing.  A run that completes has counted every event it
\* fetched once and, if it reports no failure, has left no transaction of those
\* unrecorded, whoever else was writing and whichever inserts lost.  It fetched
\* the whole range, up to the limit, unless a node held events back; the report
\* does not tell the three apart.
BackfillComplete ==
  /\ script.dryRun => script.wrote = {}
  /\ script.stage = "completed" =>
       /\ script.processed + script.skipped + script.failed = script.got
       /\ script.failed = 0 /\ ~script.dryRun => \A i \in 1 .. script.got : range[i].tx \in onRecord
       /\ ~script.heldBack => script.got = Lesser(Len(range), FetchLimit)

=============================================================================
