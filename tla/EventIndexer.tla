---------------------------- MODULE EventIndexer ----------------------------
(***************************************************************************)
(* The Stellar indexer: a cron tick fetches contract events after a        *)
(* cursor, decodes them, writes them to the ledger and the pool registry,  *)
(* and saves the cursor as a checkpoint (services/stellarIndexer.ts,       *)
(* startIndexerCron, updateIndexerCheckpoint and the write-behind          *)
(* checkpoint of services/cacheService.ts; server.ts resumes from it).     *)
(*                                                                         *)
(* An event is known by its position in the stream.  Every await inside a  *)
(* tick ends a step.  A tick runs under a job lease and is therefore taken *)
(* to be alone.  replayRange has no caller and is left out.                *)
(***************************************************************************)
EXTENDS FiniteSets, Naturals

CONSTANTS
  Streams,     \* the streams considered: sequences of kinds of event
  StreamLength, \* their greatest length
  BatchSize,
  MaxMishaps   \* bound on crashes, failed fetches and writes, and Redis outages

EventKinds == {"action", "same", "pool", "spoof", "bad"}

ASSUME IndexerAssumption ==
  /\ StreamLength \in Nat /\ \A s \in Streams : \E n \in 0 .. StreamLength : s \in [1 .. n -> EventKinds]
  /\ BatchSize \in Nat \ {0} /\ MaxMishaps \in Nat

VARIABLES
  stream,     \* kind of each event; "same" shares its transaction with the one before it
  recorded,   \* events in action_ledger, pending_events or pool_registry
  skipped,    \* history: events left out on purpose
  lost,       \* history: events whose own write failed, or that a failed quarantine dropped
  held,       \* quarantined events
  cursor,     \* StellarIndexer.cursor, in memory
  ixTick,     \* the tick: where it is, the events to write, whether latestLedger was set
  redis,      \* the cached checkpoint: reachable?, value (0: none), dirty flag
  saved,      \* indexer_checkpoint in PostgreSQL
  mishaps     \* so far, bounded by MaxMishaps

indexerVars == <<stream, recorded, skipped, lost, held, cursor, ixTick, redis, saved, mishaps>>

StreamEvents == DOMAIN stream
NoTick == [pc |-> "idle", batch |-> {}, pools |-> {}, bad |-> 0, seen |-> FALSE]

IndexerInit ==
  /\ stream \in Streams
  /\ recorded = {} /\ skipped = {} /\ lost = {} /\ held = {}
  /\ cursor = 0 /\ ixTick = NoTick
  /\ redis = [up |-> TRUE, value |-> 0, dirty |-> FALSE] /\ saved = 0
  /\ mishaps = 0

Mishap == mishaps < MaxMishaps /\ mishaps' = mishaps + 1

First(S) == CHOOSE e \in S : \A f \in S : e <= f
Last(S) == CHOOSE e \in S : \A f \in S : f <= e

MoveTo_Stays(c, S) == c

\* Where a set of events moves the cursor to, in a loop over them in order.
MoveTo(c, S) == IF S = {} THEN c ELSE Last(S)

-----------------------------------------------------------------------------
(* fetchEvents and the decode phase: nothing is awaited between them but     *)
(* the insert of a quarantined event.                                        *)
fetchEvents == {e \in StreamEvents : cursor < e /\ e <= cursor + BatchSize}

\* Same transaction as an earlier event of the batch.
SeenInBatch(e, fetched) == stream[e] = "same" /\ e - 1 \in fetched

DecodeStops_Never(fetched) == {}

\* The first event that does not decode halts the batch.
DecodeStops(fetched) == {e \in fetched : stream[e] = "bad"}

tick_fetch ==
  LET fetched == fetchEvents
      stops   == DecodeStops(fetched)
      decoded == IF stops = {} THEN fetched ELSE {e \in fetched : e < First(stops)}
      passed  == {e \in decoded : SeenInBatch(e, fetched) \/ stream[e] = "spoof"}
      pools   == {e \in decoded \ passed : stream[e] = "pool"} IN
  /\ ixTick.pc = "idle" /\ fetched # {}
  /\ ixTick' = [pc    |-> IF stops = {} THEN "batch" ELSE "quarantine",
                batch |-> decoded \ (passed \cup pools), pools |-> pools,
                bad   |-> IF stops = {} THEN 0 ELSE First(stops), seen |-> passed # {}]
  /\ cursor' = MoveTo(cursor, passed)
  /\ skipped' = skipped \cup passed
  /\ UNCHANGED <<stream, recorded, lost, held, redis, saved, mishaps>>

tick_quarantine ==
  /\ ixTick.pc = "quarantine"
  /\ held' = held \cup {ixTick.bad}
  /\ ixTick' = [ixTick EXCEPT !.pc = "batch"]
  /\ UNCHANGED <<stream, recorded, skipped, lost, cursor, redis, saved, mishaps>>

\* The insert fails and the tick throws.  Its cursor is past the events that
\* were skipped, and so past the ones decoded before them and never written.
tick_quarantine_fails ==
  /\ ixTick.pc = "quarantine"
  /\ Mishap
  /\ lost' = lost \cup {e \in ixTick.batch \cup ixTick.pools : e < cursor}
  /\ ixTick' = NoTick
  /\ UNCHANGED <<stream, recorded, skipped, held, cursor, redis, saved>>

-----------------------------------------------------------------------------
(* The write phase.                                                          *)
reconcileEvents ==
  /\ ixTick.pc = "batch"
  /\ recorded' = recorded \cup ixTick.batch
  /\ cursor' = MoveTo(cursor, ixTick.batch)
  /\ ixTick' = [ixTick EXCEPT !.pc = "pools", !.batch = {}, !.seen = @ \/ ixTick.batch # {}]
  /\ UNCHANGED <<stream, skipped, lost, held, redis, saved, mishaps>>

reconcileEvents_fails ==
  /\ ixTick.pc = "batch" /\ ixTick.batch # {}
  /\ Mishap
  /\ ixTick' = [ixTick EXCEPT !.pc = "single"]
  /\ UNCHANGED <<stream, recorded, skipped, lost, held, cursor, redis, saved>>

\* A single write: it succeeds, or its failure is logged and passed.
Written(e) ==
  \/ recorded' = recorded \cup {e} /\ UNCHANGED <<lost, mishaps>>
  \/ Mishap /\ lost' = lost \cup {e} /\ UNCHANGED recorded

\* The fallback, event by event.
reconcileEvent ==
  /\ ixTick.pc = "single"
  /\ \/ /\ ixTick.batch # {}
        /\ Written(First(ixTick.batch))
        /\ cursor' = First(ixTick.batch)
        /\ ixTick' = [ixTick EXCEPT !.batch = @ \ {First(@)}, !.seen = TRUE]
     \/ /\ ixTick.batch = {}
        /\ ixTick' = [ixTick EXCEPT !.pc = "pools"]
        /\ UNCHANGED <<recorded, lost, cursor, mishaps>>
  /\ UNCHANGED <<stream, skipped, held, redis, saved>>

\* After the batch, so the cursor may move back.  A failure is passed here too.
upsertPoolRegistryEntry ==
  /\ ixTick.pc = "pools" /\ ixTick.pools # {}
  /\ Written(First(ixTick.pools))
  /\ cursor' = First(ixTick.pools)
  /\ ixTick' = [ixTick EXCEPT !.pools = @ \ {First(@)}, !.seen = TRUE]
  /\ UNCHANGED <<stream, skipped, held, redis, saved>>

-----------------------------------------------------------------------------
(* The checkpoint: Redis when it is reachable, else the row.                 *)
CheckpointOf_Fetched == Last(StreamEvents)

CheckpointOf == cursor

setCheckpoint(c) ==
  IF redis.up
  THEN redis' = [redis EXCEPT !.value = c, !.dirty = TRUE] /\ UNCHANGED saved
  ELSE saved' = c /\ UNCHANGED redis

\* startIndexerCron saves it only if the tick saw an event; an unknown cursor
\* is never saved.
updateIndexerCheckpoint ==
  /\ ixTick.pc = "pools" /\ ixTick.pools = {}
  /\ IF ixTick.seen THEN setCheckpoint(CheckpointOf) ELSE UNCHANGED <<redis, saved>>
  /\ ixTick' = NoTick
  /\ UNCHANGED <<stream, recorded, skipped, lost, held, cursor, mishaps>>

syncCheckpointToDb ==
  /\ redis.up /\ redis.dirty
  /\ saved' = redis.value
  /\ redis' = [redis EXCEPT !.dirty = FALSE]
  /\ UNCHANGED <<stream, recorded, skipped, lost, held, cursor, ixTick, mishaps>>

getCheckpoint == IF redis.up /\ redis.value # 0 THEN redis.value ELSE saved

\* Redis loses its connection and comes back, with its data or without.
RedisTurns ==
  /\ \/ redis.up /\ Mishap /\ \E v \in {0, redis.value} :
          redis' = [up |-> FALSE, value |-> v, dirty |-> redis.dirty /\ v # 0]
     \/ ~ redis.up /\ redis' = [redis EXCEPT !.up = TRUE] /\ UNCHANGED mishaps
  /\ UNCHANGED <<stream, recorded, skipped, lost, held, cursor, ixTick, saved>>

\* The fetch gives up after its retries, or the process is killed and restarted.
fetchEvents_fails == ixTick.pc = "idle" /\ Mishap /\ UNCHANGED <<stream, recorded, skipped, lost, held, cursor, ixTick, redis, saved>>

Restart ==
  /\ Mishap
  /\ ixTick' = NoTick
  /\ cursor' = getCheckpoint
  /\ UNCHANGED <<stream, recorded, skipped, lost, held, redis, saved>>

\* A release with a decoder that knows the event; it starts a new process.
DecoderFixed ==
  \E e \in held :
    /\ stream[e] = "bad"
    /\ stream' = [stream EXCEPT ![e] = "action"]
    /\ ixTick' = NoTick /\ cursor' = getCheckpoint
    /\ UNCHANGED <<recorded, skipped, lost, held, redis, saved, mishaps>>

IndexerTick ==
  \/ tick_fetch \/ tick_quarantine \/ tick_quarantine_fails \/ reconcileEvents
  \/ reconcileEvents_fails \/ reconcileEvent
  \/ upsertPoolRegistryEntry \/ updateIndexerCheckpoint

IndexerNext ==
  \/ IndexerTick \/ syncCheckpointToDb \/ RedisTurns \/ fetchEvents_fails \/ Restart \/ DecoderFixed

IndexerSpec == IndexerInit /\ [][IndexerNext]_indexerVars

\* The schedule fires every minute and operators repair decoders.
IndexerFairness == WF_indexerVars(IndexerTick) /\ WF_indexerVars(DecoderFixed)

-----------------------------------------------------------------------------
Handled == recorded \cup skipped \cup lost

(* Where a restart would resume, everything before is handled: neither        *)
(* batches that fail, registry entries written out of order, crashes,         *)
(* undecodable events nor a Redis that comes and goes leave an event behind.  *)
(* The events given up are exactly those of lost: stellarIndexer.ts advances  *)
(* the cursor past a write that failed.                                       *)
Delivery == INSTANCE AtLeastOnce WITH
  Events <- 1 .. StreamLength, handled <- Handled, resume <- getCheckpoint

ImplementsDelivery == Delivery!Delivers

(* Every event is in the end recorded, skipped on purpose or one of the lost: *)
(* the cursor that moves back for pool events and the batch that halts at a   *)
(* gap still make progress.                                                   *)
EventuallyHandled == <>[](StreamEvents \subseteq Handled)

(* "the cursor only advances past events that were actually written"          *)
(* (stellarIndexer.ts), but for those: between ticks, everything up to the    *)
(* cursor is handled.                                                         *)
CursorBehindWrites == ixTick.pc = "idle" => 1 .. cursor \subseteq Handled

(* Nothing behind an undecodable event is touched until a decoder knows it.   *)
GapNeverCrossed ==
  \A e \in StreamEvents : stream[e] = "bad" => \A f \in Handled : f < e

\* The cursor of stellarIndexer.ts never runs ahead of what was handled, nor
\* over an event nobody could decode.
NothingLeftBehind ==
  /\ CursorBehindWrites
  /\ GapNeverCrossed
=============================================================================
