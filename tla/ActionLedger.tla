---------------------------- MODULE ActionLedger ----------------------------
(***************************************************************************)
(* The action ledger of the backend (services/ledger.ts): what clients     *)
(* intend, which transaction carries it, what the chain said about it, and *)
(* the reconciler's sweeps over the same rows (services/reconciler.ts).    *)
(*                                                                         *)
(* Requests, the indexer and the cron job interleave statement by          *)
(* statement.  A handler that reads and then writes keeps what it read in  *)
(* `call`.  The database runs at READ COMMITTED, its default: a statement  *)
(* sees what is committed when it starts, and only the unique index on     *)
(* tx_hash and row locks order two writers.                                *)
(***************************************************************************)
EXTENDS FiniteSets, Naturals

CONSTANTS
  Actions,    \* rows of action_ledger that clients may create
  Hashes,     \* transaction hashes
  Failing,    \* the hashes whose transaction reverted on chain
  Requests,   \* slots for concurrent client requests
  Indexer,    \* the process that delivers events
  Cron,       \* the process that runs the sweeps
  MaxRequests, \* bound on attach and cancel requests
  NoAction,   \* no row
  NoHash      \* SQL NULL in tx_hash and soroban_event_id

ASSUME LedgerAssumption ==
  /\ Failing \subseteq Hashes
  /\ NoHash \notin Hashes /\ NoAction \notin Actions
  /\ MaxRequests \in Nat
  /\ Indexer # Cron /\ {Indexer, Cron} \cap Requests = {}

VARIABLES
  row,        \* action_ledger: status, tx_hash, event recorded, older than the TTL?
  lease,      \* action_leases: "none", "live" or "expired"
  parked,     \* pending_events: "none", "open", "stale" (open for an hour) or "consumed"
  cached,     \* hashes whose parked event CacheService would return without the database
  call,       \* locals of each handler between two statements
  requests,   \* client requests so far, bounded by MaxRequests
  carried,    \* history: hashes each row has carried
  delivered   \* history: hashes whose event the indexer has delivered

ledgerVars == <<row, lease, parked, cached, call, requests, carried, delivered>>

Processes == Requests \cup {Indexer, Cron}
Statuses == {"absent", "pending", "submitted", "confirmed", "failed", "reverted", "orphaned"}

Transitions ==
  [s \in Statuses |->
     CASE s = "pending"   -> {"submitted", "failed"}
       [] s = "submitted" -> {"confirmed", "reverted", "orphaned", "failed"}
       [] s = "orphaned"  -> {"submitted"}
       [] OTHER           -> {}]

canTransition(from, to) == to \in Transitions[from]

\* statusHint of an event: whether the transaction succeeded.
StatusHint(h) == IF h \in Failing THEN "reverted" ELSE "confirmed"

Idle == [op |-> "idle", action |-> NoAction, hash |-> NoHash, pc |-> "idle",
         found |-> FALSE, locked |-> FALSE, targets |-> {}, hashes |-> {}]

LedgerInit ==
  /\ row = [a \in Actions |-> [status |-> "absent", hash |-> NoHash, ev |-> NoHash, old |-> FALSE]]
  /\ lease = [a \in Actions |-> "none"]
  /\ parked = [h \in Hashes |-> "none"]
  /\ cached = {}
  /\ call = [p \in Processes |-> Idle]
  /\ requests = 0
  /\ carried = [a \in Actions |-> {}]
  /\ delivered = {}

-----------------------------------------------------------------------------
(* What a request does to its own locals and to a row.                      *)

Begin(p, op, a, h) ==
  /\ call[p] = Idle
  /\ call' = [call EXCEPT ![p] = [Idle EXCEPT !.op = op, !.action = a, !.hash = h, !.pc = "read"]]

At(p, op, pc) == call[p].op = op /\ call[p].pc = pc
Return(p) == call' = [call EXCEPT ![p] = Idle]

SetStatus(r, s) == [r EXCEPT !.status = s, !.old = FALSE]

Confirm_IgnoresHint(r, h) == [SetStatus(r, "confirmed") EXCEPT !.ev = h]

Confirm(r, h) == [SetStatus(r, StatusHint(h)) EXCEPT !.ev = h]

\* No other row has the hash: the owner lookup, and the unique index on tx_hash.
HashFree(a, h) == \A b \in Actions \ {a} : row[b].hash # h

LeaseReleased(a) == [lease EXCEPT ![a] = "none"]

\* An attach that replaced an existing lease row holds that row's lock until it commits.
LeaseLocked(a) == \E p \in Requests : At(p, "attach", "leased") /\ call[p].action = a /\ call[p].locked

-----------------------------------------------------------------------------
(* POST /actions.  The unique idempotency key makes a repeated or           *)
(* concurrent create return or reject; neither changes the row.             *)
createAction(a) ==
  /\ row[a].status = "absent"
  /\ row' = [row EXCEPT ![a].status = "pending"]
  /\ UNCHANGED <<requests, lease, parked, cached, call, carried, delivered>>

(* PATCH /actions/:id/submitted: one transaction, five statements.  A caller *)
(* that gives no lease TTL never gets past the lease upsert, because         *)
(* defaultLeaseTtlMs is declared nowhere and the expiry is an invalid date:  *)
(* that call ends in attachTxHash_abort.                                     *)
attachTxHash_read(p, a, h) ==
  /\ requests < MaxRequests /\ requests' = requests + 1
  /\ row[a].hash # h
  /\ canTransition(row[a].status, "submitted")
  /\ Begin(p, "attach", a, h)
  /\ UNCHANGED <<row, lease, parked, cached, carried, delivered>>

\* The lease upsert (a second attach of the same row waits here), the owner
\* lookup and the lookup of a parked event, in the cache first.  The row's own
\* hash is no conflict: an attach that repeats another goes on from what it read.
attachTxHash_lookup(p) ==
  LET a == call[p].action
      h == call[p].hash IN
  /\ At(p, "attach", "read")
  /\ \A q \in Requests \ {p} : ~ (At(q, "attach", "leased") /\ call[q].action = a)
  /\ HashFree(a, h)
  /\ call' = [call EXCEPT ![p].pc = "leased", ![p].locked = lease[a] # "none",
                          ![p].found = h \in cached \/ parked[h] # "none"]
  /\ UNCHANGED <<requests, row, lease, parked, cached, carried, delivered>>

\* The writes and the commit.  The unique index decides between two attaches
\* of one hash; updating a parked event whose row is gone aborts.
attachTxHash_commit(p) ==
  LET a == call[p].action
      h == call[p].hash IN
  /\ At(p, "attach", "leased")
  /\ HashFree(a, h)
  /\ \/ /\ call[p].found /\ parked[h] # "none"
        /\ parked' = [parked EXCEPT ![h] = "consumed"]
        /\ cached' = cached \ {h}
        /\ row' = [row EXCEPT ![a] = [Confirm(@, h) EXCEPT !.hash = h]]
        /\ lease' = LeaseReleased(a)
     \/ /\ ~ call[p].found
        /\ row' = [row EXCEPT ![a] = [SetStatus(@, "submitted") EXCEPT !.hash = h]]
        /\ lease' = [lease EXCEPT ![a] = "live"]
        /\ UNCHANGED <<parked, cached>>
  /\ carried' = [carried EXCEPT ![a] = @ \cup {h}]
  /\ Return(p)
  /\ UNCHANGED <<requests, delivered>>

\* A conflict, a deadlock or a lost connection rolls the rows back; the cache
\* entry may be gone already.
attachTxHash_abort(p) ==
  /\ call[p].op = "attach"
  /\ \/ UNCHANGED cached
     \/ call[p].pc = "leased" /\ call[p].found /\ cached' = cached \ {call[p].hash}
  /\ Return(p)
  /\ UNCHANGED <<requests, row, lease, parked, carried, delivered>>

(* POST /actions/:id/cancel: a read, then an update by id.                  *)
cancelAction_read(p, a) ==
  /\ requests < MaxRequests /\ requests' = requests + 1
  /\ canTransition(row[a].status, "failed")
  /\ Begin(p, "cancel", a, NoHash)
  /\ UNCHANGED <<row, lease, parked, cached, carried, delivered>>

cancelAction_write(p) ==
  /\ At(p, "cancel", "read")
  /\ row' = [row EXCEPT ![call[p].action] = SetStatus(@, "failed")]
  /\ Return(p)
  /\ UNCHANGED <<requests, lease, parked, cached, carried, delivered>>

(* reconcileEvent and reconcileEvents: find the row by its hash, then        *)
(* update it by id, or park the event.                                       *)
reconcileEvent_read(h) ==
  LET owners == {a \in Actions : row[a].hash = h} IN
  /\ \/ owners = {} /\ Begin(Indexer, "park", NoAction, h)
     \/ \E a \in owners : /\ row[a].status \notin {"confirmed", "reverted"}
                          /\ Begin(Indexer, "apply", a, h)
  /\ delivered' = delivered \cup {h}
  /\ UNCHANGED <<requests, row, lease, parked, cached, carried>>

\* The insert into pending_events; an existing row is left alone.
reconcileEvent_park ==
  LET h == call[Indexer].hash IN
  /\ At(Indexer, "park", "read")
  /\ parked' = [parked EXCEPT ![h] = IF @ = "none" THEN "open" ELSE @]
  /\ call' = [call EXCEPT ![Indexer].pc = "parked"]
  /\ UNCHANGED <<requests, row, lease, cached, carried, delivered>>

\* CacheService.setPendingEvent: an upsert of its own, outside the transaction,
\* which reopens a consumed row, and the cache entry.
setPendingEvent ==
  LET h == call[Indexer].hash IN
  /\ At(Indexer, "park", "parked")
  /\ parked' = [parked EXCEPT ![h] = IF @ = "stale" THEN @ ELSE "open"]
  /\ cached' = cached \cup {h}
  /\ Return(Indexer)
  /\ UNCHANGED <<requests, row, lease, carried, delivered>>

reconcileEvent_apply ==
  LET a == call[Indexer].action IN
  /\ At(Indexer, "apply", "read")
  /\ ~ LeaseLocked(a)
  /\ row' = [row EXCEPT ![a] = Confirm(@, call[Indexer].hash)]
  /\ lease' = LeaseReleased(a)
  /\ Return(Indexer)
  /\ UNCHANGED <<requests, parked, cached, carried, delivered>>

\* No cache service, a crash, or a batch rolled back.
reconcileEvent_end ==
  /\ call[Indexer] # Idle
  /\ Return(Indexer)
  /\ UNCHANGED <<requests, row, lease, parked, cached, carried, delivered>>

-----------------------------------------------------------------------------
(* sweepOrphans: submitted rows past the TTL, then unconsumed old events.    *)
Sweep(op, targets) ==
  /\ call[Cron] = Idle
  /\ call' = [call EXCEPT ![Cron] = [Idle EXCEPT !.op = op, !.pc = "read", !.targets = targets,
                                      !.hashes = {row[a].hash : a \in targets}]]
  /\ UNCHANGED <<requests, row, lease, parked, cached, carried, delivered>>

StaleActions == {a \in Actions : row[a].status = "submitted" /\ row[a].old}

sweepOrphans_find == Sweep("sweep", StaleActions)

\* updateMany checks the status again, not the age.
sweepOrphans_orphan ==
  /\ call[Cron].op \in {"sweep", "recover"} /\ call[Cron].pc = "read"
  /\ row' = [a \in Actions |->
               IF a \in call[Cron].targets /\ row[a].status = "submitted"
               THEN SetStatus(row[a], "orphaned") ELSE row[a]]
  /\ call' = [call EXCEPT ![Cron].pc = "orphaned"]
  /\ UNCHANGED <<requests, lease, parked, cached, carried, delivered>>

\* Only the database: the cache keeps its copy.
sweepOrphans_prune ==
  /\ At(Cron, "sweep", "orphaned")
  /\ parked' = [h \in Hashes |-> IF parked[h] = "stale" THEN "none" ELSE parked[h]]
  /\ Return(Cron)
  /\ UNCHANGED <<requests, row, lease, cached, carried, delivered>>

(* recoverSubmittedLeases, as recoverStuckActions runs it: submitted rows    *)
(* without a live lease.                                                     *)
recoverSubmittedLeases_find ==
  Sweep("recover", {a \in Actions : row[a].status = "submitted" /\ lease[a] # "live"})

recoverSubmittedLeases_release ==
  /\ At(Cron, "recover", "orphaned")
  /\ lease' = [a \in Actions |-> IF a \in call[Cron].targets THEN "none" ELSE lease[a]]
  /\ parked' = [h \in Hashes |-> IF h \in call[Cron].hashes THEN "none" ELSE parked[h]]
  /\ cached' = cached \ call[Cron].hashes
  /\ Return(Cron)
  /\ UNCHANGED <<requests, row, carried, delivered>>

-----------------------------------------------------------------------------
(* Time: rows, parked events and leases grow old; cache entries expire.      *)
Age ==
  /\ \/ \E a \in Actions : /\ row[a].status = "submitted" /\ ~ row[a].old
                           /\ row' = [row EXCEPT ![a].old = TRUE]
                           /\ UNCHANGED <<lease, parked, cached>>
     \/ \E a \in Actions : /\ lease[a] = "live"
                           /\ lease' = [lease EXCEPT ![a] = "expired"]
                           /\ UNCHANGED <<row, parked, cached>>
     \/ \E h \in Hashes : /\ parked[h] = "open"
                          /\ parked' = [parked EXCEPT ![h] = "stale"]
                          /\ UNCHANGED <<row, lease, cached>>
     \/ \E h \in cached : cached' = cached \ {h} /\ UNCHANGED <<row, lease, parked>>
  /\ UNCHANGED <<call, requests, carried, delivered>>

Request(p) ==
  \/ \E a \in Actions : cancelAction_read(p, a) \/ \E h \in Hashes : attachTxHash_read(p, a, h)
  \/ attachTxHash_lookup(p) \/ attachTxHash_commit(p) \/ attachTxHash_abort(p)
  \/ cancelAction_write(p)

Reconcile ==
  \/ \E h \in Hashes : reconcileEvent_read(h)
  \/ reconcileEvent_park \/ setPendingEvent \/ reconcileEvent_apply \/ reconcileEvent_end

SweepOrphans == sweepOrphans_find \/ sweepOrphans_orphan \/ sweepOrphans_prune

Recover == recoverSubmittedLeases_find \/ recoverSubmittedLeases_release

LedgerNext ==
  \/ \E a \in Actions : createAction(a)
  \/ \E p \in Requests : Request(p)
  \/ Reconcile \/ SweepOrphans \/ Recover \/ Age

LedgerSpec == LedgerInit /\ [][LedgerNext]_ledgerVars

-----------------------------------------------------------------------------
\* A row of action_ledger, and the locals of a handler.
LedgerRow == [status : Statuses, hash : Hashes \cup {NoHash},
              ev : Hashes \cup {NoHash}, old : BOOLEAN]

LedgerCall ==
  [op : {"idle", "attach", "cancel", "park", "apply", "sweep", "recover"},
   action : Actions \cup {NoAction}, hash : Hashes \cup {NoHash},
   pc : {"idle", "read", "leased", "parked", "orphaned"},
   found : BOOLEAN, locked : BOOLEAN,
   targets : SUBSET Actions, hashes : SUBSET (Hashes \cup {NoHash})]

(* Every row, event and handler is in a state the schema and code allow.     *)
LedgerTypeOK ==
  /\ row \in [Actions -> LedgerRow]
  /\ lease \in [Actions -> {"none", "live", "expired"}]
  /\ parked \in [Hashes -> {"none", "open", "stale", "consumed"}]
  /\ cached \subseteq Hashes /\ delivered \subseteq Hashes
  /\ carried \in [Actions -> SUBSET Hashes] /\ requests \in 0 .. MaxRequests
  /\ call \in [Processes -> LedgerCall]

(* A row is confirmed or reverted only on the word of the chain: an event    *)
(* of that outcome was delivered for a hash the row has carried.  The        *)
(* comment of verifyPayoutIntegrity relies on it.                            *)
EvidenceBacked ==
  \A a \in Actions : row[a].status \in {"confirmed", "reverted"} =>
    /\ row[a].ev \in carried[a] \cap delivered
    /\ row[a].status = StatusHint(row[a].ev)

(* No transaction is counted for two actions, although attachTxHash looks    *)
(* for another owner in a statement of its own before it writes.             *)
HashOwnedOnce ==
  \A a, b \in Actions : a # b /\ row[a].hash # NoHash => row[a].hash # row[b].hash

(* A decided row holds no lease, whichever of attachTxHash and               *)
(* reconcileEvent decided it and whatever ran beside it: a left-over lease    *)
(* would make recovery pass over the action's next life.                      *)
DecidedIsUnleased ==
  \A a \in Actions : row[a].status \in {"confirmed", "reverted"} => lease[a] = "none"

\* The ledger says what the chain said, of one transaction per action, and
\* leaves no lease behind, however requests, the indexer and the sweeps of
\* ledger.ts interleave.
LedgerSound ==
  /\ LedgerTypeOK
  /\ EvidenceBacked
  /\ HashOwnedOnce
  /\ DecidedIsUnleased
=============================================================================
