------------------------------ MODULE LedgerViews ------------------------------
(***************************************************************************)
(* What the API derives from one wallet's rows of the action ledger        *)
(* (backend/src/services/ledger.ts, routes/actions.ts): pages, portfolio,  *)
(* export, payout verification; and the pool registry.  Rows               *)
(* are in the order of their creation.  Actions are created and            *)
(* decided while a client walks the pages.                                 *)
(***************************************************************************)
EXTENDS Integers, Sequences, FiniteSets, FiniteSetsExt

CONSTANTS
  ViewKinds,    \* actions the wallet makes: type, vault's token, claimed amount, amount of the event
  ListFilters,  \* status and type a client filters its list by, each "any" when it does not
  PageSize,
  MaxRows,      \* bound on the wallet's rows
  DEFAULT_POOL_ASSET_CODE

\* An amount is never negative (amount.ts refuses one).
ASSUME ViewAssumption ==
  /\ PageSize \in Nat \ {0} /\ MaxRows \in Nat
  /\ \A k \in ViewKinds : k.claimed \in Nat /\ k.event \in Nat
  /\ \A f \in ListFilters : f.status \in {"any", "submitted", "confirmed", "failed"}

VARIABLES
  viewRows,     \* sequence of rows
  scrubbed,     \* number of rows at the last scrub: their payloads are gone
  walk,         \* a client walking the pages: filter, cursor, rows seen, rows listed at its start,
                \* and rows a page dropped in the place of its cursor's
  registry      \* the pool's registry entry

viewVars == <<viewRows, scrubbed, walk, registry>>

Rows == DOMAIN viewRows
NoFilter == [status |-> "any", type |-> "any"]
NoWalk == [on |-> FALSE, by |-> NoFilter, cursor |-> 0, seen |-> <<>>, start |-> {}, dropped |-> {}]

ViewInit ==
  /\ viewRows = <<>> /\ scrubbed = 0
  /\ walk = NoWalk
  /\ registry = "absent"

-----------------------------------------------------------------------------
(* Rows are created, decided (see ActionLedger) and scrubbed.                *)

CreateRow ==
  /\ Len(viewRows) < MaxRows
  /\ \E k \in ViewKinds : viewRows' = Append(viewRows, [kind |-> k, status |-> "submitted", verified |-> FALSE])
  /\ UNCHANGED <<scrubbed, walk, registry>>

\* Reconciliation stores the event's payload with the confirmation.
DecideRow(i) ==
  /\ viewRows[i].status = "submitted"
  /\ \E s \in {"confirmed", "failed"} :
       viewRows' = [viewRows EXCEPT ![i].status = s, ![i].verified = s = "confirmed"]
  /\ UNCHANGED <<scrubbed, walk, registry>>

scrubWallet ==
  /\ scrubbed < Len(viewRows) /\ scrubbed' = Len(viewRows)
  /\ UNCHANGED <<viewRows, walk, registry>>

HasPayload(i) == i > scrubbed

-----------------------------------------------------------------------------
(* listActions: the rows that pass the filter, newest first, from the row of *)
(* the cursor on.  The database takes the cursor as a place in the order and  *)
(* skips the first row it finds from there on, which is the cursor's own row   *)
(* only as long as that row passes the filter.                                *)

Matches(by, r) == by.status \in {"any", r.status} /\ by.type \in {"any", r.kind.type}

Listed(i) == Matches(walk.by, viewRows[i])

From(cursor) == {i \in Rows : Listed(i) /\ (cursor = 0 \/ i <= cursor)}

skip(cursor) == {i \in From(cursor) : cursor # 0 /\ \A j \in From(cursor) : j <= i}

Below(cursor) == From(cursor) \ skip(cursor)

\* The first `limit' of limit + 1 rows.
Page(cursor) == {i \in Below(cursor) : Cardinality({j \in Below(cursor) : j > i}) < PageSize}

BeginWalk ==
  /\ ~walk.on
  /\ \E by \in ListFilters :
       walk' = [on |-> TRUE, by |-> by, cursor |-> 0, seen |-> [i \in 1 .. MaxRows |-> 0],
                start |-> {i \in Rows : Matches(by, viewRows[i])}, dropped |-> {}]
  /\ UNCHANGED <<viewRows, scrubbed, registry>>

\* nextCursor is the last item of a full page that has more below it.
listActions ==
  LET items == Page(walk.cursor) IN
  /\ walk.on /\ walk.cursor # -1
  /\ walk' = [walk EXCEPT
       !.seen = [i \in DOMAIN walk.seen |-> IF i \in items THEN walk.seen[i] + 1 ELSE walk.seen[i]],
       !.dropped = @ \cup (skip(walk.cursor) \ {walk.cursor}),
       !.cursor = IF Below(walk.cursor) \ items # {} THEN CHOOSE i \in items : \A j \in items : i <= j ELSE -1]
  /\ UNCHANGED <<viewRows, scrubbed, registry>>

EndWalk ==
  /\ walk.on /\ walk.cursor = -1 /\ walk' = NoWalk
  /\ UNCHANGED <<viewRows, scrubbed, registry>>

-----------------------------------------------------------------------------
(* getPortfolioSummary: one read, one vault.                                 *)

Portfolio == {i \in Rows : viewRows[i].status = "confirmed" /\ HasPayload(i)}

Baseline_Latest == CHOOSE i \in Portfolio : \A j \in Portfolio : j <= i

\* The action that was created first, whenever it was confirmed.
Baseline == CHOOSE i \in Portfolio : \A j \in Portfolio : i <= j

canonicalToken == IF Portfolio = {} THEN DEFAULT_POOL_ASSET_CODE ELSE viewRows[Baseline].kind.token

isPayoutAction(i) == viewRows[i].kind.type \in {"claim", "select_winner"}

\* What an action counts for: a payout by its event, the others by their payload.
AmountSource(i) == IF isPayoutAction(i) THEN viewRows[i].kind.event ELSE viewRows[i].kind.claimed

Counted == {i \in Portfolio : viewRows[i].kind.token = canonicalToken /\ (isPayoutAction(i) => viewRows[i].verified)}

invalidActionCount == Cardinality(Portfolio \ Counted)

Total(type) == MapThenSumSet(AmountSource, {i \in Counted : viewRows[i].kind.type = type})

\* Only a positive balance is an active position.
activePosition == LET balance == Total("deposit") - Total("withdraw") IN IF balance > 0 THEN balance ELSE 0

claimable_amount == Total("claim")

\* verifyPayoutIntegrity: claimed and verified payloads agree.
verifyPayoutIntegrity(i) ==
  viewRows[i].status = "confirmed" /\ viewRows[i].verified /\ HasPayload(i) /\ viewRows[i].kind.claimed = viewRows[i].kind.event

\* exportActivity leaves scrubbed rows out.
exportActivity == {i \in Rows : HasPayload(i)}

-----------------------------------------------------------------------------
(* The registry: the indexer may deliver the creation event again.           *)

\* An update does not touch `active'.
upsertPoolRegistryEntry == IF registry = "absent" THEN "active" ELSE registry

PoolCreatedEvent ==
  /\ registry' = upsertPoolRegistryEntry
  /\ UNCHANGED <<viewRows, scrubbed, walk>>

deactivatePoolRegistryEntry ==
  /\ registry = "active" /\ registry' = "inactive"
  /\ UNCHANGED <<viewRows, scrubbed, walk>>

ViewNext ==
  \/ CreateRow \/ scrubWallet
  \/ \E i \in Rows : DecideRow(i)
  \/ BeginWalk \/ listActions \/ EndWalk
  \/ PoolCreatedEvent \/ deactivatePoolRegistryEntry

ViewSpec == ViewInit /\ [][ViewNext]_viewVars

-----------------------------------------------------------------------------

\* A client that follows nextCursor to the end, by status or type or neither,
\* has every row that passed its filter from its start to its end exactly once,
\* although rows are created and change meanwhile: but for the rows dropped in
\* the place of a cursor's row, and those only a list of submitted actions loses,
\* whose cursor is decided between two pages.
PagesCoverTheWalk ==
  walk.on =>
    /\ \A i \in DOMAIN walk.seen : walk.seen[i] <= 1
    /\ walk.cursor = -1 => \A i \in walk.start : Listed(i) => walk.seen[i] = 1 \/ i \in walk.dropped
    /\ walk.dropped # {} => walk.by.status = "submitted"

\* Whatever order confirmations come in, one of them takes actions out of the
\* portfolio only when its own action was created before every one that counts
\* and names another asset: then the asset turns to that one and what counts is
\* what names it.  An action created later never turns it, whatever its payload
\* claims ("inverting the intent of this guard", ledger.ts:847); and the baseline
\* only ever moves back.
OnlyAnOlderActionInverts ==
  [/\ Portfolio # {} /\ Portfolio' # {} => Baseline' <= Baseline
   /\ \A i \in Rows : DecideRow(i) /\ ~ (Counted \subseteq Counted') =>
        /\ \A j \in Portfolio : i < j
        /\ canonicalToken' = viewRows[i].kind.token /\ canonicalToken' # canonicalToken
        /\ \A j \in Counted' : viewRows[j].kind.token = viewRows[i].kind.token]_viewVars

\* The claimable amount never exceeds what confirmed payouts' events paid, in
\* spite of what the client claimed; nor does it count a scrubbed action.  A
\* payout that verification reports as intact counts for what was claimed.
ClaimableWasPaid ==
  /\ \A i \in Counted : isPayoutAction(i) /\ verifyPayoutIntegrity(i) => AmountSource(i) = viewRows[i].kind.claimed
  /\ claimable_amount <= MapThenSumSet(LAMBDA i : viewRows[i].kind.event,
                                       {i \in exportActivity : viewRows[i].status = "confirmed" /\ isPayoutAction(i)})

\* A creation event delivered again does not reactivate a pool that was
\* deactivated.
DeactivatedStays == [registry = "inactive" => registry' = "inactive"]_viewVars

=============================================================================
