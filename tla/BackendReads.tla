---------------------------- MODULE BackendReads ----------------------------
(***************************************************************************)
(* How the backend reads what it does not own, two machines: the quorum    *)
(* policy for balances and the read-through cache.                         *)
(***************************************************************************)
EXTENDS Integers, FiniteSets

(***************************************************************************)
(* The quorum policy for balance-critical reads, which the backend         *)
(* (services/criticalReadPolicy.ts) and the wallet kit (core/              *)
(* criticalReadPolicy.ts) each have. Providers are read one by one while   *)
(* ledgers close; a provider may lag behind the chain, and some may answer *)
(* anything. One ledger closes per unit of time, so a ledger's sequence is *)
(* also its close time.                                                    *)
(***************************************************************************)
CONSTANTS
  Providers,
  Liars,                \* providers that may answer any value
  BalanceValues,
  minQuorum,
  maxFreshness,
  maxLedgerDivergence,
  flapThreshold,
  LastClose             \* bound on closed ledgers

ASSUME CriticalReadAssumption ==
  /\ Liars \subseteq Providers
  /\ minQuorum \in Nat /\ maxFreshness \in Nat /\ maxLedgerDivergence \in Nat
  /\ flapThreshold \in Nat \ {0} /\ LastClose \in Nat

\* What a quorum is for: the providers that answer falsely are fewer.
ASSUME LiarsAreFew == IsFiniteSet(Providers) /\ Cardinality(Liars) < minQuorum

VARIABLES
  chainBalance,  \* ledger -> the balance after it; the domain ends at the last closed ledger
  samples,       \* provider -> its answer to the read in progress, or NotAsked
  flaps,         \* ProviderStabilityTracker
  decision       \* of the last evaluation

criticalVars == <<chainBalance, samples, flaps, decision>>

NotAsked == [ok |-> FALSE, asked |-> FALSE]
FailedSample == [ok |-> FALSE, asked |-> TRUE]
NoDecision == [ok |-> FALSE, value |-> "none", confidence |-> "degraded", at |-> 0]

ClosedLedger == CHOOSE l \in DOMAIN chainBalance : \A k \in DOMAIN chainBalance : k <= l

CriticalInit ==
  /\ chainBalance \in [{1} -> BalanceValues]
  /\ samples = [p \in Providers |-> NotAsked]
  /\ flaps = [p \in Providers |-> [last |-> "none", flips |-> 0]]
  /\ decision = NoDecision

-----------------------------------------------------------------------------
(* Collecting samples.                                                       *)

\* A provider reads at a ledger it has, not later than the last closed one.
ReadSample(p) ==
  /\ ~samples[p].asked
  /\ \E l \in DOMAIN chainBalance :
       \E v \in IF p \in Liars THEN BalanceValues ELSE {chainBalance[l]} :
         samples' = [samples EXCEPT ![p] = [ok |-> TRUE, asked |-> TRUE, ledger |-> l, value |-> v]]
  /\ UNCHANGED <<chainBalance, flaps, decision>>

\* It rejects, or the timeout is first.
SampleFails(p) ==
  /\ ~samples[p].asked
  /\ samples' = [samples EXCEPT ![p] = FailedSample]
  /\ UNCHANGED <<chainBalance, flaps, decision>>

-----------------------------------------------------------------------------
(* ProviderStabilityTracker.                                                 *)

isFlapping(p) == flaps[p].flips >= flapThreshold

\* Flips are not compared above the threshold.
recordAgreed(p, agreed) ==
  [last |-> agreed,
   flips |-> IF flaps[p].last \notin {"none", agreed} /\ ~isFlapping(p) THEN flaps[p].flips + 1 ELSE flaps[p].flips]

resetFlaps ==
  /\ \E p \in Providers : flaps[p].last # "none"
  /\ flaps' = [p \in Providers |-> [last |-> "none", flips |-> 0]]
  /\ UNCHANGED <<chainBalance, samples, decision>>

-----------------------------------------------------------------------------
(* evaluate.                                                                 *)

InPolicy(p) ==
  /\ samples[p].ok
  /\ ClosedLedger - samples[p].ledger <= maxFreshness
  /\ ~isFlapping(p)

Trusted == {p \in Providers : InPolicy(p)}

Agreeing(v) == {p \in Trusted : samples[p].value = v}

\* The largest group; among equal ones the one whose first sample is first.
Majorities == {v \in {samples[p].value : p \in Trusted} :
                 \A w \in BalanceValues : Cardinality(Agreeing(w)) <= Cardinality(Agreeing(v))}

Spread(group) ==
  LET seqs == {samples[p].ledger : p \in group} IN
  (CHOOSE l \in seqs : \A k \in seqs : k <= l) - (CHOOSE l \in seqs : \A k \in seqs : l <= k)

Quorate_OneLess(group) == Cardinality(group) >= minQuorum - 1

Quorate(group) == Cardinality(group) >= minQuorum

DecisionFor(v) ==
  LET ok == Quorate(Agreeing(v)) /\ Spread(Agreeing(v)) <= maxLedgerDivergence IN
  [ok |-> ok, value |-> v, at |-> ClosedLedger,
   confidence |-> IF Agreeing(v) # Trusted THEN "conflicting" ELSE IF ok THEN "verified" ELSE "degraded"]

\* The next read starts from no samples.
evaluate ==
  /\ \A p \in Providers : samples[p].asked
  /\ IF Trusted = {}
     THEN decision' = NoDecision /\ UNCHANGED flaps
     ELSE \E v \in Majorities :
            /\ decision' = DecisionFor(v)
            /\ flaps' = [p \in Providers |->
                 IF p \in Trusted THEN recordAgreed(p, IF samples[p].value = v THEN "agreed" ELSE "diverged") ELSE flaps[p]]
  /\ samples' = [p \in Providers |-> NotAsked]
  /\ UNCHANGED chainBalance

\* assertAuthorizable returns the value; otherwise it throws.
Authorized == decision.ok /\ decision.value # "none"

-----------------------------------------------------------------------------

Close ==
  /\ ClosedLedger < LastClose
  /\ \E v \in BalanceValues :
       chainBalance' = [l \in 1 .. ClosedLedger + 1 |-> IF l > ClosedLedger THEN v ELSE chainBalance[l]]
  /\ UNCHANGED <<samples, flaps, decision>>

CriticalNext ==
  \/ \E p \in Providers : ReadSample(p) \/ SampleFails(p)
  \/ evaluate \/ resetFlaps \/ Close

CriticalSpec == CriticalInit /\ [][CriticalNext]_criticalVars

-----------------------------------------------------------------------------

\* With fewer liars than the quorum, a value that authorizes a transaction was
\* the balance on chain at a ledger no older than the freshness window when the
\* decision was made, although the samples were read at different times.
AuthorizedWasTrue ==
  Authorized =>
    \E l \in DOMAIN chainBalance : decision.at - l <= maxFreshness /\ l <= decision.at /\ chainBalance[l] = decision.value

(***************************************************************************)
(* The generic part of the backend's CacheService, cacheService.ts, and    *)
(* its one caller, the category list of categoryService.ts. getOrSet       *)
(* awaits Redis, then the database, then Redis again, so a write and its   *)
(* invalidation may fall between any two of the three; Redis comes and     *)
(* goes.                                                                   *)
(***************************************************************************)
CONSTANTS
  Lists,           \* calls of listCategories, in one or several processes
  MaxWrites,       \* bound on the writes to the categories table
  MaxLists         \* bound on the calls

ASSUME CacheAssumption == {MaxWrites, MaxLists} \subseteq Nat

Absent == 0          \* no entry; a version of the table is positive

VARIABLES
  online,          \* isOnline
  tableVersion,    \* the content of the categories table, numbered by its writes
  redisEntry,      \* the entry at CATEGORIES_CACHE_KEY, or Absent
  lookup,            \* where a lookup of getOrSet stands, and the value it holds
  mustInvalidate,  \* a write whose invalidateCache has not run yet
  missed,          \* history: the last invalidation did not reach Redis
  raced,           \* history: the contents lookups held when the last one that did was made
  callsMade

cacheVars ==
  <<online, tableVersion, redisEntry, lookup, mustInvalidate, missed, raced, callsMade>>

NoLookup == [at |-> "idle", value |-> Absent]

CacheInit ==
  /\ online = TRUE /\ tableVersion = 1 /\ redisEntry = Absent
  /\ lookup = [c \in Lists |-> NoLookup] /\ mustInvalidate = FALSE /\ missed = FALSE /\ raced = {} /\ callsMade = 0

-----------------------------------------------------------------------------
(* listCategories: getOrSet with findMany as its fetcher.                  *)

BeginGet(c) ==
  /\ lookup[c].at = "idle" /\ callsMade < MaxLists
  /\ callsMade' = callsMade + 1
  /\ lookup' = [lookup EXCEPT ![c].at = IF online THEN "get" ELSE "fetch"]
  /\ UNCHANGED <<online, tableVersion, redisEntry, mustInvalidate, missed, raced>>

\* redis.get: a hit is returned, a miss or an error, which even a hit
\* may turn into, falls through to the source.
RedisGet(c) ==
  /\ lookup[c].at = "get"
  /\ \/ online /\ redisEntry # Absent /\ lookup' = [lookup EXCEPT ![c] = NoLookup]
     \/ lookup' = [lookup EXCEPT ![c].at = "fetch"]
  /\ UNCHANGED <<online, tableVersion, redisEntry, mustInvalidate, missed, raced, callsMade>>

Fetch(c) ==
  /\ lookup[c].at = "fetch"
  /\ lookup' = [lookup EXCEPT ![c] = [at |-> "fetched", value |-> tableVersion]]
  /\ UNCHANGED <<online, tableVersion, redisEntry, mustInvalidate, missed, raced, callsMade>>

\* The second look at isOnline, and the set it allows, which may fail.
RedisSet(c) ==
  /\ lookup[c].at = "fetched"
  /\ redisEntry' \in {redisEntry} \cup (IF online THEN {lookup[c].value} ELSE {})
  /\ lookup' = [lookup EXCEPT ![c] = NoLookup]
  /\ UNCHANGED <<online, tableVersion, mustInvalidate, missed, raced, callsMade>>

\* EX ttlSeconds
Expire ==
  /\ redisEntry # Absent /\ redisEntry' = Absent
  /\ UNCHANGED <<online, tableVersion, lookup, mustInvalidate, missed, raced, callsMade>>

-----------------------------------------------------------------------------
(* A write to the table and the invalidation its caller owes.              *)

WriteCategory ==
  /\ ~mustInvalidate /\ tableVersion <= MaxWrites
  /\ tableVersion' = tableVersion + 1 /\ mustInvalidate' = TRUE
  /\ UNCHANGED <<online, redisEntry, lookup, missed, raced, callsMade>>

\* The contents fetched by calls that have not stored them yet.
InFlight == {lookup[c].value : c \in {d \in Lists : lookup[d].at = "fetched"}}

Deleted(e) == Absent

\* invalidate: skipped while Redis is offline; the del may fail.  It does not
\* stop a lookup that has fetched from storing what it holds.
invalidate ==
  /\ mustInvalidate /\ mustInvalidate' = FALSE
  /\ \/ online /\ redisEntry' = Deleted(redisEntry) /\ missed' = FALSE /\ raced' = InFlight
     \/ missed' = TRUE /\ UNCHANGED <<redisEntry, raced>>
  /\ UNCHANGED <<online, tableVersion, lookup, callsMade>>

\* The connect and error events; Redis keeps its entry over an outage.
RedisEvent ==
  /\ online' = ~online
  /\ UNCHANGED <<tableVersion, redisEntry, lookup, mustInvalidate, missed, raced, callsMade>>

-----------------------------------------------------------------------------

CacheNext ==
  \/ \E c \in Lists : BeginGet(c) \/ RedisGet(c) \/ Fetch(c) \/ RedisSet(c)
  \/ Expire \/ WriteCategory \/ invalidate \/ RedisEvent

CacheSpec == CacheInit /\ [][CacheNext]_cacheVars

\* An old list is in the cache only for one of three reasons: the write's
\* invalidation is still to come; it did not reach Redis, and none since did; or a
\* lookup that had fetched this very content before the invalidation stored it
\* afterwards, which nothing in getOrSet prevents (cacheService.ts:130-133).  That
\* one stays until it expires, is overwritten or the next write's invalidation;
\* a lookup that starts after an invalidation never brings it about.
OldListsHaveACause ==
  redisEntry # Absent /\ redisEntry # tableVersion => mustInvalidate \/ missed \/ redisEntry \in raced
=============================================================================
