------------------------------ MODULE QueryCache ------------------------------
(***************************************************************************)
(* The wallet kit's data layer: the query cache (vault/data/queryClient.ts,*)
(* queryKeys.ts), the hooks that read through it (vault/hooks.ts), and the *)
(* backend client they use (vault/data/apiClient.ts).                      *)
(*                                                                         *)
(* What a view shows is known by its version at the source.  A request is  *)
(* answered from the source at some moment and lands later.  A re-render   *)
(* runs the hook's effects: fetchers are new closures on every render.     *)
(***************************************************************************)
EXTENDS FiniteSets, Naturals

CONSTANTS
  MountedSets,       \* sets of views a page may mount
  MaxSourceVersion,  \* bound on the writes each view's source sees
  MaxOutages         \* bound on outages

ASSUME QueryAssumption == MaxSourceVersion \in Nat \ {0} /\ MaxOutages \in Nat

VARIABLES
  mounted,   \* the views of the page
  source,    \* view -> version at the backend and the contract
  entry,     \* view -> cache entry
  requests,  \* view -> requests under way: 0 before the source answers
  rerender,  \* views about to be rendered again
  watchlist, \* localStorage copy of the saved pools
  services,  \* those that answer
  outages,   \* so far
  writing    \* the wallet's action: "idle", "running" or "landed"

queryVars == <<mounted, source, entry, requests, rerender, watchlist, services, outages, writing>>

\* What a hook's fetcher needs, and what it falls back to.
usePoolDetail == [needs |-> {"contract"}, fallback |-> {"nothing"}]
useRewardHistory == [needs |-> {"contract"}, fallback |-> {"nothing"}]
usePortfolioSummary == [needs |-> {"api"}, fallback |-> {"nothing"}]
useTransactionStatus == [needs |-> {"api"}, fallback |-> {"nothing"}]
useAccountView == [needs |-> {"api", "contract"}, fallback |-> {"nothing"}]
usePoolDiscovery == [needs |-> {"api"}, fallback |-> {"contract"}]
usePrizeViews == [needs |-> {"api"}, fallback |-> {"contract"}]
useSavedPools == [needs |-> {"api"}, fallback |-> {"storage"}]

FetcherOf == [detail |-> usePoolDetail, rewards |-> useRewardHistory, portfolio |-> usePortfolioSummary,
              tx |-> useTransactionStatus, account |-> useAccountView, pools |-> usePoolDiscovery,
              prizes |-> usePrizeViews, saved |-> useSavedPools]

Views == DOMAIN FetcherOf

\* What a pool action changes at the source, and the keys it invalidates.
ChangedByAction == Views \ {"saved"}
vaultQueryKeys == {"detail", "account", "rewards", "pools"}
ChangedBySaving == {"saved", "account"}

NoEntry == [data |-> 0, error |-> FALSE, partialError |-> FALSE, updatedAt |-> "never", invalidated |-> FALSE]

QueryInit ==
  /\ mounted \in MountedSets
  /\ source = [v \in Views |-> 1]
  /\ entry = [v \in Views |-> NoEntry]
  /\ requests = [v \in Views |-> {}]
  /\ rerender = mounted
  /\ watchlist = 0
  /\ services = {"api", "contract"} /\ outages = 0
  /\ writing = "idle"

isStale(v) == entry[v].invalidated \/ entry[v].updatedAt # "fresh"

\* QueryState.stale
Stale(v) == isStale(v) \/ (requests[v] # {} /\ entry[v].data # 0)

\* entry.promise: a fetch under way is shared.
MayFetch(v) == requests[v] = {}

Fetching(v) ==
  /\ requests' = [requests EXCEPT ![v] = @ \cup {0}]
  /\ entry' = [entry EXCEPT ![v].error = FALSE, ![v].partialError = FALSE]

\* The effect of useVaultQuery after a render.
Effect(v) ==
  /\ v \in rerender
  /\ IF isStale(v) /\ MayFetch(v) THEN Fetching(v) ELSE UNCHANGED <<requests, entry>>
  /\ rerender' = rerender \ {v}
  /\ UNCHANGED <<mounted, source, watchlist, services, outages, writing>>

Answered(v) == FetcherOf[v].needs \subseteq services \/ FetcherOf[v].fallback \subseteq services

\* The source is read.
SourceAnswers(v) ==
  /\ 0 \in requests[v] /\ Answered(v)
  /\ requests' = [requests EXCEPT ![v] = (@ \ {0}) \cup {source[v]}]
  /\ UNCHANGED <<mounted, source, entry, rerender, watchlist, services, outages, writing>>

isTerminalTransaction(version) == version > 1

\* The answer lands: the saved pools are copied to localStorage, a terminal
\* status invalidates the views it concerns.
fetchQuery_then(v) ==
  \E version \in requests[v] \ {0} :
    LET touched == IF v = "tx" /\ isTerminalTransaction(version) THEN vaultQueryKeys \cap mounted ELSE {} IN
    /\ entry' = [w \in Views |-> IF w = v THEN [NoEntry EXCEPT !.data = version, !.updatedAt = "fresh"]
                                 ELSE [entry[w] EXCEPT !.invalidated = @ \/ w \in touched]]
    /\ requests' = [requests EXCEPT ![v] = @ \ {version}]
    /\ watchlist' = IF v = "saved" THEN version ELSE watchlist
    /\ rerender' = rerender \cup touched \cup {v}
    /\ UNCHANGED <<mounted, source, services, outages, writing>>

\* No answer.  The saved pools come from localStorage then, as a success.
fetchQuery_catch(v) ==
  /\ 0 \in requests[v] /\ ~ Answered(v)
  /\ entry' = [entry EXCEPT ![v] =
       IF v = "saved" /\ watchlist # 0 THEN [NoEntry EXCEPT !.data = watchlist, !.updatedAt = "fresh"]
       ELSE [@ EXCEPT !.error = (entry[v].data = 0), !.partialError = (entry[v].data # 0)]]
  /\ requests' = [requests EXCEPT ![v] = @ \ {0}]
  /\ rerender' = rerender \cup {v}
  /\ UNCHANGED <<mounted, source, watchlist, services, outages, writing>>

Invalidated_Silent(S) == entry' = [v \in Views |-> [entry[v] EXCEPT !.invalidated = @ \/ v \in S \cap mounted]] /\ UNCHANGED rerender

\* invalidateQueries: entries that exist are marked and their listeners render again.
Invalidated(S) ==
  /\ entry' = [v \in Views |-> [entry[v] EXCEPT !.invalidated = @ \/ v \in S \cap mounted]]
  /\ rerender' = rerender \cup (S \cap mounted)

Bumped(S) == [v \in Views |-> source[v] + IF v \in S THEN 1 ELSE 0]
MayBump(S) == \A v \in S : source[v] < MaxSourceVersion

\* usePoolAction.submit: the queries are invalidated before the run and after it.
submit ==
  /\ writing = "idle" /\ MayBump(ChangedByAction)
  /\ writing' = "running"
  /\ Invalidated(vaultQueryKeys)
  /\ UNCHANGED <<mounted, source, requests, watchlist, services, outages>>

ActionLands ==
  /\ writing = "running"
  /\ source' = Bumped(ChangedByAction)
  /\ writing' = "landed"
  /\ UNCHANGED <<mounted, entry, requests, rerender, watchlist, services, outages>>

invalidatePoolActionQueries ==
  /\ writing \in {"running", "landed"}
  /\ writing' = "idle"
  /\ Invalidated(vaultQueryKeys)
  /\ UNCHANGED <<mounted, source, requests, watchlist, services, outages>>

\* savePool, unsavePool: the request has been answered; then invalidation and a refetch.
savePool ==
  /\ writing = "idle" /\ "api" \in services /\ MayBump(ChangedBySaving)
  /\ source' = Bumped(ChangedBySaving)
  /\ writing' = "saved"
  /\ UNCHANGED <<mounted, entry, requests, rerender, watchlist, services, outages>>

invalidateSavedPools ==
  /\ writing = "saved"
  /\ writing' = "idle"
  /\ Invalidated(ChangedBySaving)
  /\ UNCHANGED <<mounted, source, requests, watchlist, services, outages>>

\* The interval of a status that is not terminal.
refetch ==
  /\ "tx" \in mounted /\ entry["tx"].data # 0 /\ ~ isTerminalTransaction(entry["tx"].data)
  /\ Invalidated({"tx"})
  /\ UNCHANGED <<mounted, source, requests, watchlist, services, outages, writing>>

\* staleTimeMs passes; and a parent renders again.
Expires(v) ==
  /\ entry[v].updatedAt = "fresh"
  /\ entry' = [entry EXCEPT ![v].updatedAt = "expired"]
  /\ rerender' = rerender \cup {v}
  /\ UNCHANGED <<mounted, source, requests, watchlist, services, outages, writing>>

ServiceTurns(s) ==
  /\ IF s \in services THEN outages < MaxOutages /\ services' = services \ {s} /\ outages' = outages + 1
                       ELSE services' = services \cup {s} /\ UNCHANGED outages
  /\ UNCHANGED <<mounted, source, entry, requests, rerender, watchlist, writing>>

QueryNext ==
  \/ \E v \in Views : Effect(v) \/ SourceAnswers(v) \/ fetchQuery_then(v) \/ fetchQuery_catch(v) \/ Expires(v)
  \/ submit \/ refetch \/ ActionLands \/ invalidatePoolActionQueries \/ savePool \/ invalidateSavedPools
  \/ \E s \in {"api", "contract"} : ServiceTurns(s)

QuerySpec == QueryInit /\ [][QueryNext]_queryVars

\* React renders what was notified, requests end, and outages do too.
QueryFairness ==
  /\ \A v \in Views : WF_queryVars(Effect(v)) /\ WF_queryVars(SourceAnswers(v) \/ fetchQuery_then(v) \/ fetchQuery_catch(v))
  /\ \A s \in {"api", "contract"} : WF_queryVars(s \notin services /\ ServiceTurns(s))

-----------------------------------------------------------------------------
(* A view never goes back to what the source said earlier, not even when     *)
(* requests overlap with writes, outages and the localStorage fallback.      *)
NeverBackwards == [\A v \in Views : entry'[v].data >= entry[v].data]_queryVars

(* What is invalidated is refetched: no notification is lost between a fetch *)
(* under way, a failed one and a service that comes back.                    *)
InvalidatedIsRefetched == \A v \in Views : entry[v].invalidated ~> ~ entry[v].invalidated

=============================================================================
