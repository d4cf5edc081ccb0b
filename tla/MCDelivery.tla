----------------------------- MODULE MCDelivery -----------------------------
(* What must eventually happen, one system at a time: a job whose lease ran *)
(* out is taken over, every event of a stream is handled, an invalidated   *)
(* query is fetched again, a locked round is settled.  No symmetry: the    *)
(* properties are temporal.                                                *)
EXTENDS
  JobLease, EventIndexer, QueryCache, PoolRounds, TLC

CONSTANTS tick1, tick2, tick3, w1, w2

VARIABLE scenario

\* JobLease
MCWorkerOf == (tick1 :> w1) @@ (tick2 :> w2)

\* Two ticks of one process beside one of another.
MCWorkerOfShared == (tick1 :> w1) @@ (tick2 :> w1) @@ (tick3 :> w2)

\* EventIndexer
MCStreams == {<<>>} \cup [1 .. 3 -> {"action", "same", "pool", "spoof", "bad"}]

\* QueryCache
MCMounted == {{}} \cup {{v} : v \in {"saved", "account", "pools", "portfolio", "rewards", "prizes"}} \cup {{"tx", "detail"}}

Scenarios == {
  "lease", "indexer", "queries", "rounds"}

MCInit ==
  /\ scenario \in Scenarios
  /\ Init
  /\ IndexerInit
  /\ scenario = "indexer" \/ stream = <<>>
  /\ QueryInit
  /\ scenario = "queries" \/ mounted = {}
  /\ RoundsInit

\* The variables of a component stay as they are unless it is the one running.
Keeps(s, v) == IF scenario = s THEN TRUE ELSE UNCHANGED v

Frame ==
  /\ UNCHANGED scenario
  /\ Keeps("lease", vars)
  /\ Keeps("indexer", indexerVars)
  /\ Keeps("queries", queryVars)
  /\ Keeps("rounds", roundVars)

MCNext ==
  \/ scenario = "lease" /\ Next /\ Frame
  \/ scenario = "indexer" /\ IndexerNext /\ Frame
  \/ scenario = "queries" /\ QueryNext /\ Frame
  \/ scenario = "rounds" /\ RoundsNext /\ Frame

mcVars == <<
  scenario, vars, indexerVars, queryVars, roundVars>>

\* The fairness of each component, of the steps it can take.
MCFairness ==
  /\ \A t \in Ticks :
       /\ WF_vars(scenario = "lease" /\ Acquiring(t))
       /\ WF_vars(scenario = "lease" /\ Beating(t))
       /\ WF_vars(scenario = "lease" /\ Ending(t))
  /\ IndexerFairness
  /\ QueryFairness
  /\ WF_roundVars(scenario = "rounds" /\ AdvanceLedger)
  /\ \A id \in Ids : WF_roundVars(scenario = "rounds" /\ id \in Stored /\ finalize_round(id))

MCSpec == MCInit /\ [][MCNext]_mcVars /\ MCFairness

-----------------------------------------------------------------------------
\* No step takes back what was given: a lease before it has expired
\* (leaseService.ts), data a view has shown for older data (hooks.ts).
NoStepBack ==
  [][/\ NoEarlyTakeover
     /\ NeverBackwards]_mcVars
==============================================================================
