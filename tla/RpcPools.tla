------------------------------- MODULE RpcPools -------------------------------
(***************************************************************************)
(* The wallet kit's two pools of nodes: HorizonPool (core/horizonPool.ts)  *)
(* for account reads and StellarRpcPool (core/stellarRpcPool.ts) for       *)
(* contract reads and submissions.  Calls run concurrently over one pool.  *)
(* The fastest of the usable nodes is preferred; latencies are not         *)
(* modelled, so any usable node may be the fastest.                        *)
(***************************************************************************)
EXTENDS Naturals, FiniteSets

CONSTANTS
  Nodes,
  PoolCalls,          \* requests made of the pool
  maxRetries,
  unhealthyThreshold,
  RetryAfter,         \* cooldown after a 429
  LastInstant         \* bound on the clock

\* A pool without a node is refused (horizonPool.ts:98, stellarRpcPool.ts:75).
ASSUME RpcPoolAssumption ==
  /\ Nodes # {} /\ Nodes \cap {"idle", "pick", "done", "failed"} = {}
  /\ maxRetries \in Nat \ {0} /\ unhealthyThreshold \in Nat \ {0}
  /\ RetryAfter \in Nat /\ LastInstant \in Nat

VARIABLES
  poolKind,    \* which of the two pools
  instant,
  nodeHealth,      \* node -> what the pool knows of it
  poolCall     \* call -> its progress

poolVars == <<poolKind, instant, nodeHealth, poolCall>>

\* Best-effort and critical reads of Horizon; reads and submissions of Soroban RPC.
KindsOf(k) == IF k = "horizon" THEN {"best-effort", "critical"} ELSE {"read", "submit"}

PoolInit ==
  /\ poolKind \in {"horizon", "rpc"}
  /\ instant = 0
  /\ nodeHealth = [n \in Nodes |-> [healthy |-> TRUE, failures |-> 0, cooldownUntil |-> 0]]
  /\ poolCall = [c \in PoolCalls |-> [kind |-> "none", phase |-> "idle", attempt |-> 0, tried |-> {}, sent |-> 0]]

-----------------------------------------------------------------------------
(* What the pool knows of a node.                                            *)

markSuccess(h) == [healthy |-> TRUE, failures |-> 0, cooldownUntil |-> 0]

\* The count is not compared above the threshold.
markFailure(h) ==
  LET failures == IF h.failures < unhealthyThreshold THEN h.failures + 1 ELSE h.failures IN
  [h EXCEPT !.failures = failures, !.healthy = h.healthy /\ failures < unhealthyThreshold]

markRateLimited(h) == [h EXCEPT !.cooldownUntil = instant + RetryAfter]

Cooling(n) == instant < nodeHealth[n].cooldownUntil

\* pickNode: a healthy node that is not cooling down.
pickNode(excluded) == {n \in Nodes \ excluded : nodeHealth[n].healthy /\ ~Cooling(n)}

\* The soonest cooldown, then the fewest failures.
pickLeastBadNode ==
  {n \in Nodes : \A m \in Nodes :
     \/ nodeHealth[n].cooldownUntil < nodeHealth[m].cooldownUntil
     \/ nodeHealth[n].cooldownUntil = nodeHealth[m].cooldownUntil /\ nodeHealth[n].failures <= nodeHealth[m].failures}

\* The nodes an attempt of a call may go to: a Soroban read first tries the
\* nodes it has not tried, a critical Horizon read takes the least bad one.
Candidates(call) ==
  IF call.kind = "critical" /\ pickNode({}) = {} THEN pickLeastBadNode
  ELSE IF call.kind = "read" /\ pickNode(call.tried) # {} THEN pickNode(call.tried)
  ELSE pickNode({})

-----------------------------------------------------------------------------
(* Calls.                                                                    *)

StartCall(c) ==
  /\ poolCall[c].phase = "idle"
  /\ \E k \in KindsOf(poolKind) : poolCall' = [poolCall EXCEPT ![c].kind = k, ![c].phase = "pick"]
  /\ UNCHANGED <<poolKind, instant, nodeHealth>>

\* An attempt: it sends to a node, or sleeps when there is none; a submission
\* without a node throws.
Attempt(c) ==
  LET call == poolCall[c]
      tries == IF call.kind = "submit" THEN 1 ELSE maxRetries IN
  /\ call.phase = "pick"
  /\ IF call.attempt = tries THEN poolCall' = [poolCall EXCEPT ![c].phase = "failed"]
     ELSE IF Candidates(call) = {} THEN poolCall' = [poolCall EXCEPT ![c].attempt = @ + 1, ![c].tried = {}]
     ELSE \E n \in Candidates(call) :
            poolCall' = [poolCall EXCEPT ![c].phase = n, ![c].sent = @ + 1,
              ![c].tried = IF call.kind # "read" THEN {} ELSE IF n \in @ THEN {n} ELSE @ \cup {n}]
  /\ UNCHANGED <<poolKind, instant, nodeHealth>>

Succeeds(c) ==
  LET n == poolCall[c].phase IN
  /\ n \in Nodes
  /\ nodeHealth' = [nodeHealth EXCEPT ![n] = markSuccess(@)]
  /\ poolCall' = [poolCall EXCEPT ![c].phase = "done"]
  /\ UNCHANGED <<poolKind, instant>>

AfterFailure_SubmitAgain(call) == [call EXCEPT !.phase = "pick", !.attempt = IF call.kind = "submit" THEN 0 ELSE @ + 1]

\* The attempt is over; the call sleeps and tries again. A submission throws.
AfterFailure(call) == [call EXCEPT !.phase = "pick", !.attempt = @ + 1]

\* A transport error or a timeout.
TransportFails(c) ==
  LET n == poolCall[c].phase IN
  /\ n \in Nodes
  /\ nodeHealth' = [nodeHealth EXCEPT ![n] = markFailure(@)]
  /\ poolCall' = [poolCall EXCEPT ![c] = AfterFailure(@)]
  /\ UNCHANGED <<poolKind, instant>>

\* An HTTP error. submitTransaction throws inside its own try block, whose
\* handler marks the node a second time.
HttpFails(c) ==
  LET n == poolCall[c].phase
      marked == markFailure(nodeHealth[n]) IN
  /\ n \in Nodes
  /\ nodeHealth' = [nodeHealth EXCEPT ![n] = IF poolCall[c].kind = "submit" THEN markFailure(marked) ELSE marked]
  /\ poolCall' = [poolCall EXCEPT ![c] = AfterFailure(@)]
  /\ UNCHANGED <<poolKind, instant>>

\* Horizon's 429: a cooldown and no failure.
RateLimited(c) ==
  LET n == poolCall[c].phase IN
  /\ poolKind = "horizon" /\ n \in Nodes
  /\ nodeHealth' = [nodeHealth EXCEPT ![n] = markRateLimited(@)]
  /\ poolCall' = [poolCall EXCEPT ![c] = AfterFailure(@)]
  /\ UNCHANGED <<poolKind, instant>>

\* pingAll visits every node; only Horizon's ping knows of rate limits.
pingNode(n) ==
  /\ \/ nodeHealth' = [nodeHealth EXCEPT ![n] = markSuccess(@)]
     \/ nodeHealth' = [nodeHealth EXCEPT ![n] = markFailure(@)]
     \/ poolKind = "horizon" /\ nodeHealth' = [nodeHealth EXCEPT ![n] = markRateLimited(@)]
  /\ UNCHANGED <<poolKind, instant, poolCall>>

Wait ==
  /\ instant < LastInstant /\ instant' = instant + 1
  /\ UNCHANGED <<poolKind, nodeHealth, poolCall>>

PoolNext ==
  \/ \E c \in PoolCalls :
       StartCall(c) \/ Attempt(c) \/ Succeeds(c) \/ TransportFails(c) \/ HttpFails(c) \/ RateLimited(c)
  \/ \E n \in Nodes : pingNode(n)
  \/ Wait

PoolSpec == PoolInit /\ [][PoolNext]_poolVars

-----------------------------------------------------------------------------

\* A critical read never gives up without having asked: when it fails it has
\* sent a request in each of its attempts, whatever other calls did to the
\* nodes' nodeHealth meanwhile.
CriticalReadsAsk ==
  \A c \in PoolCalls :
    poolCall[c].kind = "critical" /\ poolCall[c].phase = "failed" => poolCall[c].sent = maxRetries

\* "Execute state-changing submission without automatic duplicate retries": a
\* submission reaches at most one node, at most once.
SubmittedAtMostOnce == \A c \in PoolCalls : poolCall[c].kind = "submit" => poolCall[c].sent <= 1

=============================================================================
