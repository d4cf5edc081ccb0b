-------------------------- MODULE MCPoolGovernance --------------------------
(* The governed contracts, in four scenarios.  "electorate": three         *)
(* accounts, of which one founds the pool, and three proposals that change *)
(* the electorate.  "pool": two proposals, also of those that move funds   *)
(* or the emergency mode, while the totals and the version change.         *)
(* "proxy": upgrades beside the payloads that change the signers, two      *)
(* upgrades or one beside proposals.  "strategy": the strategy adapter,    *)
(* whose signers the first scenarios are about.                            *)
EXTENDS UpgradeProxy, StrategyRotation, TLC

CONSTANTS s1, s2, s3, l1, l2, t1, t2

VARIABLE scenario

Symmetry == Permutations({s2, s3}) \cup Permutations({l1, l2}) \cup Permutations({t1, t2})

ElectoratePayloads == [kind : {"AddAdmin", "RemoveAdmin"}, who : {s1, s2, s3}]

ThresholdPayloads == [kind : {"SetThreshold"}, t : 1..3]

MCPayloads ==
    ElectoratePayloads
    \cup ThresholdPayloads
    \cup [kind : {"ReleaseEscrow", "Recapitalize"}, amount : {1}]
    \cup [kind : {"TriggerEmergency"}, assets : 0..1]
    \cup [kind : {"ResumeNormal"}]

\* One proposal is applied while another is approved and a third waits; the
\* ledgers in which proposals expire are in "pool".
ElectorateBound ==
    /\ ledger' <= 1
    /\ funds' = funds /\ version' = version
    /\ \A id \in DOMAIN proposals' : proposals'[id].action \in ElectoratePayloads \cup ThresholdPayloads

PoolBound ==
    /\ nonce' <= 2
    /\ \A id \in DOMAIN proposals' : proposals'[id].action \notin ThresholdPayloads

\* Of the pool, what the proxy reads changes beside it.
Electing(s) ==
    \/ \E new \in Address : seed_admin(s, new)
    \/ UpgradeNonce < 2 /\ nonce < 2 /\ \E action \in ElectoratePayloads : propose(s, action)
    \/ \E id \in Live : approve(s, id)
    \/ \E id \in Live : execute_proposal(s, id)

\* One registered migration is enough for a breaking upgrade and a refused one.
ProxyBound == (UpgradeNonce' < 2 \/ nonce = 0) /\ Cardinality(migrations') <= 1

MCInit ==
    /\ scenario \in {"electorate", "pool", "proxy", "strategy"}
    /\ Init /\ ProxyInit /\ RotationInit

MCNext ==
    /\ UNCHANGED scenario
    /\ \/ /\ scenario = "electorate"
          /\ Next /\ ElectorateBound
          /\ UNCHANGED <<proxyVars, rotationVars>>
       \/ scenario = "pool" /\ Next /\ PoolBound /\ UNCHANGED <<proxyVars, rotationVars>>
       \/ /\ scenario = "proxy"
          /\ Close \/ \E s \in Address : Electing(s)
          /\ UNCHANGED <<proxyVars, rotationVars>>
       \/ /\ scenario = "proxy"
          /\ ProxyNext /\ ProxyBound
          /\ UNCHANGED <<vars, rotationVars>>
       \/ scenario = "strategy" /\ RotationNext /\ UNCHANGED <<vars, proxyVars>>

mcVars == <<scenario, vars, proxyVars, rotationVars>>

MCSpec == MCInit /\ [][MCNext]_mcVars

-----------------------------------------------------------------------------
\* What the pool's code and its strategy are replaced by waited its time and was
\* agreed on by the signers in force (proxy.rs, strategy_adapter.rs).
ReplacementsGuarded == [][UpgradeGuarded /\ RotationGuarded]_mcVars
=============================================================================
