-------------------------- MODULE GovernanceProofs --------------------------
(***************************************************************************)
(* Theorems about the governed contracts: the pool's governance for any    *)
(* accounts, delays and proposals, the proxy's upgrades for any contracts, *)
(* and the strategy's books and rotation for any strategies and caps; at   *)
(* the end, all three as MCSpec composes them.                             *)
(***************************************************************************)
EXTENDS MCPoolGovernance, SumProofs

-----------------------------------------------------------------------------
(* The pool: the inductive invariant adds to the types that the epoch pins  *)
(* the electorate and that there is always a signer.                        *)

\* The inductive invariant behind every theorem about the pool.
GovInv ==
    /\ TypeOK
    /\ EpochPinsElectorate
    /\ ApprovalsFromSnapshot
    /\ admins # {}

\* An action's payload is a number when its kind says so.
LEMMA ActionPayload ==
    ASSUME NEW a \in Action
    PROVE  /\ a.kind \in {"AddAdmin", "RemoveAdmin"} => a.who \in Address
           /\ a.kind = "SetThreshold" => a.t \in Nat
           /\ a.kind \in {"ReleaseEscrow", "Recapitalize"} => a.amount \in Nat
           /\ a.kind = "TriggerEmergency" => a.assets \in Nat
BY DEF Action

\* Any set of signers is finite.
LEMMA SignersFinite ==
    ASSUME NEW S, S \subseteq Address
    PROVE  /\ IsFiniteSet(S) /\ Cardinality(S) \in Nat
           /\ Cardinality(S) > 0 => S # {}
           /\ \A x : /\ Cardinality(S \ {x}) >= Cardinality(S) - 1
                     /\ Cardinality(S \ {x}) \in Nat
<1>1. IsFiniteSet(S) /\ Cardinality(S) \in Nat
  BY FS_Subset, FS_CardinalityType, GovernanceAssumption
<1>2. Cardinality(S) > 0 => S # {}
  BY <1>1, FS_EmptySet
<1>3. ASSUME NEW x
      PROVE  /\ Cardinality(S \ {x}) >= Cardinality(S) - 1
             /\ Cardinality(S \ {x}) \in Nat
  BY <1>1, FS_RemoveElement, FS_CardinalityType
<1>4. QED
  BY <1>1, <1>2, <1>3

\* Moving the totals of the pool keeps its type.
LEMMA PoolUpdate ==
    ASSUME NEW p \in Pool, NEW n \in Int
    PROVE  /\ p.total_deposited \in Int /\ p.emergency_assets \in Int
           /\ [p EXCEPT !.total_deposited = n] \in Pool
           /\ [p EXCEPT !.emergency_assets = n] \in Pool
           /\ [p EXCEPT !.is_emergency = TRUE, !.emergency_assets = n] \in Pool
           /\ [p EXCEPT !.is_emergency = FALSE] \in Pool
           /\ \A m \in Int : [p EXCEPT !.total_deposited = n, !.emergency_assets = m] \in Pool
<1>1. p.total_deposited \in Int /\ p.emergency_assets \in Int
  BY DEF Pool
<1>2. [p EXCEPT !.total_deposited = n] \in Pool
  BY DEF Pool
<1>3. [p EXCEPT !.emergency_assets = n] \in Pool
  BY DEF Pool
<1>4. [p EXCEPT !.is_emergency = FALSE] \in Pool
  BY DEF Pool
<1>5. [p EXCEPT !.is_emergency = TRUE, !.emergency_assets = n] \in Pool
  BY DEF Pool
<1>6. ASSUME NEW m \in Int
      PROVE  [p EXCEPT !.total_deposited = n, !.emergency_assets = m] \in Pool
  BY DEF Pool
<1>7. QED
  BY <1>1, <1>2, <1>3, <1>4, <1>5, <1>6

\* What applying a proposal may do: the pool keeps its type, the signers stay
\* accounts, at least one remains, a quorum stays reachable, and the
\* electorate does not change unless the epoch grows.
LEMMA ApplyStep ==
    ASSUME GovInv, NEW id \in Live, apply_proposal_action(proposals[id].action)
    PROVE  /\ admins' \subseteq Address /\ admins' # {}
           /\ threshold' \in Nat \ {0}
           /\ epoch' \in Nat /\ epoch' >= epoch
           /\ epoch' = epoch => admins' = admins /\ threshold' = threshold
           /\ pool' \in Pool /\ custody' \in Int
           /\ Cardinality(admins) >= threshold => Cardinality(admins') >= threshold'
<1> DEFINE a == proposals[id].action
<1>0. a \in Action /\ proposals[id] \in Proposal
  BY DEF GovInv, TypeOK, Proposal
<1>a. /\ admins \subseteq Address /\ admins # {} /\ threshold \in Nat \ {0} /\ epoch \in Nat
      /\ pool \in Pool /\ custody \in Int
  BY DEF GovInv, TypeOK
<1>1. CASE a.kind = "AddAdmin" /\ ApplyAddAdmin(a.who)
  <2>1. a.who \in Address
    BY <1>0, <1>1, ActionPayload
  <2>2. admins' \subseteq Address /\ admins \subseteq admins'
    BY <1>1, <2>1 DEF GovInv, TypeOK, ApplyAddAdmin, EpochAfterAdding
  <2>3. Cardinality(admins) <= Cardinality(admins')
    BY <2>2, FS_Subset, SignersFinite
  <2>4. Cardinality(admins) \in Nat /\ Cardinality(admins') \in Nat
    BY <2>2, SignersFinite DEF GovInv, TypeOK
  <2>5. QED
    BY <1>1, <2>1, <2>2, <2>3, <2>4 DEF GovInv, TypeOK, ApplyAddAdmin, EpochAfterAdding, funds
<1>2. CASE a.kind = "RemoveAdmin" /\ ApplyRemoveAdmin(a.who)
  <2>0. admins \subseteq Address /\ threshold \in Nat \ {0}
    BY DEF GovInv, TypeOK
  <2>a. /\ Cardinality(admins \ {a.who}) >= Cardinality(admins) - 1
        /\ Cardinality(admins \ {a.who}) \in Nat /\ Cardinality(admins) \in Nat
    BY <2>0, SignersFinite
  <2>b. /\ Cardinality(admins) > threshold
        /\ admins' = admins \ {a.who} /\ threshold' = threshold
    BY <1>2 DEF ApplyRemoveAdmin, Removable
  <2>1. /\ Cardinality(admins') >= threshold' /\ Cardinality(admins') > 0
        /\ admins' \subseteq Address
    BY <2>0, <2>a, <2>b
  <2>2. admins' # {}
    BY <2>1, SignersFinite DEF GovInv, TypeOK
  <2>3. QED
    BY <1>2, <2>1, <2>2 DEF GovInv, TypeOK, ApplyRemoveAdmin, Removable, funds
<1>3. CASE a.kind = "SetThreshold" /\ ApplySetThreshold(a.t)
  <2>1. Cardinality(admins) \in Nat
    BY SignersFinite DEF GovInv, TypeOK
  <2>2. QED
    BY <1>3, <2>1 DEF GovInv, TypeOK, ApplySetThreshold, funds
<1>4. CASE a.kind = "ReleaseEscrow" /\ ApplyReleaseEscrow(a.amount)
  <2>1. a.amount \in Nat
    BY <1>0, <1>4, ActionPayload
  <2>2. pool' = [pool EXCEPT !.total_deposited = pool.total_deposited - a.amount] /\ custody' = custody - a.amount
    BY <1>4 DEF ApplyReleaseEscrow
  <2>3. pool' \in Pool /\ custody' \in Int
    <3>1. pool.total_deposited \in Int
      BY <1>a, PoolUpdate
    <3>2. pool.total_deposited - a.amount \in Int /\ custody - a.amount \in Int
      BY <1>a, <2>1, <3>1
    <3>3. QED
      BY <1>a, <2>2, <3>2, PoolUpdate
  <2>4. UNCHANGED electorate
    BY <1>4 DEF ApplyReleaseEscrow
  <2>5. QED
    BY <1>a, <2>3, <2>4 DEF electorate
<1>5. CASE a.kind = "TriggerEmergency" /\ ApplyTriggerEmergency(a.assets)
  <2>1. a.assets \in Nat
    BY <1>0, <1>5, ActionPayload
  <2>2. pool' = [pool EXCEPT !.is_emergency = TRUE, !.emergency_assets = a.assets] /\ custody' = custody
    BY <1>5 DEF ApplyTriggerEmergency
  <2>3. pool' \in Pool /\ custody' \in Int
    <3>1. a.assets \in Int
      BY <2>1
    <3>2. [pool EXCEPT !.is_emergency = TRUE, !.emergency_assets = a.assets] \in Pool
      BY <1>a, <3>1, PoolUpdate
    <3>3. QED
      BY <1>a, <2>2, <3>2
  <2>4. UNCHANGED electorate
    BY <1>5 DEF ApplyTriggerEmergency
  <2>5. QED
    BY <1>a, <2>3, <2>4 DEF electorate
<1>6. CASE a.kind = "Recapitalize" /\ ApplyRecapitalize(a.amount)
  <2>1. a.amount \in Nat
    BY <1>0, <1>6, ActionPayload
  <2>2. pool' = [pool EXCEPT !.emergency_assets = pool.emergency_assets + a.amount] /\ custody' = custody + a.amount
    BY <1>6 DEF ApplyRecapitalize
  <2>3. pool' \in Pool /\ custody' \in Int
    <3>1. pool.emergency_assets \in Int
      BY <1>a, PoolUpdate
    <3>2. pool.emergency_assets + a.amount \in Int /\ custody + a.amount \in Int
      BY <1>a, <2>1, <3>1
    <3>3. QED
      BY <1>a, <2>2, <3>2, PoolUpdate
  <2>4. UNCHANGED electorate
    BY <1>6 DEF ApplyRecapitalize
  <2>5. QED
    BY <1>a, <2>3, <2>4 DEF electorate
<1>7. CASE a.kind = "ResumeNormal" /\ ApplyResumeNormal
  <2>2. pool' = [pool EXCEPT !.is_emergency = FALSE] /\ custody' = custody
    BY <1>7 DEF ApplyResumeNormal
  <2>3. pool' \in Pool /\ custody' \in Int
    BY <1>a, <2>2, PoolUpdate
  <2>4. UNCHANGED electorate
    BY <1>7 DEF ApplyResumeNormal
  <2>5. QED
    BY <1>a, <2>3, <2>4 DEF electorate
<1>8. QED
  BY <1>1, <1>2, <1>3, <1>4, <1>5, <1>6, <1>7 DEF apply_proposal_action

\* A step that stores no new proposal and rewrites none's electorate keeps
\* the invariant's parts about proposals, provided the epoch guards the
\* electorate.
LEMMA ProposalsKept ==
    ASSUME GovInv,
           epoch' \in Nat, epoch' >= epoch,
           epoch' = epoch => admins' = admins /\ threshold' = threshold,
           nonce' = nonce,
           DOMAIN proposals' \subseteq Live,
           proposals' \in [DOMAIN proposals' -> Proposal],
           \A i \in DOMAIN proposals' :
               /\ proposals'[i].epoch = proposals[i].epoch
               /\ proposals'[i].snapshot = proposals[i].snapshot
               /\ proposals'[i].threshold = proposals[i].threshold
               /\ proposals'[i].approvals \subseteq proposals[i].snapshot
    PROVE  /\ (Live \subseteq 0..(nonce - 1))' /\ (proposals \in [Live -> Proposal])'
           /\ EpochPinsElectorate' /\ ApprovalsFromSnapshot'
<1>1. \A i \in Live : proposals[i] \in Proposal /\ proposals[i].epoch \in Nat
  BY DEF GovInv, TypeOK, Proposal
<1>2. (Live \subseteq 0..(nonce - 1))' /\ (proposals \in [Live -> Proposal])'
  BY DEF GovInv, TypeOK, Live
<1>3. ASSUME NEW i \in Live'
      PROVE  /\ proposals'[i].epoch = epoch' =>
                   proposals'[i].snapshot = admins' /\ proposals'[i].threshold = threshold'
             /\ proposals'[i].approvals \subseteq proposals'[i].snapshot
             /\ proposals'[i].epoch <= epoch'
  <2>1. i \in Live /\ proposals[i].epoch <= epoch /\ epoch \in Nat
    BY DEF GovInv, TypeOK, ApprovalsFromSnapshot, Live
  <2>2. proposals'[i].epoch <= epoch'
    BY <1>1, <2>1 DEF Live
  <2>3. proposals'[i].epoch = epoch' => epoch' = epoch
    BY <1>1, <2>1 DEF Live
  <2>4. QED
    BY <2>1, <2>2, <2>3 DEF GovInv, EpochPinsElectorate, Live
<1>4. QED
  BY <1>2, <1>3 DEF EpochPinsElectorate, ApprovalsFromSnapshot

\* Removing a proposal.
LEMMA RemoveKept ==
    ASSUME GovInv, NEW id \in Live, proposals' = Remove(id)
    PROVE  /\ DOMAIN proposals' \subseteq Live
           /\ proposals' \in [DOMAIN proposals' -> Proposal]
           /\ \A i \in DOMAIN proposals' :
               /\ proposals'[i].epoch = proposals[i].epoch
               /\ proposals'[i].snapshot = proposals[i].snapshot
               /\ proposals'[i].threshold = proposals[i].threshold
               /\ proposals'[i].approvals \subseteq proposals[i].snapshot
BY DEF GovInv, TypeOK, ApprovalsFromSnapshot, Remove, Live

\* Applying a proposal and deleting it keeps the invariant.
LEMMA ExecuteStep ==
    ASSUME GovInv, NEW id \in Live, Execute(id), UNCHANGED <<version, nonce, ledger>>
    PROVE  GovInv'
<1>1. apply_proposal_action(proposals[id].action) /\ proposals' = Remove(id)
  BY DEF Execute
<1>2. /\ admins' \subseteq Address /\ admins' # {} /\ threshold' \in Nat \ {0}
      /\ epoch' \in Nat /\ epoch' >= epoch
      /\ epoch' = epoch => admins' = admins /\ threshold' = threshold
      /\ pool' \in Pool /\ custody' \in Int
  BY <1>1, ApplyStep
<1>3. /\ (Live \subseteq 0..(nonce - 1))' /\ (proposals \in [Live -> Proposal])'
      /\ EpochPinsElectorate' /\ ApprovalsFromSnapshot'
  BY <1>1, <1>2, RemoveKept, ProposalsKept
<1>4. version' \in Versions /\ nonce' \in Nat /\ ledger' \in Nat
  BY DEF GovInv, TypeOK
<1>5. QED
  BY <1>2, <1>3, <1>4 DEF GovInv, TypeOK

\* The invariant holds initially.
LEMMA InitInv == Init => GovInv
<1> SUFFICES ASSUME Init PROVE GovInv
  OBVIOUS
<1>1. TypeOK
  <2>1. Live = {}
    BY DEF Init, Live
  <2>2. proposals \in [Live -> Proposal]
    BY <2>1 DEF Init, Live
  <2>3. QED
    BY <2>1, <2>2, GovernanceAssumption DEF Init, TypeOK, Pool
<1>2. EpochPinsElectorate /\ ApprovalsFromSnapshot /\ admins # {}
  BY DEF Init, EpochPinsElectorate, ApprovalsFromSnapshot, Live
<1>3. QED
  BY <1>1, <1>2 DEF GovInv

\* A step that leaves the proposals and the electorate alone.
LEMMA QuietStep ==
    ASSUME GovInv, UNCHANGED <<electorate, proposals, nonce>>,
           version' \in Versions, ledger' \in Nat, pool' \in Pool, custody' \in Int
    PROVE  GovInv'
<1>1. TypeOK'
  BY DEF GovInv, TypeOK, electorate, Live
<1>2. EpochPinsElectorate' /\ ApprovalsFromSnapshot' /\ admins' # {}
  BY DEF GovInv, EpochPinsElectorate, ApprovalsFromSnapshot, electorate, Live
<1>3. QED
  BY <1>1, <1>2 DEF GovInv

\* Every step keeps the invariant: one case per entry point.
LEMMA NextInv == GovInv /\ [Next]_vars => GovInv'
<1> SUFFICES ASSUME GovInv, [Next]_vars PROVE GovInv'
  OBVIOUS
<1>t. /\ admins \subseteq Address /\ admins # {} /\ threshold \in Nat \ {0} /\ epoch \in Nat
      /\ version \in Versions /\ nonce \in Nat /\ ledger \in Nat
      /\ pool \in Pool /\ custody \in Int
  BY DEF GovInv, TypeOK
<1>1. CASE Close
  BY <1>1, <1>t, QuietStep DEF Close, funds
<1>2. CASE PoolActivity
  <2>1. PICK deposits \in 0..MaxFunds, assets \in 0..MaxFunds, balance \in 0..MaxFunds :
            /\ pool' = [pool EXCEPT !.total_deposited = deposits, !.emergency_assets = assets]
            /\ custody' = balance
    BY <1>2 DEF PoolActivity
  <2>2. deposits \in Int /\ assets \in Int /\ balance \in Int
    BY <2>1, GovernanceAssumption
  <2>3. pool' \in Pool /\ custody' \in Int
    BY <1>t, <2>1, <2>2, PoolUpdate
  <2>4. QED
    BY <1>2, <1>t, <2>3, QuietStep DEF PoolActivity
<1>3. ASSUME NEW s \in Address, NEW new \in Address, seed_admin(s, new)
      PROVE  GovInv'
  <2>1. /\ admins' \subseteq Address /\ admins' # {} /\ threshold' = threshold
        /\ epoch' \in Nat /\ epoch' >= epoch
        /\ epoch' = epoch => admins' = admins
        /\ proposals' = proposals /\ nonce' = nonce
    BY <1>3, <1>t DEF seed_admin, Bootstrapping, EpochAfterAdding
  <2>2. /\ (Live \subseteq 0..(nonce - 1))' /\ (proposals \in [Live -> Proposal])'
        /\ EpochPinsElectorate' /\ ApprovalsFromSnapshot'
    <3>1. /\ DOMAIN proposals' \subseteq Live
          /\ proposals' \in [DOMAIN proposals' -> Proposal]
          /\ \A i \in DOMAIN proposals' : proposals'[i].approvals \subseteq proposals[i].snapshot
      BY <2>1 DEF GovInv, TypeOK, ApprovalsFromSnapshot, Live
    <3>2. QED
      BY <2>1, <3>1, ProposalsKept
  <2>3. QED
    BY <1>3, <1>t, <2>1, <2>2 DEF seed_admin, Bootstrapping, EpochAfterAdding, funds, GovInv, TypeOK
<1>4. ASSUME NEW s \in Address, NEW new \in Versions, update_config_version(s, new)
      PROVE  GovInv'
  BY <1>4, <1>t, QuietStep DEF update_config_version, funds
<1>5. ASSUME NEW s \in Address, NEW action \in Payloads, propose(s, action)
      PROVE  GovInv'
  <2> DEFINE new == [action |-> action, proposer |-> s, approvals |-> {s},
                     snapshot |-> admins, threshold |-> threshold, epoch |-> epoch,
                     readyAt |-> IF is_high_risk(action) THEN ledger + Delay ELSE ledger,
                     expiresAt |-> ledger + Expiry]
  <2>1. new \in Proposal
    <3>1. (IF is_high_risk(action) THEN ledger + Delay ELSE ledger) \in Nat /\ ledger + Expiry \in Nat
      BY <1>t, GovernanceAssumption
    <3>2. action \in Action
      BY GovernanceAssumption
    <3>3. QED
      BY <1>t, <3>1, <3>2 DEF Proposal
  <2>2. /\ proposals' = [i \in Live \cup {nonce} |-> IF i = nonce THEN new ELSE proposals[i]]
        /\ nonce' = nonce + 1 /\ UNCHANGED <<electorate, version, ledger, funds>> /\ s \in admins
    BY <1>5 DEF propose, NextNonce, Store
  <2>3. TypeOK'
    <3>1. Live' = Live \cup {nonce} /\ Live \subseteq 0..(nonce - 1)
      BY <2>2 DEF Live, GovInv, TypeOK
    <3>2. Live' \subseteq 0..(nonce' - 1)
      BY <3>1, <2>2, <1>t
    <3>3. \A i \in Live : proposals[i] \in Proposal
      BY DEF GovInv, TypeOK
    <3>4. PICK p \in Proposal : p = new
      BY <2>1
    <3>5. proposals' = [i \in Live \cup {nonce} |-> IF i = nonce THEN p ELSE proposals[i]]
      BY <2>2, <3>4
    <3>6. proposals' \in [Live' -> Proposal]
      <4>1. \A i \in Live \cup {nonce} : (IF i = nonce THEN p ELSE proposals[i]) \in Proposal
        BY <3>3, <3>4
      <4>2. proposals' \in [Live \cup {nonce} -> Proposal]
        BY <3>5, <4>1
      <4>3. QED
        BY <3>1, <4>2
    <3>7. /\ admins' = admins /\ threshold' = threshold /\ epoch' = epoch /\ version' = version
          /\ ledger' = ledger /\ pool' = pool /\ custody' = custody /\ nonce' = nonce + 1
      BY <2>2 DEF electorate, funds
    <3>8. QED
      BY ONLY <1>t, <3>2, <3>6, <3>7 DEF TypeOK
  <2>4. ASSUME NEW i \in Live'
        PROVE  /\ proposals'[i].epoch = epoch' =>
                     proposals'[i].snapshot = admins' /\ proposals'[i].threshold = threshold'
               /\ proposals'[i].approvals \subseteq proposals'[i].snapshot
               /\ proposals'[i].epoch <= epoch'
    <3>1. CASE i = nonce
      <4>1. proposals'[i] = new
        BY <2>2, <3>1 DEF Live
      <4>2. /\ new.epoch = epoch /\ new.snapshot = admins /\ new.threshold = threshold
            /\ new.approvals = {s}
        OBVIOUS
      <4>3. admins' = admins /\ threshold' = threshold /\ epoch' = epoch
        BY <2>2 DEF electorate
      <4>4. PICK p : p = new /\ p.epoch = epoch /\ p.snapshot = admins /\ p.threshold = threshold
                     /\ p.approvals = {s}
        BY <4>2
      <4>5. proposals'[i] = p
        BY <4>1, <4>4
      <4>6. s \in admins /\ epoch \in Nat
        BY <1>t, <2>2
      <4>7. QED
        BY ONLY <4>3, <4>4, <4>5, <4>6
    <3>2. CASE i # nonce
      <4>1. i \in Live /\ proposals'[i] = proposals[i]
        BY <2>2, <3>2 DEF Live
      <4>2. admins' = admins /\ threshold' = threshold /\ epoch' = epoch
        BY <2>2 DEF electorate
      <4>3. QED
        BY <4>1, <4>2 DEF GovInv, EpochPinsElectorate, ApprovalsFromSnapshot
    <3>3. QED
      BY <3>1, <3>2
  <2>5. admins' # {}
    BY <1>t, <2>2 DEF electorate
  <2>6. QED
    BY <2>3, <2>4, <2>5 DEF GovInv, EpochPinsElectorate, ApprovalsFromSnapshot
<1>6. ASSUME NEW s \in Address, NEW id \in Live, approve(s, id)
      PROVE  GovInv'
  <2> DEFINE approvals == proposals[id].approvals \cup {s}
  <2>1. MayApprove(s, proposals[id]) /\ UNCHANGED <<version, nonce, ledger>>
    BY <1>6 DEF approve
  <2>2. CASE Execute(id)
    BY <2>1, <2>2, ExecuteStep
  <2>3. CASE /\ proposals' = [proposals EXCEPT ![id].approvals = approvals]
             /\ UNCHANGED <<electorate, funds>>
    <3>1. s \in proposals[id].snapshot
      BY <2>1 DEF MayApprove
    <3>2. \A i \in Live : proposals[i] \in Proposal /\ proposals[i].approvals \subseteq proposals[i].snapshot
      BY DEF GovInv, TypeOK, ApprovalsFromSnapshot
    <3>3. /\ DOMAIN proposals' = Live
          /\ \A i \in Live : proposals'[i] = IF i = id THEN [proposals[id] EXCEPT !.approvals = approvals]
                                                      ELSE proposals[i]
      BY <2>3 DEF Live, GovInv, TypeOK
    <3>4. [proposals[id] EXCEPT !.approvals = approvals] \in Proposal
      BY <3>2 DEF Proposal
    <3>5. \A i \in Live : /\ proposals'[i] \in Proposal
                          /\ proposals'[i].epoch = proposals[i].epoch
                          /\ proposals'[i].snapshot = proposals[i].snapshot
                          /\ proposals'[i].threshold = proposals[i].threshold
                          /\ proposals'[i].approvals \subseteq proposals[i].snapshot
      BY <3>1, <3>2, <3>3, <3>4 DEF Proposal
    <3>6. proposals' \in [DOMAIN proposals' -> Proposal]
      BY <3>3, <3>5, <2>3 DEF GovInv, TypeOK
    <3>7. /\ (Live \subseteq 0..(nonce - 1))' /\ (proposals \in [Live -> Proposal])'
          /\ EpochPinsElectorate' /\ ApprovalsFromSnapshot'
      BY <1>t, <2>1, <2>3, <3>3, <3>5, <3>6, ProposalsKept DEF electorate
    <3>8. QED
      BY <1>t, <2>1, <2>3, <3>7 DEF GovInv, TypeOK, electorate, funds
  <2>4. QED
    BY <1>6, <2>2, <2>3 DEF approve
<1>7. ASSUME NEW s \in Address, NEW id \in Live, execute_proposal(s, id)
      PROVE  GovInv'
  BY <1>7, ExecuteStep DEF execute_proposal
<1>8. ASSUME NEW s \in Address, NEW id \in Live, cancel_proposal(s, id)
      PROVE  GovInv'
  <2>1. proposals' = Remove(id) /\ UNCHANGED <<electorate, version, nonce, ledger, funds>>
    BY <1>8 DEF cancel_proposal
  <2>2. /\ (Live \subseteq 0..(nonce - 1))' /\ (proposals \in [Live -> Proposal])'
        /\ EpochPinsElectorate' /\ ApprovalsFromSnapshot'
    BY <1>t, <2>1, RemoveKept, ProposalsKept DEF electorate
  <2>3. QED
    BY <1>t, <2>1, <2>2 DEF GovInv, TypeOK, electorate, funds
<1>9. CASE UNCHANGED vars
  BY <1>9, <1>t, QuietStep DEF vars, electorate
<1>10. QED
  BY <1>1, <1>2, <1>3, <1>4, <1>5, <1>6, <1>7, <1>8, <1>9 DEF Next, SignerStep

\* The governance state is well typed in every reachable state.
THEOREM TypeCorrect == Spec => []TypeOK
<1>1. GovInv => TypeOK
  BY DEF GovInv
<1>2. QED
  BY <1>1, InitInv, NextInv, PTL DEF Spec

\* #533: a proposal still votable was created under the electorate in force.
THEOREM ElectoratePinned == Spec => []EpochPinsElectorate
<1>1. GovInv => EpochPinsElectorate
  BY DEF GovInv
<1>2. QED
  BY <1>1, InitInv, NextInv, PTL DEF Spec

\* Whatever approve or execute_proposal applies carries the approval of
\* today's threshold among today's signers.
THEOREM QuorumApplies == Spec => []AppliedByCurrentQuorum
<1>1. GovInv => AppliedByCurrentQuorum
  <2> SUFFICES ASSUME GovInv, NEW id \in Live, NEW s \in Address
               PROVE  /\ MayExecute(s, proposals[id]) => Quorum(proposals[id].approvals)
                      /\ (/\ MayApprove(s, proposals[id])
                          /\ Cardinality(proposals[id].approvals \cup {s}) >= proposals[id].threshold)
                             => Quorum(proposals[id].approvals \cup {s})
    BY DEF AppliedByCurrentQuorum
  <2>1. proposals[id].approvals \subseteq proposals[id].snapshot
    BY DEF GovInv, ApprovalsFromSnapshot
  <2>2. proposals[id].epoch = epoch =>
            proposals[id].snapshot = admins /\ proposals[id].threshold = threshold
    BY DEF GovInv, EpochPinsElectorate
  <2>3. QED
    BY <2>1, <2>2 DEF MayExecute, MayApprove, Quorum
<1>2. QED
  BY <1>1, InitInv, NextInv, PTL DEF Spec

\* A proposal never gets stuck: some present signer may always cancel it.
THEOREM AlwaysCancellable == Spec => []NoStuckProposal
<1>1. GovInv => NoStuckProposal
  <2> SUFFICES ASSUME GovInv, NEW id \in Live
               PROVE  \E s \in admins : MayCancel(s, proposals[id])
    BY DEF NoStuckProposal
  <2>1. PICK s \in admins : TRUE
    BY DEF GovInv
  <2>2. MayCancel(s, proposals[id])
    BY DEF GovInv, EpochPinsElectorate, MayCancel
  <2>3. QED
    BY <2>2
<1>2. QED
  BY <1>1, InitInv, NextInv, PTL DEF Spec

\* Once the threshold is within the signers' reach it stays so.
THEOREM BootstrapEnds == Spec => QuorumStaysReachable
<1>1. GovInv /\ [Next]_vars =>
        (Cardinality(admins) >= threshold => Cardinality(admins') >= threshold')
  <2> SUFFICES ASSUME GovInv, [Next]_vars, Cardinality(admins) >= threshold
               PROVE  Cardinality(admins') >= threshold'
    OBVIOUS
  <2>1. ASSUME NEW id \in Live, Execute(id) PROVE Cardinality(admins') >= threshold'
    BY <2>1, ApplyStep DEF Execute
  <2>2. CASE UNCHANGED electorate
    BY <2>2 DEF electorate
  <2>3. ASSUME NEW s \in Address, NEW new \in Address, seed_admin(s, new) PROVE FALSE
    <3>1. Cardinality(admins) \in Nat /\ threshold \in Nat
      BY SignersFinite DEF GovInv, TypeOK
    <3>2. QED
      BY <2>3, <3>1 DEF seed_admin, Bootstrapping, EpochAfterAdding
  <2>4. ASSUME NEW s \in Address, SignerStep(s)
        PROVE  UNCHANGED electorate \/ (\E id \in Live : Execute(id))
    BY <2>3, <2>4 DEF SignerStep, update_config_version, propose, NextNonce, approve, execute_proposal,
                      cancel_proposal
  <2>5. CASE Close \/ PoolActivity \/ UNCHANGED vars
    BY <2>2, <2>5 DEF Close, PoolActivity, vars, electorate
  <2>6. QED
    BY <2>1, <2>2, <2>4, <2>5 DEF Next
<1>2. QED
  BY <1>1, InitInv, NextInv, PTL DEF Spec, QuorumStaysReachable

\* Every stored proposal is well typed and approved by signers of its own
\* electorate only.
THEOREM ProposalsStayWellFormed == Spec => []ProposalsWellFormed
<1>1. GovInv => ProposalsWellFormed
  BY DEF GovInv, ProposalsWellFormed
<1>2. QED
  BY <1>1, InitInv, NextInv, PTL DEF Spec

\* A proposal is deleted by the step that applies it, and was ripe then:
\* approve and execute_proposal both compare the ledger with its timelock.
LEMMA AppliedWasRipe ==
    ASSUME GovInv, NEW s \in Address, SignerStep(s)
    PROVE  \/ \E id \in Live : Execute(id) /\ ledger >= proposals[id].readyAt
           \/ UNCHANGED <<admins, threshold, pool>>
           \/ \E new \in Address : seed_admin(s, new)
<1>1. CASE \E new \in Address : seed_admin(s, new)
  BY <1>1
<1>2. CASE \E new \in Versions : update_config_version(s, new)
  BY <1>2 DEF update_config_version, electorate, funds
<1>3. CASE \E action \in Payloads : propose(s, action)
  BY <1>3 DEF propose, electorate, funds
<1>4. CASE \E id \in Live : approve(s, id)
  BY <1>4 DEF approve, electorate, funds
<1>5. CASE \E id \in Live : execute_proposal(s, id)
  BY <1>5 DEF execute_proposal, MayExecute
<1>6. CASE \E id \in Live : cancel_proposal(s, id)
  BY <1>6 DEF cancel_proposal, electorate, funds
<1>7. QED
  BY <1>1, <1>2, <1>3, <1>4, <1>5, <1>6 DEF SignerStep

\* What applying a proposal does to the emergency flag: only the two
\* high-risk actions flip it, and only a covered pool resumes.
LEMMA FlagFlip ==
    ASSUME GovInv, NEW id \in Live, Execute(id), pool.is_emergency # pool'.is_emergency
    PROVE  /\ is_high_risk(proposals[id].action)
           /\ ~pool'.is_emergency => pool.emergency_assets >= pool.total_deposited
<1> DEFINE a == proposals[id].action
<1>t. pool \in Pool
  BY DEF GovInv, TypeOK
<1>0. apply_proposal_action(a)
  BY DEF Execute
<1>1. CASE a.kind = "AddAdmin" /\ ApplyAddAdmin(a.who)
  BY <1>1 DEF ApplyAddAdmin, funds
<1>2. CASE a.kind = "RemoveAdmin" /\ ApplyRemoveAdmin(a.who)
  BY <1>2 DEF ApplyRemoveAdmin, funds
<1>3. CASE a.kind = "SetThreshold" /\ ApplySetThreshold(a.t)
  BY <1>3 DEF ApplySetThreshold, funds
<1>4. CASE a.kind = "ReleaseEscrow" /\ ApplyReleaseEscrow(a.amount)
  BY <1>4, <1>t DEF ApplyReleaseEscrow, Pool
<1>5. CASE a.kind = "TriggerEmergency" /\ ApplyTriggerEmergency(a.assets)
  <2>1. pool'.is_emergency = TRUE
    BY <1>5, <1>t DEF ApplyTriggerEmergency, Pool
  <2>2. QED
    BY <1>5, <2>1 DEF is_high_risk, HighRisk
<1>6. CASE a.kind = "Recapitalize" /\ ApplyRecapitalize(a.amount)
  BY <1>6, <1>t DEF ApplyRecapitalize, Pool
<1>7. CASE a.kind = "ResumeNormal" /\ ApplyResumeNormal
  BY <1>7 DEF ApplyResumeNormal, Covered, is_high_risk, HighRisk
<1>8. QED
  BY <1>0, <1>1, <1>2, <1>3, <1>4, <1>5, <1>6, <1>7 DEF apply_proposal_action

\* Past the bootstrap the electorate changes only by applying a proposal, the
\* emergency flag only by one that waited out the high-risk delay, and the
\* pool resumes only while its recorded assets cover its deposits.
THEOREM GuardedChanges == Spec => ChangesAreGuarded
<1>1. GovInv /\ [Next]_vars =>
        [OnlyProposalsChangeElectorate /\ EmergencyIsTimelocked /\ ResumeOnlyWhenCovered]_vars
  <2> SUFFICES ASSUME GovInv, Next
               PROVE  OnlyProposalsChangeElectorate /\ EmergencyIsTimelocked /\ ResumeOnlyWhenCovered
    BY DEF OnlyProposalsChangeElectorate, EmergencyIsTimelocked, ResumeOnlyWhenCovered
  <2>t. pool \in Pool /\ Cardinality(admins) \in Nat /\ threshold \in Nat
    BY SignersFinite DEF GovInv, TypeOK
  <2>1. CASE UNCHANGED <<admins, threshold>> /\ pool.is_emergency = pool'.is_emergency
    BY <2>1 DEF OnlyProposalsChangeElectorate, EmergencyIsTimelocked, ResumeOnlyWhenCovered
  <2>2. CASE Close
    BY <2>1, <2>2 DEF Close, electorate, funds
  <2>3. CASE PoolActivity
    <3>1. pool.is_emergency = pool'.is_emergency
      BY <2>3, <2>t DEF PoolActivity, Pool
    <3>2. QED
      BY <2>1, <2>3, <3>1 DEF PoolActivity, electorate
  <2>4. ASSUME NEW s \in Address, NEW new \in Address, seed_admin(s, new)
        PROVE  OnlyProposalsChangeElectorate /\ EmergencyIsTimelocked /\ ResumeOnlyWhenCovered
    <3>1. pool' = pool /\ Cardinality(admins) < threshold
      BY <2>4 DEF seed_admin, Bootstrapping, funds
    <3>2. QED
      BY <2>t, <3>1 DEF OnlyProposalsChangeElectorate, EmergencyIsTimelocked, ResumeOnlyWhenCovered
  <2>5. ASSUME NEW id \in Live, Execute(id), ledger >= proposals[id].readyAt
        PROVE  OnlyProposalsChangeElectorate /\ EmergencyIsTimelocked /\ ResumeOnlyWhenCovered
    <3>1. id \notin DOMAIN proposals'
      BY <2>5 DEF Execute, Remove
    <3>2. proposals[id].readyAt \in Nat /\ ledger \in Nat
      BY DEF GovInv, TypeOK, Proposal
    <3>3. pool.is_emergency # pool'.is_emergency =>
              /\ is_high_risk(proposals[id].action)
              /\ ~pool'.is_emergency => pool.emergency_assets >= pool.total_deposited
      BY <2>5, FlagFlip
    <3>4. QED
      BY <2>5, <3>1, <3>2, <3>3 DEF OnlyProposalsChangeElectorate, EmergencyIsTimelocked,
                                    ResumeOnlyWhenCovered
  <2>6. ASSUME NEW s \in Address, SignerStep(s)
        PROVE  OnlyProposalsChangeElectorate /\ EmergencyIsTimelocked /\ ResumeOnlyWhenCovered
    BY <2>1, <2>4, <2>5, <2>6, AppliedWasRipe
  <2>7. QED
    BY <2>2, <2>3, <2>6 DEF Next
<1>2. QED
  BY <1>1, InitInv, NextInv, PTL DEF Spec, ChangesAreGuarded

-----------------------------------------------------------------------------
(* What replaces the pool's code and its strategy.                          *)

UpgradeRow ==
  [new_logic : LogicContracts, breaking : BOOLEAN, approvals : SUBSET Address, snapshot : SUBSET Address,
   threshold : Nat, epoch : Nat, logic : LogicContracts, generation : Nat, readyAt : Nat, expiresAt : Nat,
   status : {"Pending", "Executed", "Cancelled"}]

ProxyTypes ==
  /\ logic \in LogicContracts \cup {Unbound} /\ generation \in Nat
  /\ \E n \in Nat : DOMAIN upgrades = 0 .. (n - 1)
  /\ upgrades \in [DOMAIN upgrades -> UpgradeRow]
  /\ logic = Unbound => DOMAIN upgrades = {}

\* What an upgrade proposal on file says is still so: one of the generation in
\* force was made against the logic in force, one of the epoch in force under
\* the electorate in force, and a breaking one was reviewed.
RowKnows(u) ==
  /\ u.generation <= generation /\ (u.generation = generation => u.logic = logic)
  /\ u.status = "Executed" => u.generation < generation
  /\ u.epoch <= epoch /\ (u.epoch = epoch => u.snapshot = admins /\ u.threshold = threshold)
  /\ u.approvals \subseteq u.snapshot
  /\ u.breaking => <<u.logic, u.new_logic>> \in migrations

\* The inductive invariant of the proxy, beside that of the pool.
ProxyInv ==
  /\ GovInv /\ ProxyTypes
  /\ \A id \in DOMAIN upgrades : RowKnows(upgrades[id])
  /\ UpgradeLineage

-----------------------------------------------------------------------------
\* The pool's electorate changes only together with its epoch.
LEMMA EpochStep ==
    ASSUME GovInv, [Next]_vars
    PROVE  /\ epoch' \in Nat /\ epoch' >= epoch
           /\ epoch' = epoch => admins' = admins /\ threshold' = threshold
<1>t. admins \subseteq Address /\ epoch \in Nat /\ threshold \in Nat
  BY DEF GovInv, TypeOK
<1>1. CASE UNCHANGED electorate
  BY <1>1, <1>t DEF electorate
<1>2. ASSUME NEW s \in Address, NEW new \in Address, seed_admin(s, new)
      PROVE  /\ epoch' \in Nat /\ epoch' >= epoch
             /\ epoch' = epoch => admins' = admins /\ threshold' = threshold
  BY <1>2, <1>t DEF seed_admin, EpochAfterAdding
<1>3. ASSUME NEW id \in Live, Execute(id)
      PROVE  /\ epoch' \in Nat /\ epoch' >= epoch
             /\ epoch' = epoch => admins' = admins /\ threshold' = threshold
  BY <1>3, ApplyStep DEF Execute
<1>4. CASE Close \/ PoolActivity \/ UNCHANGED vars
  BY <1>1, <1>4 DEF Close, PoolActivity, vars, electorate
<1>5. ASSUME NEW s \in Address, SignerStep(s)
      PROVE  /\ epoch' \in Nat /\ epoch' >= epoch
             /\ epoch' = epoch => admins' = admins /\ threshold' = threshold
  <2>1. CASE \/ \E new \in Versions : update_config_version(s, new)
             \/ \E action \in Payloads : propose(s, action)
             \/ \E id \in Live : cancel_proposal(s, id)
    BY <1>1, <2>1 DEF update_config_version, propose, cancel_proposal
  <2>2. CASE \E new \in Address : seed_admin(s, new)
    BY <1>2, <2>2
  <2>3. CASE \E id \in Live : approve(s, id)
    BY <1>1, <1>3, <2>3 DEF approve
  <2>4. CASE \E id \in Live : execute_proposal(s, id)
    BY <1>3, <2>4 DEF execute_proposal
  <2>5. QED
    BY <1>5, <2>1, <2>2, <2>3, <2>4 DEF SignerStep
<1>6. QED
  BY <1>4, <1>5 DEF Next

\* A step of the pool leaves what the proxy knows true.
LEMMA PoolStep == ASSUME ProxyInv, Next, UNCHANGED proxyVars PROVE ProxyInv'
<1>1. GovInv' /\ GovInv
  BY NextInv DEF ProxyInv
<1>2. /\ epoch \in Nat /\ epoch' \in Nat /\ epoch' >= epoch
      /\ epoch' = epoch => admins' = admins /\ threshold' = threshold
  BY <1>1, EpochStep DEF GovInv, TypeOK
<1>3. logic' = logic /\ generation' = generation /\ migrations' = migrations /\ upgrades' = upgrades
  BY DEF proxyVars
<1>4. ProxyTypes' /\ UpgradeLineage'
  BY <1>3 DEF ProxyInv, ProxyTypes, UpgradeLineage, Executed
<1>5. ASSUME NEW id \in DOMAIN upgrades PROVE RowKnows(upgrades[id])'
  <2>1. RowKnows(upgrades[id]) /\ upgrades[id].epoch \in Nat
    BY DEF ProxyInv, ProxyTypes, UpgradeRow
  <2>2. QED
    BY <1>2, <1>3, <2>1 DEF RowKnows
<1>6. QED
  BY <1>1, <1>3, <1>4, <1>5 DEF ProxyInv

\* The types the proxy's steps start from.
LEMMA ProxyFacts ==
    ASSUME ProxyInv
    PROVE  /\ logic \in LogicContracts \cup {Unbound} /\ generation \in Nat
           /\ upgrades \in [DOMAIN upgrades -> UpgradeRow]
           /\ \A id \in DOMAIN upgrades : upgrades[id] \in UpgradeRow /\ RowKnows(upgrades[id])
           /\ admins \subseteq Address /\ threshold \in Nat /\ epoch \in Nat /\ ledger \in Nat
           /\ Delay \in Nat /\ Expiry \in Nat /\ GovInv
BY GovernanceAssumption DEF ProxyInv, ProxyTypes, GovInv, TypeOK

\* The pool stands still during a step of the proxy.
LEMMA PoolKept == ASSUME GovInv, UNCHANGED vars PROVE GovInv' /\ UNCHANGED <<admins, threshold, epoch, ledger>>
BY NextInv DEF vars

\* Rows that were executed stay as they are and no other becomes executed.
LEMMA LineageKept ==
    ASSUME ProxyInv, Executed' = Executed, generation' = generation, logic' = logic \/ Executed = {},
           \A id \in Executed : upgrades'[id] = upgrades[id]
    PROVE  UpgradeLineage'
BY DEF ProxyInv, UpgradeLineage

\* The proxy's ids are consecutive: the next one is free.
LEMMA NonceFree ==
    ASSUME ProxyInv
    PROVE  /\ UpgradeNonce \in Nat /\ DOMAIN upgrades = 0 .. (UpgradeNonce - 1) /\ IsFiniteSet(DOMAIN upgrades)
<1>1. PICK n \in Nat : DOMAIN upgrades = 0 .. (n - 1)
  BY DEF ProxyInv, ProxyTypes
<1>2. IsFiniteSet(0 .. (n - 1)) /\ Cardinality(0 .. (n - 1)) = n
  BY FS_Interval
<1>3. QED
  BY <1>1, <1>2 DEF UpgradeNonce

\* The proxy is bound, or a migration registered.
LEMMA BindStep ==
    ASSUME ProxyInv, UNCHANGED vars, NEW s \in Address,
           \/ \E c \in LogicContracts : create(s, c)
           \/ \E from, to \in LogicContracts : register_migration(s, from, to)
    PROVE  ProxyInv'
<1>0. /\ GovInv' /\ UNCHANGED <<admins, threshold, epoch, ledger>>
      /\ generation' = generation /\ upgrades' = upgrades /\ migrations \subseteq migrations'
  BY PoolKept DEF ProxyInv, create, register_migration
<1>1. logic' = logic \/ (logic = Unbound /\ logic' \in LogicContracts)
  BY DEF create, register_migration
<1>2. logic' # logic => DOMAIN upgrades = {}
  BY <1>1 DEF ProxyInv, ProxyTypes
<1>3. ProxyTypes'
  BY <1>0, <1>1, <1>2, ProxyAssumption DEF ProxyInv, ProxyTypes
<1>4. UpgradeLineage'
  BY <1>0, <1>2, LineageKept DEF Executed
<1>5. ASSUME NEW id \in DOMAIN upgrades PROVE RowKnows(upgrades[id])'
  <2>1. RowKnows(upgrades[id]) /\ logic' = logic
    BY <1>2, ProxyFacts
  <2>2. PICK w : w = upgrades'[id] /\ w = upgrades[id]
    BY <1>0
  <2>3. w.breaking => <<w.logic, w.new_logic>> \in migrations'
    BY <1>0, <2>1, <2>2, Zenon DEF RowKnows
  <2>4. /\ w.generation <= generation' /\ (w.generation = generation' => w.logic = logic')
        /\ w.status = "Executed" => w.generation < generation'
        /\ w.epoch <= epoch' /\ (w.epoch = epoch' => w.snapshot = admins' /\ w.threshold = threshold')
        /\ w.approvals \subseteq w.snapshot
    BY <1>0, <2>1, <2>2 DEF RowKnows
  <2>5. QED
    BY <2>2, <2>3, <2>4, Zenon DEF RowKnows
<1>6. QED
  BY <1>0, <1>3, <1>4, <1>5 DEF ProxyInv

\* A new proposal is made against the logic and under the electorate in force.
LEMMA ProposeStep ==
    ASSUME ProxyInv, UNCHANGED vars, NEW s \in Address, NEW c \in LogicContracts \cup {ProxyAddress}, NEW b \in BOOLEAN,
           propose_upgrade(s, c, b)
    PROVE  ProxyInv'
<1> DEFINE N == UpgradeNonce
           u == [new_logic |-> c, breaking |-> b,
                 approvals |-> {s}, snapshot |-> admins, threshold |-> threshold,
                 epoch |-> epoch, logic |-> logic, generation |-> generation,
                 readyAt |-> ledger + Delay, expiresAt |-> ledger + Expiry,
                 status |-> "Pending"]
<1>0. /\ GovInv' /\ UNCHANGED <<admins, threshold, epoch, ledger>>
      /\ UNCHANGED <<logic, generation, migrations>> /\ logic # Unbound /\ s \in admins
      /\ c \in LogicContracts /\ (b => <<logic, c>> \in migrations)
      /\ upgrades' = [id \in DOMAIN upgrades \cup {N} |-> IF id # N THEN upgrades[id] ELSE u]
  BY PoolKept DEF ProxyInv, propose_upgrade
<1>1. N \in Nat /\ DOMAIN upgrades = 0 .. (N - 1) /\ DOMAIN upgrades' = DOMAIN upgrades \cup {N} /\ N \notin DOMAIN upgrades
  BY <1>0, NonceFree
<1>2. u \in UpgradeRow
  <2>1. PICK r1 \in Nat, r2 \in Nat, A \in SUBSET Address : r1 = ledger + Delay /\ r2 = ledger + Expiry /\ A = {s}
    <3>1. ledger + Delay \in Nat /\ ledger + Expiry \in Nat /\ {s} \in SUBSET Address
      BY ProxyFacts
    <3>2. QED
      BY <3>1
  <2>2. logic \in LogicContracts
    BY <1>0, ProxyFacts
  <2>3. generation \in Nat /\ admins \in SUBSET Address /\ threshold \in Nat /\ epoch \in Nat
    BY ProxyFacts
  <2>4. u = [new_logic |-> c, breaking |-> b, approvals |-> A, snapshot |-> admins, threshold |-> threshold,
             epoch |-> epoch, logic |-> logic, generation |-> generation, readyAt |-> r1, expiresAt |-> r2,
             status |-> "Pending"]
    BY <2>1
  <2>5. [new_logic |-> c, breaking |-> b, approvals |-> A, snapshot |-> admins, threshold |-> threshold,
         epoch |-> epoch, logic |-> logic, generation |-> generation, readyAt |-> r1, expiresAt |-> r2,
         status |-> "Pending"] \in UpgradeRow
    BY <1>0, <2>1, <2>2, <2>3 DEF UpgradeRow
  <2>6. QED
    BY <2>4, <2>5
<1>3. /\ u.status = "Pending" /\ u.generation = generation /\ u.logic = logic /\ u.epoch = epoch
      /\ u.snapshot = admins /\ u.threshold = threshold /\ u.approvals = {s} /\ u.new_logic = c
  OBVIOUS
<1>4. u.breaking => <<u.logic, u.new_logic>> \in migrations
  BY <1>0, Zenon
<1> HIDE DEF u, N
<1>5. upgrades'[N] = u /\ \A id \in DOMAIN upgrades : upgrades'[id] = upgrades[id]
  BY <1>0, <1>1
<1>6. ProxyTypes'
  <2>1. DOMAIN upgrades' = 0 .. ((N + 1) - 1) /\ N + 1 \in Nat
    BY <1>1
  <2>2. upgrades' \in [DOMAIN upgrades' -> UpgradeRow]
    BY <1>0, <1>1, <1>2, ProxyFacts
  <2>3. QED
    BY <1>0, <2>1, <2>2, ProxyFacts DEF ProxyTypes
<1>7. UpgradeLineage'
  <2>1. Executed' = Executed /\ \A id \in Executed : upgrades'[id] = upgrades[id]
    BY <1>1, <1>3, <1>5 DEF Executed
  <2>2. QED
    BY <1>0, <2>1, LineageKept
<1>8. ASSUME NEW id \in DOMAIN upgrades' PROVE RowKnows(upgrades[id])'
  <2>1. CASE id = N
    <3>1. upgrades'[id] = u
      BY <1>5, <2>1
    <3>2. u.breaking => <<u.logic, u.new_logic>> \in migrations'
      BY <1>0, <1>4
    <3>3. RowKnows(u)'
      BY <1>0, <1>3, <3>2, ProxyFacts DEF RowKnows, u
    <3>4. QED
      BY <1>0, <1>3, <3>1, <3>2, ProxyFacts DEF RowKnows
  <2>2. CASE id \in DOMAIN upgrades
    <3>1. upgrades'[id] = upgrades[id] /\ RowKnows(upgrades[id])
      BY <1>5, <2>2, ProxyFacts
    <3>2. QED
      BY <1>0, <3>1 DEF RowKnows
  <2>3. QED
    BY <1>1, <2>1, <2>2
<1>9. QED
  BY <1>0, <1>6, <1>7, <1>8 DEF ProxyInv

\* A pending proposal is approved or cancelled, and not executed.
LEMMA OneRowChanges ==
    ASSUME ProxyInv, UNCHANGED vars, NEW id \in DOMAIN upgrades, upgrades[id].status = "Pending",
           UNCHANGED <<logic, generation, migrations>>, upgrades' = [upgrades EXCEPT ![id] = upgrades'[id]],
           upgrades'[id] \in UpgradeRow, RowKnows(upgrades[id])', upgrades'[id].status # "Executed"
    PROVE  ProxyInv'
<1>0. GovInv' /\ UNCHANGED <<admins, threshold, epoch, ledger>>
  BY PoolKept DEF ProxyInv
<1>1. DOMAIN upgrades' = DOMAIN upgrades /\ \A i \in DOMAIN upgrades : i # id => upgrades'[i] = upgrades[i]
  BY ProxyFacts
<1>2. ProxyTypes'
  BY <1>1, ProxyFacts DEF ProxyInv, ProxyTypes
<1>3. UpgradeLineage'
  <2>1. Executed' = Executed /\ \A i \in Executed : upgrades'[i] = upgrades[i]
    BY <1>1 DEF Executed
  <2>2. QED
    BY <2>1, LineageKept
<1>4. ASSUME NEW i \in DOMAIN upgrades', i # id PROVE RowKnows(upgrades[i])'
  <2>1. upgrades'[i] = upgrades[i] /\ RowKnows(upgrades[i])
    BY <1>1, <1>4, ProxyFacts
  <2>2. QED
    BY <1>0, <2>1 DEF RowKnows
<1>5. QED
  BY <1>0, <1>1, <1>2, <1>3, <1>4 DEF ProxyInv

\* Approving or cancelling without executing.
LEMMA BallotStep ==
    ASSUME ProxyInv, UNCHANGED vars, NEW s \in Address, NEW id \in DOMAIN upgrades, upgrades[id].status = "Pending",
           UNCHANGED <<logic, generation, migrations>>,
           NEW A, A \subseteq upgrades[id].snapshot, NEW k \in {"Pending", "Cancelled"},
           upgrades' = [upgrades EXCEPT ![id] = [upgrades[id] EXCEPT !.status = k, !.approvals = A]]
    PROVE  ProxyInv'
<1>1. /\ upgrades'[id] = [upgrades[id] EXCEPT !.status = k, !.approvals = A]
      /\ upgrades' = [upgrades EXCEPT ![id] = upgrades'[id]]
  BY ProxyFacts
<1>2. PICK w : w = upgrades'[id]
  OBVIOUS
<1>3. PICK u \in UpgradeRow : u = upgrades[id] /\ A \subseteq u.snapshot
  BY ProxyFacts
<1>4. w = [u EXCEPT !.status = k, !.approvals = A] /\ A \in SUBSET Address
  BY <1>1, <1>2, <1>3 DEF UpgradeRow
<1>5. /\ w \in UpgradeRow /\ w.status = k /\ w.approvals = A /\ w.snapshot = u.snapshot
      /\ w.new_logic = u.new_logic /\ w.logic = u.logic /\ w.generation = u.generation /\ w.epoch = u.epoch
      /\ w.threshold = u.threshold
  <2>1. w \in UpgradeRow
    BY <1>4 DEF UpgradeRow
  <2>2. QED
    BY <1>4, <2>1 DEF UpgradeRow
<1>6. w.breaking = u.breaking
  BY <1>4 DEF UpgradeRow
<1>7. UNCHANGED <<admins, threshold, epoch>> /\ RowKnows(u)
  BY <1>3, PoolKept, ProxyFacts
<1>8. w.breaking => <<w.logic, w.new_logic>> \in migrations'
  <2>1. u.breaking => <<u.logic, u.new_logic>> \in migrations
    BY <1>7, Zenon DEF RowKnows
  <2>2. w.logic = u.logic /\ w.new_logic = u.new_logic /\ migrations' = migrations
    BY <1>5
  <2>3. QED
    BY <1>6, <2>1, <2>2, Zenon
<1>9. /\ w.generation <= generation' /\ (w.generation = generation' => w.logic = logic')
      /\ w.status = "Executed" => w.generation < generation'
      /\ w.epoch <= epoch' /\ (w.epoch = epoch' => w.snapshot = admins' /\ w.threshold = threshold')
      /\ w.approvals \subseteq w.snapshot
  BY <1>3, <1>5, <1>7 DEF RowKnows
<1>10. RowKnows(upgrades[id])'
  BY <1>2, <1>8, <1>9, Zenon DEF RowKnows
<1>11. QED
  BY <1>1, <1>2, <1>5, <1>10, OneRowChanges

\* An upgrade is executed: it was made against the logic in force, becomes the
\* last link of the chain, and leaves every other proposal behind.
LEMMA ApplyUpgradeStep ==
    ASSUME ProxyInv, UNCHANGED vars, NEW id \in DOMAIN upgrades, upgrades[id].status = "Pending",
           NEW A, A \subseteq upgrades[id].snapshot, apply_upgrade(id, A)
    PROVE  /\ ProxyInv'
           /\ upgrades'[id].status = "Executed" /\ upgrades'[id].approvals = A
           /\ upgrades'[id].logic = logic /\ upgrades'[id].new_logic = logic'
           /\ upgrades'[id].readyAt = upgrades[id].readyAt /\ upgrades'[id].expiresAt = upgrades[id].expiresAt
           /\ upgrades'[id].breaking => <<logic, logic'>> \in migrations
<1>0. /\ GovInv' /\ UNCHANGED <<admins, threshold, epoch, ledger>> /\ migrations' = migrations
      /\ logic' = upgrades[id].new_logic /\ generation' = generation + 1
      /\ upgrades[id].generation = generation /\ generation \in Nat
  BY PoolKept, ProxyFacts DEF apply_upgrade, Unsuperseded
<1>1. /\ upgrades'[id] = [upgrades[id] EXCEPT !.status = "Executed", !.approvals = A]
      /\ upgrades' = [upgrades EXCEPT ![id] = upgrades'[id]]
  BY ProxyFacts DEF apply_upgrade
<1>2. PICK w : w = upgrades'[id]
  OBVIOUS
<1>a. PICK u \in UpgradeRow : u = upgrades[id] /\ A \subseteq u.snapshot
  BY ProxyFacts
<1>b. w = [u EXCEPT !.status = "Executed", !.approvals = A] /\ A \in SUBSET Address
  BY <1>1, <1>2, <1>a DEF UpgradeRow
<1>3. /\ w \in UpgradeRow /\ w.status = "Executed" /\ w.approvals = A /\ w.snapshot = u.snapshot
      /\ w.new_logic = u.new_logic /\ w.logic = u.logic /\ w.generation = u.generation /\ w.epoch = u.epoch
      /\ w.threshold = u.threshold /\ w.readyAt = u.readyAt /\ w.expiresAt = u.expiresAt
  <2>1. w \in UpgradeRow
    BY <1>b DEF UpgradeRow
  <2>2. QED
    BY <1>b, <2>1 DEF UpgradeRow
<1>c. w.breaking = u.breaking
  BY <1>b DEF UpgradeRow
<1>4. DOMAIN upgrades' = DOMAIN upgrades /\ \A i \in DOMAIN upgrades : i # id => upgrades'[i] = upgrades[i]
  BY <1>1, ProxyFacts
<1>5. /\ RowKnows(u) /\ u.new_logic \in LogicContracts /\ u.logic = logic /\ u.generation = generation
      /\ logic' = u.new_logic
  BY <1>0, <1>a, ProxyFacts DEF RowKnows, UpgradeRow
<1>6. w.breaking => <<w.logic, w.new_logic>> \in migrations
  <2>1. u.breaking => <<u.logic, u.new_logic>> \in migrations
    BY <1>5, Zenon DEF RowKnows
  <2>2. w.logic = u.logic /\ w.new_logic = u.new_logic
    BY <1>3
  <2>3. QED
    BY <1>c, <2>1, <2>2, Zenon
<1>7. ProxyTypes'
  <2>1. upgrades' \in [DOMAIN upgrades' -> UpgradeRow]
    BY <1>1, <1>2, <1>3, <1>4, ProxyFacts
  <2>2. logic' \in LogicContracts /\ logic' # Unbound /\ generation' \in Nat
    BY <1>0, <1>5, ProxyAssumption
  <2>3. \E n \in Nat : DOMAIN upgrades' = 0 .. (n - 1)
    BY <1>4 DEF ProxyInv, ProxyTypes
  <2>4. QED
    BY <2>1, <2>2, <2>3 DEF ProxyTypes
<1>8. RowKnows(upgrades[id])'
  <2>1. /\ w.generation <= generation' /\ (w.generation = generation' => w.logic = logic')
        /\ w.status = "Executed" => w.generation < generation'
        /\ w.epoch <= epoch' /\ (w.epoch = epoch' => w.snapshot = admins' /\ w.threshold = threshold')
        /\ w.approvals \subseteq w.snapshot
    BY <1>0, <1>a, <1>3, <1>5 DEF RowKnows
  <2>2. migrations' = migrations
    BY <1>0
  <2>3. QED
    BY <1>2, <1>6, <2>1, <2>2, Zenon DEF RowKnows
<1>9. ASSUME NEW i \in DOMAIN upgrades, i # id PROVE RowKnows(upgrades[i])'
  <2>1. RowKnows(upgrades[i]) /\ upgrades[i] \in UpgradeRow
    BY ProxyFacts
  <2>2. PICK v \in UpgradeRow : v = upgrades'[i] /\ v = upgrades[i]
    BY <1>4, <1>9, <2>1
  <2>3. v.breaking => <<v.logic, v.new_logic>> \in migrations'
    BY <1>0, <2>1, <2>2, Zenon DEF RowKnows
  <2>4. v.generation \in Nat /\ v.generation <= generation /\ (v.status = "Executed" => v.generation < generation)
    BY <2>1, <2>2 DEF RowKnows, UpgradeRow
  <2>5. /\ v.generation <= generation' /\ (v.generation = generation' => v.logic = logic')
        /\ v.status = "Executed" => v.generation < generation'
    BY <1>0, <2>4
  <2>6. /\ v.epoch <= epoch' /\ (v.epoch = epoch' => v.snapshot = admins' /\ v.threshold = threshold')
        /\ v.approvals \subseteq v.snapshot
    BY <1>0, <2>1, <2>2 DEF RowKnows
  <2>7. QED
    BY <2>2, <2>3, <2>5, <2>6, Zenon DEF RowKnows
<1>10. Executed' = Executed \cup {id} /\ id \notin Executed /\ \A i \in Executed : upgrades'[i] = upgrades[i]
  BY <1>2, <1>3, <1>4 DEF Executed
<1>11. Cardinality(Executed') = generation'
  <2>1. IsFiniteSet(Executed)
    BY NonceFree, FS_Subset DEF Executed
  <2>2. Cardinality(Executed) = generation
    BY DEF ProxyInv, UpgradeLineage
  <2>3. QED
    BY <1>0, <1>10, <2>1, <2>2, FS_AddElement
<1>12. \A i \in Executed : upgrades[i].generation \in Nat /\ upgrades[i].generation < generation
  BY ProxyFacts DEF Executed, RowKnows, UpgradeRow
<1>13. ASSUME NEW i \in Executed'
       PROVE  LET v == upgrades'[i]
                  next == {j \in Executed' : upgrades'[j].generation = v.generation + 1}
              IN  IF v.generation + 1 = generation'
                  THEN v.new_logic = logic'
                  ELSE next # {} /\ \A j \in next : upgrades'[j].logic = v.new_logic
  <2> DEFINE v == upgrades'[i]
             next == {j \in Executed' : upgrades'[j].generation = v.generation + 1}
  <2>1. CASE i = id
    BY <1>0, <1>2, <1>3, <1>5, <2>1
  <2>2. CASE i \in Executed
    <3>1. v = upgrades[i] /\ v.generation \in Nat /\ v.generation < generation /\ v.generation + 1 # generation'
      BY <1>0, <1>10, <1>12, <2>2
    <3>2. CASE v.generation + 1 = generation
      <4>1. v.new_logic = logic
        BY <2>2, <3>1, <3>2 DEF ProxyInv, UpgradeLineage
      <4>2. next = {id}
        BY <1>0, <1>2, <1>3, <1>5, <1>10, <1>12, <3>2
      <4>3. QED
        BY <1>2, <1>3, <1>5, <3>1, <4>1, <4>2
    <3>3. CASE v.generation + 1 # generation
      <4>1. next = {j \in Executed : upgrades[j].generation = upgrades[i].generation + 1}
        BY <1>0, <1>2, <1>3, <1>5, <1>10, <3>1, <3>3
      <4>2. next # {} /\ \A j \in next : upgrades[j].logic = v.new_logic
        BY <2>2, <3>1, <3>3, <4>1 DEF ProxyInv, UpgradeLineage
      <4>3. QED
        BY <1>10, <3>1, <4>1, <4>2
    <3>4. QED
      BY <3>2, <3>3
  <2>3. QED
    BY <1>10, <2>1, <2>2
<1>14. UpgradeLineage'
  BY <1>11, <1>13 DEF UpgradeLineage
<1>15. ProxyInv'
  BY <1>0, <1>4, <1>7, <1>8, <1>9, <1>14 DEF ProxyInv
<1>16. upgrades'[id].breaking => <<logic, logic'>> \in migrations
  <2>1. w.logic = logic /\ w.new_logic = logic'
    BY <1>0, <1>3, <1>5
  <2>2. QED
    BY <1>2, <1>6, <2>1, Zenon
<1>17. QED
  BY <1>0, <1>2, <1>a, <1>3, <1>5, <1>15, <1>16

\* approve_upgrade and execute_upgrade apply a proposal of the epoch in force
\* only: its snapshot and threshold are the pool's.
LEMMA QuorumBehindUpgrade ==
    ASSUME ProxyInv, NEW id \in DOMAIN upgrades, upgrades[id].epoch = epoch,
           NEW A, A \subseteq upgrades[id].snapshot, Cardinality(A) >= upgrades[id].threshold
    PROVE  Quorum(A)
<1>1. RowKnows(upgrades[id])
  BY ProxyFacts
<1>2. upgrades[id].snapshot = admins /\ upgrades[id].threshold = threshold
  BY <1>1 DEF RowKnows
<1>3. QED
  BY <1>2 DEF Quorum

\* What a call on an existing proposal does: it executes it with a quorum of
\* today's signers and within its window, or changes its row alone.
LEMMA VoteStep ==
    ASSUME ProxyInv, UNCHANGED vars, NEW s \in Address, NEW id \in DOMAIN upgrades,
           approve_upgrade(s, id) \/ execute_upgrade(s, id) \/ cancel_upgrade(s, id)
    PROVE  /\ upgrades[id].status = "Pending"
           /\ \/ \E A \in SUBSET upgrades[id].snapshot :
                   /\ apply_upgrade(id, A) /\ Quorum(A)
                   /\ ledger \in upgrades[id].readyAt .. upgrades[id].expiresAt
              \/ ProxyInv' /\ UNCHANGED <<logic, generation, migrations>>
<1>1. PICK u \in UpgradeRow : u = upgrades[id] /\ u.approvals \subseteq u.snapshot
  BY ProxyFacts DEF RowKnows
<1>2. CASE approve_upgrade(s, id)
  <2>1. PICK A \in SUBSET u.snapshot : A = u.approvals \cup {s}
    BY <1>1, <1>2 DEF approve_upgrade
  <2>2. u.status = "Pending" /\ u.epoch = epoch /\ ledger <= u.expiresAt
    BY <1>1, <1>2 DEF approve_upgrade
  <2>3. CASE Cardinality(A) >= u.threshold /\ ledger >= u.readyAt /\ apply_upgrade(id, A)
    <3>1. Quorum(A)
      BY <1>1, <2>1, <2>2, <2>3, QuorumBehindUpgrade
    <3>2. ledger \in u.readyAt .. u.expiresAt
      BY <1>1, <2>2, <2>3, ProxyFacts DEF UpgradeRow
    <3>3. QED
      BY <1>1, <2>1, <2>2, <2>3, <3>1, <3>2
  <2>4. CASE upgrades' = [upgrades EXCEPT ![id].approvals = A] /\ UNCHANGED <<logic, generation, migrations>>
    <3>1. PICK k \in {"Pending", "Cancelled"} : k = u.status
      BY <2>2
    <3>2. [u EXCEPT !.approvals = A] = [u EXCEPT !.status = k, !.approvals = A]
      BY <1>1, <2>1, <3>1 DEF UpgradeRow
    <3>3. upgrades' = [upgrades EXCEPT ![id] = [upgrades[id] EXCEPT !.status = k, !.approvals = A]]
      BY <1>1, <2>4, <3>2
    <3>4. upgrades[id].status = "Pending" /\ A \subseteq upgrades[id].snapshot
      BY <1>1, <2>1, <2>2
    <3>5. UNCHANGED <<logic, generation, migrations>>
      BY <2>4
    <3>6. ProxyInv'
      BY ONLY ProxyInv, UNCHANGED vars, s \in Address, id \in DOMAIN upgrades, k \in {"Pending", "Cancelled"},
              <3>3, <3>4, <3>5, BallotStep
    <3>7. QED
      BY <3>4, <3>5, <3>6
  <2>5. QED
    BY <1>1, <1>2, <2>1, <2>3, <2>4 DEF approve_upgrade
<1>3. CASE execute_upgrade(s, id)
  <2>1. /\ u.status = "Pending" /\ u.epoch = epoch /\ ledger \in u.readyAt .. u.expiresAt
        /\ Cardinality(u.approvals) >= u.threshold /\ apply_upgrade(id, u.approvals)
    BY <1>1, <1>3 DEF execute_upgrade, MayUpgrade
  <2>2. Quorum(u.approvals)
    BY <1>1, <2>1, QuorumBehindUpgrade
  <2>3. QED
    BY <1>1, <2>1, <2>2
<1>4. CASE cancel_upgrade(s, id)
  <2>1. /\ u.status = "Pending" /\ upgrades' = [upgrades EXCEPT ![id].status = "Cancelled"]
        /\ UNCHANGED <<logic, generation, migrations>>
    BY <1>1, <1>4 DEF cancel_upgrade
  <2>2. PICK k \in {"Pending", "Cancelled"}, A \in SUBSET u.snapshot : k = "Cancelled" /\ A = u.approvals
    BY <1>1
  <2>3. [u EXCEPT !.status = "Cancelled"] = [u EXCEPT !.status = k, !.approvals = A]
    BY <1>1, <2>2 DEF UpgradeRow
  <2>4. upgrades' = [upgrades EXCEPT ![id] = [upgrades[id] EXCEPT !.status = k, !.approvals = A]]
    BY <1>1, <2>1, <2>3
  <2>5. QED
    BY <1>1, <2>1, <2>2, <2>4, BallotStep
<1>5. QED
  BY <1>2, <1>3, <1>4

\* Every step keeps the invariant.
LEMMA ProxyNextInv ==
    ASSUME ProxyInv, [(Next /\ UNCHANGED proxyVars) \/ (ProxyNext /\ UNCHANGED vars)]_<<vars, proxyVars>>
    PROVE  ProxyInv'
<1>1. CASE Next /\ UNCHANGED proxyVars
  BY <1>1, PoolStep
<1>2. ASSUME NEW s \in Address, ProxyStep(s), UNCHANGED vars PROVE ProxyInv'
  <2>1. CASE \/ \E c \in LogicContracts : create(s, c)
             \/ \E from, to \in LogicContracts : register_migration(s, from, to)
    BY <1>2, <2>1, BindStep
  <2>2. CASE \E c \in LogicContracts \cup {ProxyAddress}, b \in BOOLEAN : propose_upgrade(s, c, b)
    BY <1>2, <2>2, ProposeStep
  <2>3. ASSUME NEW id \in DOMAIN upgrades, approve_upgrade(s, id) \/ execute_upgrade(s, id) \/ cancel_upgrade(s, id)
        PROVE  ProxyInv'
    <3>1. CASE ProxyInv'
      BY <3>1
    <3>2. ASSUME NEW A \in SUBSET upgrades[id].snapshot, apply_upgrade(id, A), upgrades[id].status = "Pending" PROVE ProxyInv'
      BY <1>2, <3>2, ApplyUpgradeStep
    <3>3. QED
      BY <1>2, <2>3, <3>1, <3>2, VoteStep
  <2>4. QED
    BY <1>2, <2>1, <2>2, <2>3 DEF ProxyStep
<1>3. CASE UNCHANGED <<vars, proxyVars>>
  <2>1. GovInv' /\ UNCHANGED <<admins, threshold, epoch, logic, generation, migrations, upgrades>>
    BY <1>3, PoolKept DEF ProxyInv, proxyVars
  <2>2. ProxyTypes' /\ UpgradeLineage'
    BY <2>1 DEF ProxyInv, ProxyTypes, UpgradeLineage, Executed
  <2>3. \A id \in DOMAIN upgrades : RowKnows(upgrades[id])'
    BY <2>1 DEF ProxyInv, RowKnows
  <2>4. QED
    BY <2>1, <2>2, <2>3 DEF ProxyInv
<1>4. QED
  BY <1>1, <1>2, <1>3 DEF ProxyNext

\* The invariant holds initially.
LEMMA ProxyInitInv == Init /\ ProxyInit => ProxyInv
<1> SUFFICES ASSUME Init, ProxyInit PROVE ProxyInv
  OBVIOUS
<1>1. DOMAIN upgrades = {} /\ logic = Unbound /\ generation = 0 /\ upgrades = [id \in {} |-> {}]
  BY DEF ProxyInit
<1>2. {} = 0 .. (0 - 1) /\ 0 \in Nat
  OBVIOUS
<1>3. ProxyTypes
  <2>1. \E n \in Nat : DOMAIN upgrades = 0 .. (n - 1)
    BY <1>1, <1>2
  <2>2. upgrades \in [DOMAIN upgrades -> UpgradeRow]
    BY <1>1
  <2>3. QED
    BY <1>1, <2>1, <2>2 DEF ProxyTypes
<1>4. UpgradeLineage
  <2>1. Executed = {}
    BY <1>1 DEF Executed
  <2>2. QED
    BY <1>1, <2>1, FS_EmptySet DEF UpgradeLineage
<1>5. QED
  BY <1>1, <1>3, <1>4, InitInv DEF ProxyInv

\* The executed upgrades form one chain up to the logic in force, for any
\* number of signers, contracts and proposals and whatever the pool's
\* governance does beside them.
THEOREM UpgradesFormLineage == ProxySpec => []UpgradeLineage
<1>1. ProxyInv => UpgradeLineage
  BY DEF ProxyInv
<1>2. QED
  BY <1>1, ProxyInitInv, ProxyNextInv, PTL DEF ProxySpec

\* The logic changes only by a proposal that waited its time, was made against
\* the logic it replaces, and is backed by enough of today's signers.
THEOREM UpgradesAreGuarded == ProxySpec => [][UpgradeGuarded]_<<vars, proxyVars>>
<1>1. ASSUME ProxyInv, [(Next /\ UNCHANGED proxyVars) \/ (ProxyNext /\ UNCHANGED vars)]_<<vars, proxyVars>>
      PROVE  UpgradeGuarded
  <2> SUFFICES ASSUME logic # Unbound, generation' # generation, UNCHANGED vars, ProxyNext
               PROVE  \E id \in DOMAIN upgrades :
                        LET u == upgrades'[id]
                        IN  /\ upgrades[id].status = "Pending" /\ u.status = "Executed"
                            /\ Quorum(u.approvals)
                            /\ ledger \in u.readyAt .. u.expiresAt
                            /\ u.logic = logic /\ u.new_logic = logic'
                            /\ u.breaking => <<logic, logic'>> \in migrations
    BY <1>1 DEF UpgradeGuarded, proxyVars
  <2>1. PICK s \in Address, id \in DOMAIN upgrades :
          approve_upgrade(s, id) \/ execute_upgrade(s, id) \/ cancel_upgrade(s, id)
    BY DEF ProxyNext, ProxyStep, create, register_migration, propose_upgrade
  <2>2. PICK A \in SUBSET upgrades[id].snapshot :
          /\ apply_upgrade(id, A) /\ Quorum(A) /\ upgrades[id].status = "Pending"
          /\ ledger \in upgrades[id].readyAt .. upgrades[id].expiresAt
    BY <1>1, <2>1, VoteStep
  <2>3. /\ upgrades'[id].status = "Executed" /\ upgrades'[id].approvals = A
        /\ upgrades'[id].logic = logic /\ upgrades'[id].new_logic = logic'
        /\ upgrades'[id].readyAt = upgrades[id].readyAt /\ upgrades'[id].expiresAt = upgrades[id].expiresAt
    BY <1>1, <2>2, ApplyUpgradeStep
  <2>4. upgrades'[id].breaking => <<logic, logic'>> \in migrations
    BY <1>1, <2>2, ApplyUpgradeStep
  <2>5. QED
    BY <2>2, <2>3, <2>4
<1>2. QED
  BY <1>1, ProxyInitInv, ProxyNextInv, PTL DEF ProxySpec

-----------------------------------------------------------------------------
(* The strategy.  Its books are proved from three facts: what a strategy     *)
(* earned is part of what it holds, the tokens cover the yield still to be   *)
(* harvested too (a harvest credits it without a token coming in from        *)
(* outside), and the candidate on file is the last proposal.                 *)

StrategyTypes ==
  /\ strategy \in Strategies \cup {NoStrategy}
  /\ exposure_cap \in Int /\ in_strategy \in Nat /\ out \in [Strategies -> Int]
  /\ {idle, owed, yield, total} \subseteq Int
  /\ holdings \in [Strategies -> Nat] /\ gains \in [Strategies -> Nat]

Booked ==
  /\ \A s \in Strategies : out[s] = IF s = strategy THEN in_strategy ELSE 0
  /\ in_strategy <= exposure_cap
  /\ strategy = NoStrategy => in_strategy = 0

GainsHeld == \A s \in Strategies : gains[s] <= holdings[s]

HoldingsCover == lossy \/ idle + SumFunction(holdings) >= owed + yield + SumFunction(gains)

CandidateKnown ==
  phase # "Idle" =>
    /\ candidate.to \in Strategies /\ candidate.cap \in Nat
    /\ candidate.to = lastProposal.to /\ candidate.cap = lastProposal.cap
    /\ candidate.readyAt = lastProposal.at + RotationDelay

RotationInv == StrategyTypes /\ Booked /\ GainsHeld /\ HoldingsCover /\ CandidateKnown

\* Floor0 is the saturating subtraction of the code.
LEMMA FloorAtZero == ASSUME NEW n \in Int PROVE Floor0(n) = IF n > 0 THEN n ELSE 0
<1>1. \E x \in {n, 0} : \A y \in {n, 0} : x >= y
  <2>1. CASE n >= 0
    BY <2>1
  <2>2. CASE n < 0
    BY <2>2
  <2>3. QED
    BY <2>1, <2>2
<1>2. Max({n, 0}) \in {n, 0} /\ \A y \in {n, 0} : Max({n, 0}) >= y
  BY <1>1 DEF Max
<1>3. QED
  BY <1>2 DEF Floor0

\* A call that moves tokens of one strategy, the pool's own and the amounts owed.
LEMMA TokensMove ==
    ASSUME StrategyTypes, GainsHeld, HoldingsCover, NEW s \in Strategies, NEW h \in Nat, NEW g \in Nat, g <= h,
           holdings' = [holdings EXCEPT ![s] = h], gains' = [gains EXCEPT ![s] = g],
           idle' \in Int, owed' \in Int, yield' \in Int,
           \/ lossy'
           \/ /\ lossy' = lossy
              /\ idle' - idle + h - holdings[s] >= owed' - owed + yield' - yield + g - gains[s]
    PROVE  /\ holdings' \in [Strategies -> Nat] /\ gains' \in [Strategies -> Nat]
           /\ GainsHeld' /\ HoldingsCover'
<1>1. holdings' \in [Strategies -> Nat] /\ gains' \in [Strategies -> Nat]
  BY DEF StrategyTypes
<1>2. GainsHeld'
  BY DEF StrategyTypes, GainsHeld
<1>3. holdings \in [Strategies -> Int] /\ gains \in [Strategies -> Int] /\ IsFiniteSet(Strategies)
  BY RotationAssumption DEF StrategyTypes
<1>4. /\ SumFunction(holdings) \in Int
      /\ SumFunction(holdings') = SumFunction(holdings) - holdings[s] + h
  <2>1. /\ holdings' \in [Strategies -> Int] /\ holdings'[s] = h
        /\ \A x \in Strategies \ {s} : holdings'[x] = holdings[x]
    BY <1>3
  <2>2. /\ SumFunction(holdings) \in Int
        /\ SumFunction(holdings') = SumFunction(holdings) - holdings[s] + holdings'[s]
    BY ONLY <1>3, <2>1, s \in Strategies, SumUpdate, Zenon
  <2>3. QED
    BY <2>1, <2>2
<1>5. /\ SumFunction(gains) \in Int
      /\ SumFunction(gains') = SumFunction(gains) - gains[s] + g
  <2>1. /\ gains' \in [Strategies -> Int] /\ gains'[s] = g
        /\ \A x \in Strategies \ {s} : gains'[x] = gains[x]
    BY <1>3
  <2>2. /\ SumFunction(gains) \in Int
        /\ SumFunction(gains') = SumFunction(gains) - gains[s] + gains'[s]
    BY ONLY <1>3, <2>1, s \in Strategies, SumUpdate, Zenon
  <2>3. QED
    BY <2>1, <2>2
<1>6. HoldingsCover'
  <2>1. CASE lossy'
    BY <2>1 DEF HoldingsCover
  <2>2. CASE /\ lossy' = lossy
             /\ idle' - idle + h - holdings[s] >= owed' - owed + yield' - yield + g - gains[s]
    <3>1. CASE lossy
      BY <2>2, <3>1 DEF HoldingsCover
    <3>2. CASE ~lossy
      <4>2. idle + SumFunction(holdings) >= owed + yield + SumFunction(gains)
        BY <3>2 DEF HoldingsCover
      <4>3. idle \in Int /\ owed \in Int /\ yield \in Int /\ holdings[s] \in Int /\ gains[s] \in Int
        BY DEF StrategyTypes
      <4>4. idle' + SumFunction(holdings') >= owed' + yield' + SumFunction(gains')
        BY <1>4, <1>5, <2>2, <4>2, <4>3
      <4>5. QED
        BY <4>4 DEF HoldingsCover
    <3>3. QED
      BY <3>1, <3>2
  <2>3. QED
    BY <2>1, <2>2
<1>7. QED
  BY <1>1, <1>2, <1>6

\* A call that books n as the principal the strategy in use has.
LEMMA BooksMove ==
    ASSUME StrategyTypes, Booked, strategy # NoStrategy, UNCHANGED <<strategy, exposure_cap>>,
           NEW n \in Nat, n <= exposure_cap, in_strategy' = n, out' = [out EXCEPT ![strategy] = n]
    PROVE  /\ Booked' /\ in_strategy' \in Nat /\ out' \in [Strategies -> Int]
           /\ strategy' \in Strategies \cup {NoStrategy} /\ exposure_cap' \in Int
BY DEF StrategyTypes, Booked

\* The parts that a call which leaves the tokens, or the rotation, alone keeps.
LEMMA TokensKept ==
    ASSUME RotationInv, UNCHANGED <<tokens, yield, total>>
    PROVE  /\ {idle, owed, yield, total}' \subseteq Int
           /\ holdings' \in [Strategies -> Nat] /\ gains' \in [Strategies -> Nat]
           /\ GainsHeld' /\ HoldingsCover'
BY DEF RotationInv, StrategyTypes, GainsHeld, HoldingsCover, tokens

\* The same of the books.
LEMMA BooksKept ==
    ASSUME RotationInv, UNCHANGED <<strategy, exposure_cap, in_strategy, out>>
    PROVE  /\ Booked' /\ in_strategy' \in Nat /\ out' \in [Strategies -> Int]
           /\ strategy' \in Strategies \cup {NoStrategy} /\ exposure_cap' \in Int
BY DEF RotationInv, StrategyTypes, Booked

\* The same of the candidate; ending the rotation forgets it.
LEMMA CandidateKept ==
    ASSUME RotationInv,
           (UNCHANGED <<candidate, lastProposal>> /\ phase # "Idle") \/ UNCHANGED rotation \/ phase' = "Idle"
    PROVE  CandidateKnown'
BY DEF RotationInv, CandidateKnown, rotation

\* A proposal puts the candidate on file.
LEMMA ProposeStrategyStep ==
    ASSUME RotationInv, NEW s \in Strategies, NEW cap \in Int, Propose(s, cap), UNCHANGED <<tokens, books>>
    PROVE  RotationInv'
<1>1. CandidateKnown'
  <2>1. PICK c : c = candidate' /\ c = [to |-> s, cap |-> cap, readyAt |-> sequence + RotationDelay]
    BY DEF Propose
  <2>2. PICK l : l = lastProposal' /\ l = [to |-> s, cap |-> cap, at |-> sequence]
    BY DEF Propose
  <2>3. cap \in Nat /\ s \in Strategies
    BY DEF Propose
  <2>4. c.to = s /\ c.cap = cap /\ c.readyAt = sequence + RotationDelay /\ l.to = s /\ l.cap = cap /\ l.at = sequence
    BY <2>1, <2>2
  <2>5. QED
    BY <2>1, <2>2, <2>3, <2>4 DEF CandidateKnown
<1>2. UNCHANGED <<strategy, exposure_cap, in_strategy, out>> /\ UNCHANGED <<tokens, yield, total>>
  BY DEF Propose, books
<1>3. QED
  BY <1>1, <1>2, TokensKept, BooksKept DEF RotationInv, StrategyTypes

\* A strategy comes into use with no principal deployed.
LEMMA StrategyInUse ==
    ASSUME RotationInv, in_strategy = 0, UNCHANGED <<tokens, books>>, phase' = "Idle",
           strategy' \in Strategies, exposure_cap' \in Nat
    PROVE  RotationInv'
<1>1. \A s \in Strategies : out[s] = 0
  BY DEF RotationInv, Booked
<1>2. /\ Booked' /\ in_strategy' \in Nat /\ out' \in [Strategies -> Int]
      /\ strategy' \in Strategies \cup {NoStrategy} /\ exposure_cap' \in Int
  BY <1>1 DEF RotationInv, StrategyTypes, Booked, books
<1>3. UNCHANGED <<tokens, yield, total>>
  BY DEF books
<1>4. QED
  BY <1>2, <1>3, TokensKept, CandidateKept DEF RotationInv, StrategyTypes

\* Tokens come back from the strategy, and n is what stays booked.
LEMMA RedeemStep ==
    ASSUME RotationInv, strategy # NoStrategy, UNCHANGED <<strategy, exposure_cap, total, yield>>,
           NEW recalled \in Nat, recalled <= holdings[strategy], Redeem(recalled),
           NEW n \in Nat, n <= in_strategy, in_strategy' = n, out' = [out EXCEPT ![strategy] = n],
           CandidateKnown'
    PROVE  RotationInv'
<1>1. PICK s \in Strategies : s = strategy
  BY DEF RotationInv, StrategyTypes
<1>2. holdings[s] \in Nat /\ gains[s] \in Nat /\ gains[s] <= holdings[s]
  BY <1>1 DEF RotationInv, StrategyTypes, GainsHeld
<1>3. PICK h \in Nat : h = holdings[s] - recalled
  BY <1>1, <1>2
<1>4. PICK g \in Nat : g = Min({gains[s], h}) /\ g <= gains[s] /\ g <= h
  BY <1>2, <1>3, MinOfTwo, Zenon
<1>5. holdings' = [holdings EXCEPT ![s] = h] /\ gains' = [gains EXCEPT ![s] = g]
  <2>1. /\ holdings' = [holdings EXCEPT ![strategy] = holdings[strategy] - recalled]
        /\ gains' = [gains EXCEPT ![strategy] = Min({gains[strategy], holdings[strategy] - recalled})]
    BY DEF Redeem
  <2>2. QED
    BY <1>1, <1>3, <1>4, <2>1
<1>6. idle' = idle + recalled /\ owed' = owed /\ lossy' = lossy /\ yield' = yield /\ total' = total
  BY DEF Redeem
<1>7. {idle, owed, yield, total} \subseteq Int /\ {idle, owed, yield, total}' \subseteq Int
  BY <1>6 DEF RotationInv, StrategyTypes
<1>8. idle' - idle + h - holdings[s] >= owed' - owed + yield' - yield + g - gains[s]
  <2>1. idle \in Int /\ owed \in Int /\ yield \in Int
    BY <1>7
  <2>2. idle' - idle = recalled /\ owed' - owed = 0 /\ yield' - yield = 0 /\ h - holdings[s] = -recalled
    BY <1>2, <1>3, <1>6, <2>1
  <2>3. QED
    BY <1>2, <1>3, <1>4, <1>6, <2>1, <2>2
<1>9. /\ holdings' \in [Strategies -> Nat] /\ gains' \in [Strategies -> Nat]
      /\ GainsHeld' /\ HoldingsCover'
  <2>1. StrategyTypes /\ GainsHeld /\ HoldingsCover /\ idle' \in Int /\ owed' \in Int /\ yield' \in Int
    BY <1>7 DEF RotationInv
  <2>2. QED
    BY ONLY <1>4, <1>5, <1>6, <1>8, <2>1, s \in Strategies, h \in Nat, g \in Nat, TokensMove
<1>10. n <= exposure_cap
  BY DEF RotationInv, StrategyTypes, Booked
<1>11. /\ Booked' /\ in_strategy' \in Nat /\ out' \in [Strategies -> Int]
       /\ strategy' \in Strategies \cup {NoStrategy} /\ exposure_cap' \in Int
  BY <1>10, BooksMove DEF RotationInv
<1>12. QED
  BY <1>7, <1>9, <1>11 DEF RotationInv, StrategyTypes

\* What recall_from_strategy and drain_strategy share.
LEMMA RecallStep ==
    ASSUME RotationInv, NEW amount \in Nat, internal_recall_from_strategy(amount),
           UNCHANGED <<strategy, exposure_cap>>, CandidateKnown'
    PROVE  RotationInv'
<1>1. strategy \in Strategies /\ strategy # NoStrategy /\ holdings[strategy] \in Nat
  BY DEF RotationInv, StrategyTypes, internal_recall_from_strategy
<1>2. PICK m \in Nat : m = Min({amount, holdings[strategy]}) /\ m <= holdings[strategy]
  BY <1>1, MinOfTwo, Zenon
<1>3. PICK recalled \in 0 .. m :
        /\ Redeem(recalled) /\ in_strategy' = Floor0(in_strategy - recalled)
        /\ out' = [out EXCEPT ![strategy] = Floor0(out[strategy] - recalled)]
  <2>1. PICK recalled \in 0 .. Min({amount, holdings[strategy]}) :
          /\ Redeem(recalled) /\ in_strategy' = AfterRecall(amount, recalled)
          /\ out' = [out EXCEPT ![strategy] = Floor0(out[strategy] - recalled)]
    BY DEF internal_recall_from_strategy
  <2>2. QED
    BY <1>2, <2>1 DEF AfterRecall
<1>4. in_strategy \in Nat /\ out[strategy] = in_strategy /\ recalled \in Nat /\ recalled <= holdings[strategy]
  BY <1>1, <1>2 DEF RotationInv, StrategyTypes, Booked
<1>5. PICK n \in Nat : n = Floor0(in_strategy - recalled) /\ n <= in_strategy
  BY <1>4, FloorAtZero
<1>6. in_strategy' = n /\ out' = [out EXCEPT ![strategy] = n] /\ UNCHANGED <<total, yield>>
  BY <1>3, <1>4, <1>5 DEF internal_recall_from_strategy
<1>7. QED
  BY <1>1, <1>3, <1>4, <1>5, <1>6, RedeemStep

\* A harvest credits at most the gains that came in, and books at most as much
\* as lost.
LEMMA HarvestStep ==
    ASSUME RotationInv, internal_harvest_strategy, UNCHANGED <<strategy, exposure_cap>>, CandidateKnown'
    PROVE  RotationInv'
<1>1. PICK s \in Strategies : s = strategy /\ s # NoStrategy
  BY DEF RotationInv, StrategyTypes, internal_harvest_strategy
<1>2. holdings[s] \in Nat /\ gains[s] \in Nat /\ gains[s] <= holdings[s] /\ in_strategy \in Nat /\ out[s] = in_strategy
  BY <1>1 DEF RotationInv, StrategyTypes, GainsHeld, Booked
<1>3. PICK moved \in 0 .. gains[s], claim \in {0, MaxTokens}, hit \in {0, MaxTokens} :
        /\ idle' = idle + moved
        /\ holdings' = [holdings EXCEPT ![s] = holdings[s] - moved]
        /\ gains' = [gains EXCEPT ![s] = gains[s] - moved]
        /\ yield' = yield + verified_yield(claim, moved, -moved)
        /\ in_strategy' = Floor0(in_strategy - verified_loss(hit, -moved))
        /\ out' = [out EXCEPT ![s] = Floor0(out[s] - verified_loss(hit, -moved))]
  BY <1>1 DEF internal_harvest_strategy
<1>4. moved \in Nat /\ moved <= gains[s] /\ claim \in Nat /\ hit \in Nat
  BY <1>2, RotationAssumption
<1>5. PICK y \in Nat : y = verified_yield(claim, moved, -moved) /\ y <= moved
  <2>1. Floor0(moved) = moved /\ Floor0(-moved) = 0 /\ moved + 0 = moved
    BY <1>4, FloorAtZero
  <2>2. verified_yield(claim, moved, -moved) = Min({claim, moved})
    BY <2>1 DEF verified_yield
  <2>3. QED
    BY <1>4, <2>2, MinOfTwo, Zenon
<1>6. PICK d \in Nat : d = verified_loss(hit, -moved)
  <2>1. Floor0(-(-moved)) = moved
    <3>1. -(-moved) = moved /\ moved \in Int
      BY <1>4
    <3>2. Floor0(moved) = moved
      BY <1>4, FloorAtZero
    <3>3. QED
      BY <3>1, <3>2
  <2>2. verified_loss(hit, -moved) = Min({hit, moved})
    BY <2>1 DEF verified_loss
  <2>3. QED
    BY <1>4, <2>2, MinOfTwo, Zenon
<1>7. PICK n \in Nat : n = Floor0(in_strategy - d) /\ n <= in_strategy
  BY <1>2, FloorAtZero
<1>8. PICK h \in Nat, g \in Nat : h = holdings[s] - moved /\ g = gains[s] - moved /\ g <= h
  BY <1>2, <1>4
<1>9. /\ idle' = idle + moved /\ yield' = yield + y /\ UNCHANGED <<owed, lossy, total>>
      /\ holdings' = [holdings EXCEPT ![s] = h] /\ gains' = [gains EXCEPT ![s] = g]
  BY <1>3, <1>5, <1>8 DEF internal_harvest_strategy
<1>10. in_strategy' = n /\ out' = [out EXCEPT ![strategy] = n]
  BY <1>1, <1>2, <1>3, <1>6, <1>7
<1>11. {idle, owed, yield, total} \subseteq Int /\ {idle, owed, yield, total}' \subseteq Int
  BY <1>4, <1>9 DEF RotationInv, StrategyTypes
<1>12. idle' - idle + h - holdings[s] >= owed' - owed + yield' - yield + g - gains[s]
  BY <1>2, <1>4, <1>5, <1>8, <1>9, <1>11
<1>13. /\ holdings' \in [Strategies -> Nat] /\ gains' \in [Strategies -> Nat]
       /\ GainsHeld' /\ HoldingsCover'
  BY <1>8, <1>9, <1>11, <1>12, TokensMove DEF RotationInv
<1>14. n <= exposure_cap
  BY <1>7 DEF RotationInv, StrategyTypes, Booked
<1>15. /\ Booked' /\ in_strategy' \in Nat /\ out' \in [Strategies -> Int]
       /\ strategy' \in Strategies \cup {NoStrategy} /\ exposure_cap' \in Int
  BY <1>1, <1>10, <1>14, BooksMove DEF RotationInv
<1>16. QED
  BY <1>11, <1>13, <1>15 DEF RotationInv, StrategyTypes

\* Principal is sent to the strategy.
LEMMA DeployStep ==
    ASSUME RotationInv, NEW amount \in Nat, deploy_to_strategy(amount)
    PROVE  RotationInv'
<1>1. PICK s \in Strategies : s = strategy /\ s # NoStrategy
  BY DEF RotationInv, StrategyTypes, deploy_to_strategy
<1>2. holdings[s] \in Nat /\ gains[s] \in Nat /\ gains[s] <= holdings[s] /\ in_strategy \in Nat /\ out[s] = in_strategy
  BY <1>1 DEF RotationInv, StrategyTypes, GainsHeld, Booked
<1>3. PICK h \in Nat, n \in Nat : h = holdings[s] + amount /\ n = in_strategy + amount
  BY <1>2
<1>4. PICK g \in Nat : g = gains[s] /\ g <= h
  BY <1>2, <1>3
<1>5. /\ n <= exposure_cap /\ in_strategy' = n /\ out' = [out EXCEPT ![strategy] = n]
      /\ idle' = idle - amount /\ holdings' = [holdings EXCEPT ![s] = h] /\ gains' = gains
      /\ UNCHANGED <<rotation, owed, lossy, total, yield>>
  BY <1>1, <1>2, <1>3 DEF deploy_to_strategy
<1>6. gains' = [gains EXCEPT ![s] = g]
  BY <1>4, <1>5 DEF RotationInv, StrategyTypes
<1>7. {idle, owed, yield, total} \subseteq Int /\ {idle, owed, yield, total}' \subseteq Int
  BY <1>5 DEF RotationInv, StrategyTypes
<1>8. idle' - idle + h - holdings[s] >= owed' - owed + yield' - yield + g - gains[s]
  <2>1. idle \in Int /\ owed \in Int /\ yield \in Int
    BY <1>7
  <2>2. QED
    BY <1>2, <1>3, <1>4, <1>5, <2>1
<1>9. /\ holdings' \in [Strategies -> Nat] /\ gains' \in [Strategies -> Nat]
      /\ GainsHeld' /\ HoldingsCover'
  <2>1. /\ StrategyTypes /\ GainsHeld /\ HoldingsCover /\ idle' \in Int /\ owed' \in Int /\ yield' \in Int
        /\ lossy' = lossy
    BY <1>5, <1>7 DEF RotationInv
  <2>2. QED
    BY ONLY <1>4, <1>5, <1>6, <1>8, <2>1, s \in Strategies, h \in Nat, g \in Nat, TokensMove
<1>10. /\ Booked' /\ in_strategy' \in Nat /\ out' \in [Strategies -> Int]
       /\ strategy' \in Strategies \cup {NoStrategy} /\ exposure_cap' \in Int
  BY <1>1, <1>5, BooksMove DEF RotationInv, rotation
<1>11. QED
  BY <1>5, <1>7, <1>9, <1>10, CandidateKept DEF RotationInv, StrategyTypes

\* What the depositors, the strategies' fortunes and time do.
LEMMA EnvironmentStep ==
    ASSUME RotationInv,
           \/ Depositing \/ Withdrawing \/ PayingYield \/ LedgerCloses
           \/ \E s \in Strategies : Earning(s) \/ Losing(s)
    PROVE  RotationInv'
<1>1. UNCHANGED rotation /\ UNCHANGED <<in_strategy, out>>
  BY DEF Depositing, Withdrawing, PayingYield, LedgerCloses, Earning, Losing, books
<1>2. CandidateKnown' /\ UNCHANGED <<strategy, exposure_cap, in_strategy, out>>
  BY <1>1, CandidateKept DEF rotation
<1>3. SUFFICES /\ {idle, owed, yield, total}' \subseteq Int
               /\ holdings' \in [Strategies -> Nat] /\ gains' \in [Strategies -> Nat]
               /\ GainsHeld' /\ HoldingsCover'
  BY <1>2, BooksKept DEF RotationInv, StrategyTypes
<1>4. CASE LedgerCloses
  <2>1. UNCHANGED <<tokens, yield, total>>
    BY <1>4 DEF LedgerCloses, books
  <2>2. QED
    BY <2>1, TokensKept
<1>5. CASE Depositing \/ Withdrawing \/ PayingYield
  <2>1. /\ UNCHANGED <<holdings, gains, lossy>>
        /\ \/ total' = total + 1 /\ owed' = owed + 1 /\ idle' = idle + 1 /\ yield' = yield
           \/ total' = total /\ owed' = owed - 1 /\ idle' = idle - 1 /\ yield' = yield
           \/ total' = total /\ owed' = owed /\ idle' = idle - 1 /\ yield' = yield - 1
    BY <1>5 DEF Depositing, Withdrawing, PayingYield, books
  <2>2. idle \in Int /\ owed \in Int /\ yield \in Int /\ total \in Int
    BY DEF RotationInv, StrategyTypes
  <2>3. {idle, owed, yield, total}' \subseteq Int
    BY <2>1, <2>2
  <2>4. PICK x \in Nat, y \in Nat : x = SumFunction(holdings) /\ y = SumFunction(gains)
    BY SumNatural, RotationAssumption, Zenon DEF RotationInv, StrategyTypes
  <2>5. HoldingsCover'
    <3>1. CASE lossy
      BY <2>1, <3>1 DEF HoldingsCover
    <3>2. CASE ~lossy
      <4>1. idle + x >= owed + yield + y
        BY <2>4, <3>2 DEF RotationInv, HoldingsCover
      <4>2. idle' + x >= owed' + yield' + y
        BY <2>1, <2>2, <4>1
      <4>3. QED
        BY <2>1, <2>4, <4>2 DEF HoldingsCover
    <3>3. QED
      BY <3>1, <3>2
  <2>6. QED
    BY <2>1, <2>3, <2>5 DEF RotationInv, StrategyTypes, GainsHeld
<1>6. CASE \E s \in Strategies : Earning(s) \/ Losing(s)
  <2>1. PICK s \in Strategies : Earning(s) \/ Losing(s)
    BY <1>6
  <2>2. holdings[s] \in Nat /\ gains[s] \in Nat /\ gains[s] <= holdings[s] /\ holdings[s] > 0
    BY <2>1 DEF RotationInv, StrategyTypes, GainsHeld, Earning, Losing
  <2>3. UNCHANGED <<idle, owed, yield, total>>
    BY <2>1 DEF Earning, Losing, books
  <2>4. PICK h \in Nat, g \in Nat :
          /\ g <= h /\ holdings' = [holdings EXCEPT ![s] = h] /\ gains' = [gains EXCEPT ![s] = g]
          /\ lossy' = TRUE \/ (lossy' = lossy /\ h = holdings[s] + 1 /\ g = gains[s] + 1)
    <3>1. CASE Earning(s)
      <4>1. PICK h \in Nat, g \in Nat : h = holdings[s] + 1 /\ g = gains[s] + 1 /\ g <= h
        BY <2>2
      <4>2. /\ holdings' = [holdings EXCEPT ![s] = h] /\ gains' = [gains EXCEPT ![s] = g]
            /\ lossy' = lossy
        BY <3>1, <4>1 DEF Earning
      <4>3. QED
        BY <4>1, <4>2
    <3>2. CASE Losing(s)
      <4>1. PICK g \in Nat : g = Floor0(gains[s] - 1) /\ g <= holdings[s] - 1
        BY <2>2, FloorAtZero
      <4>2. PICK h \in Nat : h = holdings[s] - 1
        BY <2>2
      <4>3. /\ holdings' = [holdings EXCEPT ![s] = h] /\ gains' = [gains EXCEPT ![s] = g]
            /\ lossy' = TRUE
        BY <3>2, <4>1, <4>2 DEF Losing
      <4>4. g <= h
        BY <4>1, <4>2
      <4>5. QED
        BY <4>3, <4>4
    <3>3. QED
      BY <2>1, <3>1, <3>2
  <2>5. /\ StrategyTypes /\ GainsHeld /\ HoldingsCover /\ idle' \in Int /\ owed' \in Int /\ yield' \in Int
        /\ idle \in Int /\ owed \in Int /\ yield \in Int /\ total' \in Int
    BY <2>3 DEF RotationInv, StrategyTypes
  <2>6. \/ lossy'
        \/ /\ lossy' = lossy
           /\ idle' - idle + h - holdings[s] >= owed' - owed + yield' - yield + g - gains[s]
    <3>1. CASE lossy' = TRUE
      BY <3>1
    <3>2. CASE lossy' = lossy /\ h = holdings[s] + 1 /\ g = gains[s] + 1
      <4>1. idle' - idle + h - holdings[s] = 1 /\ owed' - owed + yield' - yield + g - gains[s] = 1
        BY <2>2, <2>3, <2>5, <3>2
      <4>2. QED
        BY <3>2, <4>1
    <3>3. QED
      BY <2>4, <3>1, <3>2
  <2>7. /\ holdings' \in [Strategies -> Nat] /\ gains' \in [Strategies -> Nat]
        /\ GainsHeld' /\ HoldingsCover'
    BY ONLY <2>4, <2>5, <2>6, s \in Strategies, h \in Nat, g \in Nat, TokensMove
  <2>8. QED
    BY <2>5, <2>7
<1>7. QED
  BY <1>4, <1>5, <1>6

\* Every step keeps the invariant.
LEMMA RotationNextInv == RotationInv /\ [RotationNext]_rotationVars => RotationInv'
<1> SUFFICES ASSUME RotationInv, [RotationNext]_rotationVars PROVE RotationInv'
  OBVIOUS
<1>1. CASE UNCHANGED rotationVars
  <2>1. UNCHANGED <<tokens, yield, total>> /\ UNCHANGED <<strategy, exposure_cap, in_strategy, out>> /\ UNCHANGED rotation
    BY <1>1 DEF rotationVars, tokens, rotation
  <2>2. QED
    BY <2>1, TokensKept, BooksKept, CandidateKept DEF RotationInv, StrategyTypes
<1>2. ASSUME NEW s \in Strategies, set_strategy(s) \/ \E cap \in ExposureCaps : propose_strategy(s, cap)
      PROVE  RotationInv'
  <2>1. Unlimited \in Nat /\ ExposureCaps \subseteq Int
    BY RotationAssumption DEF Unlimited
  <2>2. UNCHANGED <<tokens, books>>
    BY <1>2 DEF set_strategy, propose_strategy
  <2>3. CASE \E cap \in Int : Propose(s, cap)
    BY <2>2, <2>3, ProposeStrategyStep
  <2>4. CASE strategy = NoStrategy /\ strategy' = s /\ exposure_cap' = Unlimited /\ phase' = "Idle"
    <3>1. in_strategy = 0
      BY <2>4 DEF RotationInv, Booked
    <3>2. QED
      BY <2>1, <2>2, <2>4, <3>1, StrategyInUse
  <2>5. QED
    BY <1>2, <2>1, <2>3, <2>4 DEF set_strategy, propose_strategy
<1>3. CASE activate_strategy
  <2>1. /\ candidate.to \in Strategies /\ candidate.cap \in Nat /\ in_strategy = 0
        /\ strategy' = candidate.to /\ exposure_cap' = candidate.cap /\ phase' = "Idle"
        /\ UNCHANGED <<tokens, books>>
    BY <1>3 DEF activate_strategy, MayActivate, RotationInv, CandidateKnown
  <2>2. QED
    BY <2>1, StrategyInUse
<1>4. CASE validate_strategy \/ cancel_strategy_rotation
  <2>1. /\ UNCHANGED <<tokens, yield, total>> /\ UNCHANGED <<strategy, exposure_cap, in_strategy, out>>
        /\ (UNCHANGED <<candidate, lastProposal>> /\ phase # "Idle") \/ phase' = "Idle"
    BY <1>4 DEF validate_strategy, cancel_strategy_rotation, books
  <2>2. QED
    BY <2>1, TokensKept, BooksKept, CandidateKept DEF RotationInv, StrategyTypes
<1>5. CASE reconcile_strategy
  <2>1. CandidateKnown' /\ UNCHANGED <<strategy, exposure_cap>>
    BY <1>5, CandidateKept DEF reconcile_strategy
  <2>2. CASE internal_harvest_strategy
    BY <2>1, <2>2, HarvestStep
  <2>3. CASE UNCHANGED <<tokens, books>>
    <3>1. UNCHANGED <<tokens, yield, total>> /\ UNCHANGED <<strategy, exposure_cap, in_strategy, out>>
      BY <2>1, <2>3 DEF books
    <3>2. QED
      BY <2>1, <3>1, TokensKept, BooksKept DEF RotationInv, StrategyTypes
  <2>4. QED
    BY <1>5, <2>2, <2>3 DEF reconcile_strategy
<1>6. ASSUME NEW amount \in 1 .. MaxTokens, recall_from_strategy(amount) \/ drain_strategy(amount)
      PROVE  RotationInv'
  <2>1. amount \in Nat
    BY RotationAssumption
  <2>2. CandidateKnown' /\ UNCHANGED <<strategy, exposure_cap>>
    BY <1>6, CandidateKept DEF recall_from_strategy, drain_strategy, rotation
  <2>3. QED
    BY <1>6, <2>1, <2>2, RecallStep DEF recall_from_strategy, drain_strategy
<1>7. ASSUME NEW amount \in 1 .. MaxTokens, deploy_to_strategy(amount) PROVE RotationInv'
  BY <1>7, DeployStep, RotationAssumption
<1>8. CASE harvest_strategy
  <2>1. CandidateKnown' /\ UNCHANGED <<strategy, exposure_cap>>
    BY <1>8, CandidateKept DEF harvest_strategy, rotation
  <2>2. QED
    BY <1>8, <2>1, HarvestStep DEF harvest_strategy
<1>9. CASE emergency_recall_strategy
  <2>1. /\ strategy # NoStrategy /\ CandidateKnown' /\ UNCHANGED <<strategy, exposure_cap, total, yield>>
        /\ in_strategy' = 0 /\ out' = [out EXCEPT ![strategy] = 0]
    BY <1>9, CandidateKept DEF emergency_recall_strategy, rotation
  <2>2. holdings[strategy] \in Nat /\ 0 \in Nat /\ 0 <= in_strategy
    BY <2>1 DEF RotationInv, StrategyTypes
  <2>3. PICK recalled \in Nat : recalled <= holdings[strategy] /\ Redeem(recalled)
    BY <1>9, <2>2 DEF emergency_recall_strategy
  <2>4. QED
    BY <2>1, <2>2, <2>3, RedeemStep
<1>10. QED
  BY <1>1, <1>2, <1>3, <1>4, <1>5, <1>6, <1>7, <1>8, <1>9, EnvironmentStep DEF RotationNext

\* The invariant holds initially.
LEMMA RotationInitInv == RotationInit => RotationInv
<1> SUFFICES ASSUME RotationInit PROVE RotationInv
  OBVIOUS
<1>1. Unlimited \in Nat /\ IsFiniteSet(Strategies)
  BY RotationAssumption DEF Unlimited
<1>2. PICK zero \in [Strategies -> Nat] : zero = [s \in Strategies |-> 0]
  OBVIOUS
<1>3. SumFunction(zero) = 0
  BY <1>1, <1>2, SumNatural
<1>4. holdings = zero /\ gains = zero /\ out = zero /\ \A s \in Strategies : zero[s] = 0
  BY <1>2 DEF RotationInit
<1>5. StrategyTypes
  BY <1>1, <1>4 DEF RotationInit, StrategyTypes
<1>6. Booked /\ GainsHeld /\ CandidateKnown
  BY <1>1, <1>4 DEF RotationInit, Booked, GainsHeld, CandidateKnown
<1>7. HoldingsCover
  BY <1>3, <1>4 DEF RotationInit, HoldingsCover
<1>8. QED
  BY <1>5, <1>6, <1>7 DEF RotationInv

\* For any strategies, caps, reserves and delays: the principal booked as
\* deployed is what the strategy in use was sent, and until a strategy loses
\* tokens what the pool owes is covered, whatever the strategies report.
THEOREM StrategyStaysAccounted == RotationSpec => []StrategyAccounted
<1>1. RotationInv => StrategyAccounted
  <2> SUFFICES ASSUME RotationInv, ~lossy PROVE AllTokens >= owed + yield
    BY DEF RotationInv, Booked, StrategyAccounted
  <2>1. PICK x \in Nat, y \in Nat : x = SumFunction(holdings) /\ y = SumFunction(gains)
    BY SumNatural, RotationAssumption, Zenon DEF RotationInv, StrategyTypes
  <2>2. idle \in Int /\ owed \in Int /\ yield \in Int /\ idle + x >= owed + yield + y
    BY <2>1 DEF RotationInv, StrategyTypes, HoldingsCover
  <2>3. idle + x >= owed + yield
    BY <2>2
  <2>4. QED
    BY <2>1, <2>3 DEF AllTokens
<1>2. QED
  BY <1>1, RotationInitInv, RotationNextInv, PTL DEF RotationSpec

\* The strategy in use is replaced only by the last proposal and after its delay.
THEOREM RotationsAreGuarded == RotationSpec => [][RotationGuarded]_rotationVars
<1>1. ASSUME RotationInv, [RotationNext]_rotationVars PROVE RotationGuarded
  <2> SUFFICES ASSUME strategy # NoStrategy, strategy' # strategy, RotationNext
               PROVE  /\ strategy' = lastProposal.to /\ exposure_cap' = lastProposal.cap
                      /\ sequence >= lastProposal.at + RotationDelay
    BY <1>1 DEF RotationGuarded, rotationVars
  <2>1. activate_strategy
    BY DEF RotationNext, set_strategy, propose_strategy, Propose, validate_strategy, reconcile_strategy,
           cancel_strategy_rotation, deploy_to_strategy, recall_from_strategy, drain_strategy,
           harvest_strategy, emergency_recall_strategy, Depositing, Withdrawing, PayingYield,
           LedgerCloses, Earning, Losing, rotation
  <2>2. QED
    BY <1>1, <2>1 DEF activate_strategy, MayActivate, RotationInv, CandidateKnown
<1>2. QED
  BY <1>1, RotationInitInv, RotationNextInv, PTL DEF RotationSpec

\* The pool's code and its strategy are replaced only as agreed on, in every
\* behaviour of the pool with its proxy beside any behaviour of the strategy.
THEOREM ReplacementsAreGuarded == ProxySpec /\ RotationSpec => ReplacementsGuarded
<1>1. [][UpgradeGuarded]_<<vars, proxyVars>> /\ [][RotationGuarded]_rotationVars
      => [][UpgradeGuarded /\ RotationGuarded]_mcVars
  <2>1. [UpgradeGuarded]_<<vars, proxyVars>> /\ [RotationGuarded]_rotationVars
        => [UpgradeGuarded /\ RotationGuarded]_mcVars
    BY DEF UpgradeGuarded, RotationGuarded, proxyVars, rotationVars, rotation, mcVars
  <2>2. QED
    BY <2>1, PTL
<1>2. QED
  BY <1>1, UpgradesAreGuarded, RotationsAreGuarded, PTL DEF ReplacementsGuarded

-----------------------------------------------------------------------------
(* The governed contracts as the run composes them.                        *)

\* What the run lets happen beside the proxy is a step of the pool.
LEMMA ElectingIsAStep ==
    ASSUME ElectoratePayloads \subseteq Payloads, NEW s \in Address, Electing(s)
    PROVE  Next
<1>1. SignerStep(s)
  BY DEF Electing, SignerStep
<1>2. QED
  BY <1>1 DEF Next

\* A step of the composition is a step of each contract, or leaves it as it is.
LEMMA StepsOfContracts ==
    ASSUME ElectoratePayloads \subseteq Payloads, [MCNext]_mcVars
    PROVE  /\ [Next]_vars
           /\ [(Next /\ UNCHANGED proxyVars) \/ (ProxyNext /\ UNCHANGED vars)]_<<vars, proxyVars>>
           /\ [RotationNext]_rotationVars
<1>1. CASE UNCHANGED mcVars
  BY <1>1 DEF mcVars
<1>2. CASE MCNext
  <2>1. /\ Next \/ UNCHANGED vars
        /\ (Next /\ UNCHANGED proxyVars) \/ (ProxyNext /\ UNCHANGED vars) \/ UNCHANGED <<vars, proxyVars>>
        /\ RotationNext \/ UNCHANGED rotationVars
    <3>1. CASE scenario \in {"electorate", "pool"}
      BY <1>2, <3>1 DEF MCNext
    <3>2. CASE scenario = "proxy"
      <4>1. (\E s \in Address : Electing(s)) => Next
        BY ElectingIsAStep
      <4>2. Close => Next
        BY DEF Next
      <4>3. QED
        BY <1>2, <3>2, <4>1, <4>2 DEF MCNext
    <3>3. CASE scenario = "strategy"
      BY <1>2, <3>3 DEF MCNext
    <3>4. QED
      BY <1>2, <3>1, <3>2, <3>3 DEF MCNext
  <2>2. QED
    BY <2>1
<1>3. QED
  BY <1>1, <1>2

\* A behaviour of the composition is one of each of the contracts.
LEMMA EachContractRuns ==
    ASSUME ElectoratePayloads \subseteq Payloads
    PROVE  MCSpec => Spec /\ ProxySpec /\ RotationSpec
<1>1. MCInit => Init /\ ProxyInit /\ RotationInit
  BY DEF MCInit
<1>2. [MCNext]_mcVars => [Next]_vars
  BY StepsOfContracts
<1>3. [MCNext]_mcVars =>
        [(Next /\ UNCHANGED proxyVars) \/ (ProxyNext /\ UNCHANGED vars)]_<<vars, proxyVars>>
  BY StepsOfContracts
<1>4. [MCNext]_mcVars => [RotationNext]_rotationVars
  BY StepsOfContracts
<1>5. QED
  BY <1>1, <1>2, <1>3, <1>4, PTL DEF MCSpec, Spec, ProxySpec, RotationSpec

\* The contracts as the run composes them keep all of its properties, for any
\* constants: proposals, electorate and quorum, the lineage of the upgrades and
\* the books of a replaced strategy.
THEOREM ContractsAreGoverned ==
    ASSUME ElectoratePayloads \subseteq Payloads
    PROVE  MCSpec => /\ [](ProposalsWellFormed /\ EpochPinsElectorate /\ AppliedByCurrentQuorum /\ NoStuckProposal)
                     /\ [](UpgradeLineage /\ StrategyAccounted)
                     /\ QuorumStaysReachable /\ ChangesAreGuarded /\ ReplacementsGuarded
BY EachContractRuns, ProposalsStayWellFormed, ElectoratePinned, QuorumApplies, AlwaysCancellable, UpgradesFormLineage,
   StrategyStaysAccounted, BootstrapEnds, GuardedChanges, ReplacementsAreGuarded, PTL
=============================================================================
