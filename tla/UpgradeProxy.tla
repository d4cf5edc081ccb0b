----------------------------- MODULE UpgradeProxy -----------------------------
(***************************************************************************)
(* The proxy that points at the vault logic (contracts/drip-pool/src/      *)
(* proxy.rs).  It has no administrators of its own: every call reads the   *)
(* signers, the threshold and the epoch of the pool that governs it, so    *)
(* this module extends the pool's governance and its steps interleave with *)
(* the pool's.  A call that returns Err is no step: marking a proposal     *)
(* Expired or Cancelled before returning Err leaves no trace.              *)
(***************************************************************************)
EXTENDS PoolGovernance

CONSTANTS
    LogicContracts,  \* contracts the proxy may point at
    ProxyAddress,    \* env.current_contract_address()
    MaxUpgrades      \* bound on UpgradeNonce

Unbound == "unbound"

ASSUME ProxyAssumption == MaxUpgrades \in Nat /\ Unbound \notin LogicContracts

VARIABLES
    logic,           \* DataKey::LogicContract, or Unbound before create
    generation,      \* DataKey::LogicGeneration
    migrations,      \* DataKey::Migration, the pairs registered
    upgrades         \* DataKey::UpgradeProposal, a function on 0 .. UpgradeNonce - 1

proxyVars == <<logic, generation, migrations, upgrades>>

ProxyInit ==
    /\ logic = Unbound /\ generation = 0 /\ migrations = {}
    /\ upgrades = [id \in {} |-> {}]

UpgradeNonce == Cardinality(DOMAIN upgrades)

-----------------------------------------------------------------------------
create(caller, contract) ==
    /\ logic = Unbound
    /\ caller \in admins
    /\ logic' = contract
    /\ UNCHANGED <<generation, migrations, upgrades>>

register_migration(caller, from, to) ==
    /\ logic # Unbound
    /\ caller \in admins
    /\ from # to
    /\ migrations' = migrations \cup {<<from, to>>}
    /\ UNCHANGED <<logic, generation, upgrades>>

propose_upgrade(caller, new_logic, breaking) ==
    /\ logic # Unbound
    /\ caller \in admins
    /\ new_logic # ProxyAddress
    /\ breaking => <<logic, new_logic>> \in migrations
    /\ UpgradeNonce < MaxUpgrades
    /\ upgrades' = [id \in DOMAIN upgrades \cup {UpgradeNonce} |->
         IF id # UpgradeNonce THEN upgrades[id] ELSE
         [new_logic |-> new_logic, breaking |-> breaking,
          approvals |-> {caller}, snapshot |-> admins, threshold |-> threshold,
          epoch |-> epoch, logic |-> logic, generation |-> generation,
          readyAt |-> ledger + Delay, expiresAt |-> ledger + Expiry,
          status |-> "Pending"]]
    /\ UNCHANGED <<logic, generation, migrations>>

Unsuperseded_Address(u) == logic = u.logic  \* mutant: the address is compared

\* apply_upgrade's guard: nothing was executed since the proposal was made.
Unsuperseded(u) == generation = u.generation

\* apply_upgrade, on the proposal with the approvals given.
apply_upgrade(id, approvals) ==
    /\ Unsuperseded(upgrades[id])
    /\ logic' = upgrades[id].new_logic
    /\ generation' = generation + 1
    /\ upgrades' = [upgrades EXCEPT ![id].status = "Executed", ![id].approvals = approvals]
    /\ UNCHANGED migrations

approve_upgrade(caller, id) ==
    LET u == upgrades[id]
        approvals == u.approvals \cup {caller}
    IN  /\ u.status = "Pending"
        /\ ledger <= u.expiresAt
        /\ u.epoch = epoch
        /\ caller \in u.snapshot \ u.approvals
        /\ IF Cardinality(approvals) >= u.threshold /\ ledger >= u.readyAt
           THEN apply_upgrade(id, approvals)
           ELSE /\ upgrades' = [upgrades EXCEPT ![id].approvals = approvals]
                /\ UNCHANGED <<logic, generation, migrations>>

\* Mutant: the epoch is not compared with the pool's.
MayUpgrade_Stale(u) ==
    /\ u.status = "Pending"
    /\ ledger \in u.readyAt .. u.expiresAt
    /\ Cardinality(u.approvals) >= u.threshold

\* The checks execute_upgrade makes of a proposal.
MayUpgrade(u) ==
    /\ u.status = "Pending"
    /\ u.epoch = epoch
    /\ ledger \in u.readyAt .. u.expiresAt
    /\ Cardinality(u.approvals) >= u.threshold

execute_upgrade(caller, id) ==
    /\ caller \in admins
    /\ MayUpgrade(upgrades[id])
    /\ apply_upgrade(id, upgrades[id].approvals)

cancel_upgrade(caller, id) ==
    /\ upgrades[id].status = "Pending"
    /\ caller \in admins \cup upgrades[id].snapshot
    /\ upgrades' = [upgrades EXCEPT ![id].status = "Cancelled"]
    /\ UNCHANGED <<logic, generation, migrations>>

ProxyStep(s) ==
    \/ \E c \in LogicContracts : create(s, c)
    \/ \E from, to \in LogicContracts : register_migration(s, from, to)
    \/ \E c \in LogicContracts \cup {ProxyAddress}, b \in BOOLEAN : propose_upgrade(s, c, b)
    \/ \E id \in DOMAIN upgrades :
          approve_upgrade(s, id) \/ execute_upgrade(s, id) \/ cancel_upgrade(s, id)

ProxyNext == \E s \in Address : ProxyStep(s)

\* The pool and its proxy.
ProxySpec ==
    /\ Init /\ ProxyInit
    /\ [][(Next /\ UNCHANGED proxyVars) \/ (ProxyNext /\ UNCHANGED vars)]_<<vars, proxyVars>>

-----------------------------------------------------------------------------
Executed == {id \in DOMAIN upgrades : upgrades[id].status = "Executed"}

\* The executed upgrades form one chain up to the logic in force: each was
\* proposed against what the one before it installed, whatever else was
\* proposed, approved or cancelled beside them and although the proxy may
\* return to an earlier contract (apply_upgrade of proxy.rs).
UpgradeLineage ==
    /\ Cardinality(Executed) = generation
    /\ \A id \in Executed :
          LET u == upgrades[id]
              next == {i \in Executed : upgrades[i].generation = u.generation + 1}
          IN  IF u.generation + 1 = generation
              THEN u.new_logic = logic
              ELSE next # {} /\ \A i \in next : upgrades[i].logic = u.new_logic

\* The logic changes only by a proposal that waited its time, was made against
\* the logic it replaces, and is backed by enough of the accounts that are
\* signers of the pool now, by the threshold now in force, although the proxy
\* compares with the snapshot it took; a breaking one was reviewed.
UpgradeGuarded ==
    [logic # Unbound /\ generation' # generation =>
       \E id \in DOMAIN upgrades :
          LET u == upgrades'[id]
          IN  /\ upgrades[id].status = "Pending" /\ u.status = "Executed"
              /\ Quorum(u.approvals)
              /\ ledger \in u.readyAt .. u.expiresAt
              /\ u.logic = logic /\ u.new_logic = logic'
              /\ u.breaking => <<logic, logic'>> \in migrations]_proxyVars
=============================================================================
