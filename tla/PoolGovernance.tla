--------------------------- MODULE PoolGovernance ---------------------------
(***************************************************************************)
(* The multi-signature governance of the drip pool contract                *)
(* (contracts/drip-pool/src/lib.rs): signer bootstrap, proposals with      *)
(* electorate snapshots, governance epochs, timelocks and expiry, and the  *)
(* effect of every proposal on the electorate and on the pool.             *)
(*                                                                         *)
(* One contract invocation is one atomic step.  An invocation that returns *)
(* Err (or traps) has all its writes rolled back by the Soroban host, so a *)
(* rejected call is no step at all: approve and execute_proposal remove an *)
(* expired or stale proposal and then return Err, which leaves it stored.  *)
(*                                                                         *)
(* Depositors and strategy handlers are the environment of this module:    *)
(* they move the pool's totals and its token custody arbitrarily.          *)
(***************************************************************************)
EXTENDS Integers, FiniteSets

CONSTANTS
    Address,           \* accounts that may be signers
    Founder,           \* the account create() installs
    DefaultThreshold,  \* DEFAULT_THRESHOLD
    Delay,             \* HIGH_RISK_DELAY_LEDGERS
    Expiry,            \* PROPOSAL_EXPIRY_LEDGERS
    Payloads,          \* the actions signers propose
    Versions,          \* configuration schema versions, 1 is CONFIG_SCHEMA_VERSION
    MaxLedger,         \* bound on the ledger sequence
    MaxProposals,      \* bound on proposal_nonce
    MaxFunds           \* bound on token amounts

\* ProposalAction.  The recipient of a release is outside the contract.
Action ==
         [kind : {"AddAdmin", "RemoveAdmin"}, who : Address]
    \cup [kind : {"SetThreshold"}, t : Nat]
    \cup [kind : {"ReleaseEscrow", "Recapitalize"}, amount : Nat]
    \cup [kind : {"TriggerEmergency"}, assets : Nat]
    \cup [kind : {"ResumeNormal"}]

ASSUME GovernanceAssumption ==
    /\ IsFiniteSet(Address) /\ Founder \in Address
    /\ DefaultThreshold \in Nat \ {0}
    /\ Delay \in Nat /\ Expiry \in Nat
    /\ Payloads \subseteq Action
    /\ 1 \in Versions
    /\ MaxLedger \in Nat /\ MaxProposals \in Nat /\ MaxFunds \in Nat

VARIABLES
    admins,      \* DataKey::Admins (push_back is guarded by contains: a set)
    threshold,   \* DataKey::Threshold
    epoch,       \* DataKey::GovernanceEpoch
    version,     \* DataKey::ConfigVersion
    proposals,   \* DataKey::Proposal(id), a function on the ids stored
    nonce,       \* Pool.proposal_nonce
    ledger,      \* env.ledger().sequence()
    pool,        \* Pool.total_deposited, is_emergency, emergency_assets
    custody      \* the contract's token balance

electorate == <<admins, threshold, epoch>>
funds == <<pool, custody>>
vars == <<admins, threshold, epoch, version, proposals, nonce, ledger,
          pool, custody>>

\* approvals is a Vec guarded by contains; approvals.get(0) is the proposer.
Proposal == [action : Action, proposer : Address, approvals : SUBSET Address,
             snapshot : SUBSET Address, threshold : Nat, epoch : Nat,
             readyAt : Nat, expiresAt : Nat]

Pool == [total_deposited : Int, is_emergency : BOOLEAN, emergency_assets : Int]

HighRisk == {"ReleaseEscrow", "RemoveAdmin", "SetThreshold", "TriggerEmergency", "ResumeNormal"}

is_high_risk(action) == action.kind \in HighRisk

Init ==
    /\ admins = {Founder}
    /\ threshold = DefaultThreshold
    /\ epoch = 0
    /\ version = 1
    /\ proposals = [id \in {} |-> {}]
    /\ nonce = 0
    /\ ledger = 0
    /\ pool = [total_deposited |-> 0, is_emergency |-> FALSE, emergency_assets |-> 0]
    /\ custody = 0

-----------------------------------------------------------------------------
require_compatible_config == version = 1

Live == DOMAIN proposals

Remove(id) == [i \in Live \ {id} |-> proposals[i]]

Store(id, p) == [i \in Live \cup {id} |-> IF i = id THEN p ELSE proposals[i]]

\* Migrating the configuration version is the one signer call that does not
\* itself require a compatible version.
update_config_version(caller, new) ==
    /\ caller \in admins
    /\ version' = new
    /\ UNCHANGED <<electorate, proposals, nonce, ledger, funds>>

EpochAfterAdding_Same(who) == epoch  \* mutant: no bump

\* bump_epoch, unless the account is a signer already.
EpochAfterAdding(who) == IF who \in admins THEN epoch ELSE epoch + 1

Bootstrapping == Cardinality(admins) < threshold

\* Bootstrap: one signer adds another while the threshold is out of reach.
seed_admin(caller, new) ==
    /\ caller \in admins /\ require_compatible_config
    /\ Bootstrapping
    /\ admins' = admins \cup {new}
    /\ epoch' = EpochAfterAdding(new)
    /\ UNCHANGED <<threshold, version, proposals, nonce, ledger, funds>>

\* propose's payload validation against the state at creation.
ValidPayload(action) ==
    CASE action.kind = "ReleaseEscrow" -> action.amount \in 1..pool.total_deposited
      [] action.kind = "SetThreshold" -> action.t \in 1..Cardinality(admins)
      [] action.kind = "Recapitalize" -> action.amount > 0
      [] action.kind = "TriggerEmergency" -> action.assets >= 0
      [] action.kind = "ResumeNormal" -> pool.emergency_assets >= pool.total_deposited
      [] OTHER -> TRUE

NextNonce == nonce + 1

propose(signer, action) ==
    /\ signer \in admins /\ require_compatible_config
    /\ ValidPayload(action)
    /\ nonce < MaxProposals
    /\ nonce' = NextNonce
    /\ proposals' = Store(nonce,
         [action |-> action, proposer |-> signer, approvals |-> {signer},
          snapshot |-> admins, threshold |-> threshold, epoch |-> epoch,
          readyAt |-> IF is_high_risk(action) THEN ledger + Delay ELSE ledger,
          expiresAt |-> ledger + Expiry])
    /\ UNCHANGED <<electorate, version, ledger, funds>>

-----------------------------------------------------------------------------
\* apply_proposal_action, one operator per arm.

ApplyAddAdmin(who) ==
    /\ admins' = admins \cup {who}
    /\ epoch' = EpochAfterAdding(who)
    /\ UNCHANGED <<threshold, funds>>

Removable_OffByOne == Cardinality(admins) >= threshold  \* mutant: >= for >

Removable == Cardinality(admins) > threshold

\* The guard is on the count alone; removing an absent account bumps the epoch.
ApplyRemoveAdmin(who) ==
    /\ Removable
    /\ admins' = admins \ {who}
    /\ epoch' = epoch + 1
    /\ UNCHANGED <<threshold, funds>>

ApplySetThreshold(t) ==
    /\ t \in 1..Cardinality(admins)
    /\ threshold' = t
    /\ epoch' = epoch + 1
    /\ UNCHANGED <<admins, funds>>

\* The token transfer traps when custody cannot cover it.
ApplyReleaseEscrow(amount) ==
    /\ amount <= pool.total_deposited
    /\ amount <= custody
    /\ custody' = custody - amount
    /\ pool' = [pool EXCEPT !.total_deposited = @ - amount]
    /\ UNCHANGED electorate

ApplyTriggerEmergency(assets) ==
    /\ pool' = [pool EXCEPT !.is_emergency = TRUE, !.emergency_assets = assets]
    /\ UNCHANGED <<electorate, custody>>

\* The proposer funds it, whatever the balance outside the contract.
ApplyRecapitalize(amount) ==
    /\ amount > 0
    /\ custody' = custody + amount
    /\ pool' = [pool EXCEPT !.emergency_assets = @ + amount]
    /\ UNCHANGED electorate

Covered == pool.emergency_assets >= pool.total_deposited

ApplyResumeNormal ==
    /\ Covered
    /\ pool' = [pool EXCEPT !.is_emergency = FALSE]
    /\ UNCHANGED <<electorate, custody>>

apply_proposal_action(action) ==
    \/ action.kind = "AddAdmin" /\ ApplyAddAdmin(action.who)
    \/ action.kind = "RemoveAdmin" /\ ApplyRemoveAdmin(action.who)
    \/ action.kind = "SetThreshold" /\ ApplySetThreshold(action.t)
    \/ action.kind = "ReleaseEscrow" /\ ApplyReleaseEscrow(action.amount)
    \/ action.kind = "TriggerEmergency" /\ ApplyTriggerEmergency(action.assets)
    \/ action.kind = "Recapitalize" /\ ApplyRecapitalize(action.amount)
    \/ action.kind = "ResumeNormal" /\ ApplyResumeNormal

\* Apply proposal id and delete it.
Execute(id) ==
    /\ apply_proposal_action(proposals[id].action)
    /\ proposals' = Remove(id)

\* Mutant: neither epoch nor snapshot is compared.
MayApprove_Unpinned(signer, p) ==
    /\ signer \in admins /\ require_compatible_config
    /\ ledger <= p.expiresAt
    /\ signer \notin p.approvals

\* The checks approve makes before it counts a signature.
MayApprove(signer, p) ==
    /\ signer \in admins /\ require_compatible_config
    /\ ledger <= p.expiresAt
    /\ p.epoch = epoch
    /\ signer \in p.snapshot
    /\ signer \notin p.approvals

approve(signer, id) ==
    LET p == proposals[id]
        approvals == p.approvals \cup {signer}
    IN  /\ MayApprove(signer, p)
        /\ IF Cardinality(approvals) >= p.threshold /\ ledger >= p.readyAt
           THEN Execute(id)
           ELSE /\ proposals' = [proposals EXCEPT ![id].approvals = approvals]
                /\ UNCHANGED <<electorate, funds>>
        /\ UNCHANGED <<version, nonce, ledger>>


\* Mutant: the epoch is not compared.
MayExecute_Stale(caller, p) ==
    /\ caller \in admins /\ require_compatible_config
    /\ ledger <= p.expiresAt
    /\ Cardinality(p.approvals) >= p.threshold
    /\ ledger >= p.readyAt

\* Mutant: the timelock is not checked.
MayExecute_Early(caller, p) ==
    /\ caller \in admins /\ require_compatible_config
    /\ p.epoch = epoch
    /\ ledger <= p.expiresAt
    /\ Cardinality(p.approvals) >= p.threshold

\* The checks execute_proposal makes.
MayExecute(caller, p) ==
    /\ caller \in admins /\ require_compatible_config
    /\ p.epoch = epoch
    /\ ledger <= p.expiresAt
    /\ Cardinality(p.approvals) >= p.threshold
    /\ ledger >= p.readyAt

execute_proposal(caller, id) ==
    /\ MayExecute(caller, proposals[id])
    /\ Execute(id)
    /\ UNCHANGED <<version, nonce, ledger>>

\* Mutant: a stale proposal is refused, as approve and execute_proposal do.
MayCancel_Fresh(signer, p) == p.epoch = epoch /\ signer \in admins /\ signer \in p.snapshot

MayCancel(signer, p) ==
    IF p.epoch # epoch
    THEN signer \in admins \/ signer \in p.snapshot
    ELSE signer \in admins /\ signer \in p.snapshot

cancel_proposal(signer, id) ==
    /\ require_compatible_config
    /\ MayCancel(signer, proposals[id])
    /\ proposals' = Remove(id)
    /\ UNCHANGED <<electorate, version, nonce, ledger, funds>>

-----------------------------------------------------------------------------
\* Deposits, withdrawals, emergency exits and strategy calls: the environment.
PoolActivity ==
    /\ \E total \in 0..MaxFunds, assets \in 0..MaxFunds, balance \in 0..MaxFunds :
          /\ pool' = [pool EXCEPT !.total_deposited = total, !.emergency_assets = assets]
          /\ custody' = balance
    /\ UNCHANGED <<electorate, version, proposals, nonce, ledger>>

Close ==
    /\ ledger < MaxLedger
    /\ ledger' = ledger + 1
    /\ UNCHANGED <<electorate, version, proposals, nonce, funds>>

SignerStep(s) ==
    \/ \E new \in Address : seed_admin(s, new)
    \/ \E new \in Versions : update_config_version(s, new)
    \/ \E action \in Payloads : propose(s, action)
    \/ \E id \in Live : approve(s, id)
    \/ \E id \in Live : execute_proposal(s, id)
    \/ \E id \in Live : cancel_proposal(s, id)

Next == Close \/ PoolActivity \/ (\E s \in Address : SignerStep(s))

Spec == Init /\ [][Next]_vars

-----------------------------------------------------------------------------
\* Every variable stays in its type.
TypeOK ==
    /\ admins \subseteq Address
    /\ threshold \in Nat \ {0}
    /\ epoch \in Nat
    /\ version \in Versions
    /\ nonce \in Nat
    /\ Live \subseteq 0..(nonce - 1)
    /\ proposals \in [Live -> Proposal]
    /\ ledger \in Nat
    /\ pool \in Pool
    /\ custody \in Int

\* #533: a proposal of the current epoch was created under the electorate in force
\* now: no path through seeding, adding, removing or re-thresholding signers
\* leaves an old proposal votable under new rules (#533).
EpochPinsElectorate ==
    \A id \in Live :
        proposals[id].epoch = epoch =>
            /\ proposals[id].snapshot = admins
            /\ proposals[id].threshold = threshold

\* Approvals on file come from the signers of the proposal's snapshot, and no
\* proposal claims to come from a later epoch than the contract's.
ApprovalsFromSnapshot ==
    \A id \in Live :
        /\ proposals[id].approvals \subseteq proposals[id].snapshot
        /\ proposals[id].epoch <= epoch

\* Enough of today's signers, by today's threshold.
Quorum(approvals) == approvals \subseteq admins /\ Cardinality(approvals) >= threshold

\* Whenever approve or execute_proposal would apply a proposal, the approvals
\* it acts on come from accounts that are all signers now, at least as many
\* as the threshold now in force, although the code compares with the
\* snapshot taken at creation only.
AppliedByCurrentQuorum ==
    \A id \in Live, s \in Address :
        LET p == proposals[id]
            approvals == p.approvals \cup {s}
        IN  /\ MayExecute(s, p) => Quorum(p.approvals)
            /\ (MayApprove(s, p) /\ Cardinality(approvals) >= p.threshold)
                   => Quorum(approvals)

\* The bootstrap ends for good: once the signers can meet the threshold no
\* proposal can take that away (RemoveAdmin's and SetThreshold's guards), so
\* seed_admin never opens again.
QuorumStaysReachable ==
    [][Cardinality(admins) >= threshold => Cardinality(admins') >= threshold']_vars

\* Outside the bootstrap the electorate changes only by applying a proposal.
OnlyProposalsChangeElectorate ==
    [(Cardinality(admins) >= threshold /\ <<admins, threshold>>' # <<admins, threshold>>)
        => \E id \in Live : id \notin DOMAIN proposals']_vars

\* The pool enters or leaves emergency mode only by a proposal that waited out
\* the high-risk delay.
EmergencyIsTimelocked ==
    [pool.is_emergency # pool'.is_emergency
        => \E id \in Live : /\ id \notin DOMAIN proposals'
                            /\ is_high_risk(proposals[id].action)
                            /\ proposals[id].readyAt <= ledger]_vars

\* ResumeNormal is valid when it is proposed and a day older when it is
\* applied: the pool leaves emergency mode only while the recorded assets
\* cover the deposits at that moment, whatever the pool did in between (#512).
ResumeOnlyWhenCovered ==
    [(pool.is_emergency /\ ~pool'.is_emergency)
        => pool.emergency_assets >= pool.total_deposited]_vars

\* cancel_proposal: a proposal can always be cancelled by someone who is a
\* signer now, whichever signers were rotated out meanwhile (#533).
NoStuckProposal ==
    \A id \in Live : \E s \in admins : MayCancel(s, proposals[id])

\* Every stored proposal is well formed and approved only by signers of its
\* own electorate.
ProposalsWellFormed ==
    /\ TypeOK
    /\ ApprovalsFromSnapshot

\* Electorate and emergency mode change only by a proposal that waited its
\* time and, to resume, with every principal covered.
ChangesAreGuarded ==
    [][OnlyProposalsChangeElectorate /\ EmergencyIsTimelocked /\ ResumeOnlyWhenCovered]_vars
=============================================================================
