----------------------------- MODULE PoolRounds -----------------------------
(***************************************************************************)
(* Round-scoped accounting of the drip pool contract                       *)
(* (contracts/drip-pool/src/lib.rs, #508, #558, #604): rounds open, lock   *)
(* and settle; a participant's share of a settled round is claimed once.   *)
(* Rounds move no tokens and touch neither Pool nor Participant.           *)
(*                                                                         *)
(* One contract invocation is one step; a call that returns Err is none.   *)
(* A call that returns Ok(0) without writing is no step either.  The calls *)
(* reserved to signers are made by whoever PoolGovernance lets make them.  *)
(***************************************************************************)
EXTENDS Integers, FiniteSets, Functions

CONSTANTS
    Accounts,     \* participants
    Amounts,      \* sizes of round_deposit
    Outcomes,     \* values of realized_yield and prize_reserve
    PruneLists,   \* participant lists signers pass to prune_round
    FinalizeDelay,\* ROUND_PERMISSIONLESS_FINALIZE_DELAY_SECONDS
    MaxRounds, MaxPrincipal, MaxLedgerTime   \* bounds

ASSUME RoundsAssumption ==
    /\ IsFiniteSet(Accounts)
    /\ Amounts \subseteq Nat \ {0}
    /\ Outcomes \subseteq Nat
    /\ PruneLists \subseteq SUBSET Accounts
    /\ FinalizeDelay \in Nat
    /\ MaxRounds \in Nat /\ MaxPrincipal \in Nat /\ MaxLedgerTime \in Nat

VARIABLES
    rounds,    \* DataKey::Round(id), a function on the ids stored
    deposits,  \* DataKey::RoundDeposit(who, id), 0 when absent
    nonce,     \* DataKey::RoundNonce
    ledgerTime \* env.ledger().timestamp()

roundVars == <<rounds, deposits, nonce, ledgerTime>>

Status == {"Open", "Locked", "Settled"}

Round == [status : Status, locked_at : Nat, principal_snapshot : Nat,
          realized_yield : Nat, prize_reserve : Nat, claimed : Nat]

Ids == 0..(MaxRounds - 1)
Stored == DOMAIN rounds
Total(r) == r.realized_yield + r.prize_reserve

RoundsInit ==
    /\ rounds = [id \in {} |-> {}]
    /\ deposits = [who \in Accounts |-> [id \in Ids |-> 0]]
    /\ nonce = 0
    /\ ledgerTime = 0

\* Mutant: the status is not checked.
Update_AnyStatus(id, status, r) == rounds' = [rounds EXCEPT ![id] = r] /\ UNCHANGED <<nonce, ledgerTime>>

\* The round is loaded in the given status, rewritten and saved.
Update(id, status, r) ==
    /\ rounds[id].status = status
    /\ rounds' = [rounds EXCEPT ![id] = r]
    /\ UNCHANGED <<nonce, ledgerTime>>

-----------------------------------------------------------------------------
NextNonce == nonce + 1

open_round ==
    /\ nonce < MaxRounds
    /\ rounds' = [id \in Stored \cup {nonce} |->
                    IF id = nonce
                    THEN [status |-> "Open", locked_at |-> 0, principal_snapshot |-> 0,
                          realized_yield |-> 0, prize_reserve |-> 0, claimed |-> 0]
                    ELSE rounds[id]]
    /\ nonce' = NextNonce
    /\ UNCHANGED <<deposits, ledgerTime>>

Added(existing, amount) == existing + amount

round_deposit(who, id, amount) ==
    /\ rounds[id].principal_snapshot + amount <= MaxPrincipal
    /\ Update(id, "Open", [rounds[id] EXCEPT !.principal_snapshot = @ + amount])
    /\ deposits' = [deposits EXCEPT ![who][id] = Added(@, amount)]

\* The bound leaves time for the round's finalization deadline.
lock_round(id) ==
    /\ ledgerTime + FinalizeDelay <= MaxLedgerTime
    /\ Update(id, "Open", [rounds[id] EXCEPT !.status = "Locked", !.locked_at = ledgerTime])
    /\ UNCHANGED deposits

settle_round(id, yield, prize) ==
    /\ Update(id, "Locked", [rounds[id] EXCEPT !.status = "Settled",
                               !.realized_yield = yield, !.prize_reserve = prize])
    /\ UNCHANGED deposits

Overdue_Inverted(r) == ledgerTime <= r.locked_at + FinalizeDelay  \* mutant

Overdue(r) == ledgerTime >= r.locked_at + FinalizeDelay

finalize_round(id) ==
    /\ Overdue(rounds[id])
    /\ Update(id, "Locked", [rounds[id] EXCEPT !.status = "Settled",
                               !.realized_yield = 0, !.prize_reserve = 0])
    /\ UNCHANGED deposits

Share(r, deposit) == (Total(r) * deposit) \div r.principal_snapshot
Spent_Not(who, id) == deposits  \* mutant: the deposit is not zeroed

Spent(who, id) == [deposits EXCEPT ![who][id] = 0]

round_claim(who, id) ==
    LET r == rounds[id]
        share == Share(r, deposits[who][id])
    IN  /\ r.principal_snapshot > 0
        /\ deposits[who][id] > 0
        /\ r.claimed + share <= Total(r)
        /\ Update(id, "Settled", [r EXCEPT !.claimed = @ + share])
        /\ deposits' = Spent(who, id)

NoneOutstanding(id, participants) == \A who \in participants : deposits[who][id] = 0

\* The participants checked are the ones the caller lists.
prune_round(id, participants) ==
    /\ rounds[id].status = "Settled"
    /\ NoneOutstanding(id, participants)
    /\ rounds' = [i \in Stored \ {id} |-> rounds[i]]
    /\ UNCHANGED <<deposits, nonce, ledgerTime>>

AdvanceLedger ==
    /\ ledgerTime < MaxLedgerTime
    /\ ledgerTime' = ledgerTime + 1
    /\ UNCHANGED <<rounds, deposits, nonce>>

RoundsNext ==
    \/ open_round
    \/ AdvanceLedger
    \/ \E id \in Stored :
          \/ lock_round(id)
          \/ finalize_round(id)
          \/ \E yield \in Outcomes, prize \in Outcomes : settle_round(id, yield, prize)
          \/ \E who \in Accounts : round_claim(who, id)
          \/ \E who \in Accounts, amount \in Amounts : round_deposit(who, id, amount)
          \/ \E participants \in PruneLists : prune_round(id, participants)

RoundsSpec == RoundsInit /\ [][RoundsNext]_roundVars

\* Time passes, and some account calls finalize_round, which is open to all,
\* once a round is overdue; no signer has to do anything.
RoundsFairness == WF_roundVars(AdvanceLedger) /\ \A id \in Ids : WF_roundVars(id \in Stored /\ finalize_round(id))

FairRoundsSpec == RoundsSpec /\ RoundsFairness

-----------------------------------------------------------------------------
\* Every variable stays in its type; ids below the nonce only.
RoundsTypeOK ==
    /\ nonce \in 0..MaxRounds
    /\ Stored \subseteq 0..(nonce - 1)
    /\ rounds \in [Stored -> Round]
    /\ deposits \in [Accounts -> [Ids -> Nat]]
    /\ ledgerTime \in Nat

Held(id) == [who \in Accounts |-> deposits[who][id]]

\* What the holders of a round's deposits can still claim.
Due(r, deposit) == IF deposit = 0 THEN 0 ELSE Share(r, deposit)
Dues(r, held) == [who \in Accounts |-> Due(r, held[who])]

\* Until a round settles its snapshot is exactly the sum of what its
\* participants hold in it: a locked round is not diluted by a late deposit.
SnapshotIsSum ==
    \A id \in Stored :
        rounds[id].status # "Settled" => rounds[id].principal_snapshot = SumFunction(Held(id))

\* In a settled round everything claimed and every share still outstanding
\* fit in the settled total together, so no claim is ever turned away with
\* RoundAccountingViolation, in whatever order participants claim.
EveryShareCovered ==
    \A id \in Stored :
        rounds[id].status = "Settled" =>
            rounds[id].claimed + SumFunction(Dues(rounds[id], Held(id))) <= Total(rounds[id])

\* Nothing is attributed or paid before settlement, and a settled round never
\* pays more than its settled total.
NoOverDistribution ==
    \A id \in Stored :
        LET r == rounds[id]
        IN  /\ r.claimed <= Total(r)
            /\ r.status # "Settled" => Total(r) = 0

Rank(status) == CASE status = "Open" -> 0 [] status = "Locked" -> 1 [] status = "Settled" -> 2

\* How a step may rewrite a stored round.
Forward(r, s) ==
    /\ Rank(r.status) <= Rank(s.status)
    /\ r.status # "Open" => s.principal_snapshot = r.principal_snapshot
    /\ r.status = "Settled" => Total(s) = Total(r)

FrozenStep ==
    /\ \A id \in Stored \cap DOMAIN rounds' : Forward(rounds[id], rounds'[id])
    /\ DOMAIN rounds' \ Stored \subseteq {nonce}

\* #508: a round only moves forward; its snapshot is frozen from lock_round
\* on and its outcome from settlement on, whatever is done to other rounds,
\* and a pruned round's id never comes back.
RoundsFrozen == [][FrozenStep]_roundVars

\* prune_round: "Rejects pruning a round that still has outstanding unclaimed
\* deposits (#558)".
OutstandingKept ==
    \A who \in Accounts, id \in Ids : deposits[who][id] > 0 => id \in Stored

\* #604: a locked round is settled eventually even if no signer ever acts.
LockedRoundSettles ==
    \A id \in Ids :
        (id \in Stored /\ rounds[id].status = "Locked")
            ~> (id \in Stored => rounds[id].status = "Settled")

\* Snapshots are the sums of the deposits, the shares not yet claimed fit in
\* what is left, and no round with an unclaimed share is pruned.
RoundsConsistent ==
    /\ RoundsTypeOK
    /\ SnapshotIsSum
    /\ EveryShareCovered
    /\ OutstandingKept
=============================================================================
