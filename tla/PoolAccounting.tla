--------------------------- MODULE PoolAccounting ---------------------------
(***************************************************************************)
(* The money of the drip pool contract (contracts/drip-pool/src/lib.rs and *)
(* vault.rs): participants' principal and rewards, lockups, the FIFO       *)
(* withdrawal queue, claim deadlines and sweeps, deposit caps, principal   *)
(* deployed to a strategy, and the emergency exit.                         *)
(*                                                                         *)
(* One contract invocation is one atomic step, and an invocation that      *)
(* returns Err or traps (a token transfer the balance cannot cover, a      *)
(* negative transfer) leaves no trace, so it is no step at all; the code's *)
(* own rollback branches after a failed transfer, and its Pool.locked      *)
(* flag, which is set and cleared within one invocation, are unreachable.  *)
(* The token is configured (set_token succeeds once) and the configuration *)
(* version is compatible; who may call the governed operations is the      *)
(* subject of PoolGovernance.  Sequence number and timestamp of a ledger   *)
(* are one clock.                                                          *)
(***************************************************************************)
EXTENDS Integers, Sequences, FiniteSets, FiniteSetsExt, Functions

CONSTANTS
    Accounts,        \* addresses that deal with the pool
    Admin,           \* Pool.admin, the treasury and stub winner
    WithdrawUsers,   \* accounts whose client calls withdraw
    LockedUsers,     \* accounts whose client calls withdraw_locked
    LegacyUsers,     \* accounts with a V1 record when the model starts
    Amounts,         \* sizes of deposits
    Moves,           \* sizes of deployments and recalls
    Yields,          \* sizes of add_yield and credit_yield
    Prizes,          \* sizes of draw_winner
    Assets,          \* TriggerEmergency payloads
    Injections,      \* Recapitalize payloads
    Releases,        \* ReleaseEscrow payloads
    Caps,            \* settings of MaxWalletDeposit and MaxPoolDeposit
    Reserves,        \* settings of MinIdleReserve
    Lockups,         \* lockup_ledgers_for's results
    Deadlines,       \* settings of claim_deadline
    Lockup,          \* LOCKUP_LEDGERS
    Expiry,          \* PROPOSAL_EXPIRY_LEDGERS
    Batches,         \* fulfill_withdrawal_queue's max_requests
    MaxLedger, MaxDeposits, MaxCustody, MaxReward, MaxRequests  \* bounds

ASSUME AccountingAssumption ==
    /\ IsFiniteSet(Accounts) /\ Admin \in Accounts
    /\ WithdrawUsers \cup LockedUsers \cup LegacyUsers \subseteq Accounts
    /\ Amounts \cup Moves \cup Yields \cup Prizes \cup Injections \cup Releases \subseteq Nat \ {0}
    /\ Assets \cup Caps \cup Reserves \cup Lockups \cup Deadlines \cup Batches \subseteq Nat
    /\ {Lockup, Expiry, MaxLedger, MaxDeposits, MaxCustody, MaxReward, MaxRequests} \subseteq Nat

VARIABLES
    pool,      \* the money fields of Pool
    part,      \* DataKey::Participant, a function on the accounts stored
    legacy,    \* DataKey::ParticipantV1, likewise
    queue,     \* WithdrawalRequest(id): entry id + 1, the tail is its length
    head,      \* WithdrawalQueueHead + 1
    pending,   \* ParticipantQueue(who) + 1, 0 when absent
    limits,    \* MaxWalletDeposit, MaxPoolDeposit and MinIdleReserve
    custody,   \* the contract's token balance
    ledger     \* env.ledger()

queueVars == <<queue, head, pending>>
vars == <<pool, part, legacy, queueVars, limits, custody, ledger>>

Participant ==
    [deposited : Nat, withdrawn : Int, locked_until : Nat,
     yield : Nat, prize : Nat, claimed : Nat]

Pool ==
    [total_deposited : Int, distributable_yield : Nat, claim_deadline : Nat,  \* 0 = None
     unclaimed_swept : BOOLEAN, is_emergency : BOOLEAN, emergency_assets : Int,
     principal_in_strategy : Nat]

Request ==
    [who : Accounts, amount : Nat, expires_at : Nat,
     status : {"Pending", "Fulfilled", "Cancelled", "Expired"}]

NewParticipant ==
    [deposited |-> 0, withdrawn |-> 0, locked_until |-> ledger + Lockup,
     yield |-> 0, prize |-> 0, claimed |-> 0]

\* A legacy participant's principal.
LegacyPrincipal == 2

\* Legacy principal is in custody when the model starts.
Init ==
    /\ pool = [total_deposited |-> LegacyPrincipal * Cardinality(LegacyUsers), distributable_yield |-> 0,
               claim_deadline |-> 0, unclaimed_swept |-> FALSE, is_emergency |-> FALSE,
               emergency_assets |-> 0, principal_in_strategy |-> 0]
    /\ part = [a \in {} |-> {}]
    /\ legacy = [a \in LegacyUsers |->
                   [deposited |-> LegacyPrincipal, withdrawn |-> 0, locked_until |-> 0,
                    yield |-> 0, prize |-> 0, claimed |-> 0]]
    /\ queue = <<>> /\ head = 1
    /\ pending = [a \in Accounts |-> 0]
    /\ limits = [wallet |-> 0, pool |-> 0, idle |-> 0]
    /\ custody = LegacyPrincipal * Cardinality(LegacyUsers)
    /\ ledger = 0

-----------------------------------------------------------------------------
has_participant(who) == who \in DOMAIN part \cup DOMAIN legacy

\* The V2 record, or the V1 record as the migration rewrites it.
load_participant(who) == IF who \in DOMAIN part THEN part[who] ELSE legacy[who]

With(f, a, v) == [x \in DOMAIN f \cup {a} |-> IF x = a THEN v ELSE f[x]]

Without(f, a) == [x \in DOMAIN f \ {a} |-> f[x]]

\* Every successful load is followed by a save, or migrates the V1 record by
\* itself, so handlers save the record even when they leave it as it was.
save_participant(who, p) ==
    /\ part' = With(part, who, p)
    /\ legacy' = Without(legacy, who)

unwithdrawn(p) == p.deposited - p.withdrawn

unclaimed_Gross(p) == p.yield + p.prize  \* mutant: claims are not deducted

unclaimed(p) == p.yield + p.prize - p.claimed

Paid_Not(p, n) == p  \* mutant: a payment is not recorded
Paid_Twice(p, n) == [p EXCEPT !.withdrawn = @ + 2 * n]  \* mutant: recorded twice

\* A payment of n units of principal is recorded.
Paid(p, n) == [p EXCEPT !.withdrawn = @ + n]

Within(cap, n) == cap > 0 => n <= cap

check_deposit_caps(wallet, amount) ==
    /\ Within(limits.wallet, wallet + amount)
    /\ Within(limits.pool, pool.total_deposited + amount)

\* Tokens arrive; both totals are bounded for model checking.
Receive(wallet, amount) ==
    /\ wallet + amount <= MaxDeposits
    /\ pool.total_deposited + amount <= MaxDeposits
    /\ pool' = [pool EXCEPT !.total_deposited = @ + amount]
    /\ custody' = custody + amount

-----------------------------------------------------------------------------
join(who) ==
    /\ ~pool.is_emergency
    /\ ~has_participant(who)
    /\ save_participant(who, NewParticipant)
    /\ UNCHANGED <<pool, queueVars, limits, custody, ledger>>

\* Reads the V2 record only: a V1 record is neither loaded nor migrated, and
\* save_participant removes it.
deposit(who, amount) ==
    LET p == IF who \in DOMAIN part THEN part[who] ELSE NewParticipant
    IN  /\ ~pool.is_emergency
        /\ check_deposit_caps(p.deposited, amount)
        /\ Receive(p.deposited, amount)
        /\ save_participant(who, [p EXCEPT !.deposited = @ + amount])
        /\ UNCHANGED <<queueVars, limits, ledger>>

\* No emergency check; the new lockup replaces the old one, longer or shorter.
deposit_with_duration(who, amount, ledgers) ==
    /\ has_participant(who)
    /\ LET p == load_participant(who)
       IN  /\ check_deposit_caps(p.deposited, amount)
           /\ Receive(p.deposited, amount)
           /\ save_participant(who, [p EXCEPT !.deposited = @ + amount,
                                              !.locked_until = ledger + ledgers])
    /\ UNCHANGED <<queueVars, limits, ledger>>

\* Pays everything ever deposited and deletes the record.
withdraw_locked(who) ==
    /\ has_participant(who)
    /\ LET p == load_participant(who)
       IN  /\ ledger >= p.locked_until
           /\ p.deposited <= custody
           /\ custody' = custody - p.deposited
    /\ part' = Without(part, who)
    /\ legacy' = Without(legacy, who)
    /\ UNCHANGED <<pool, queueVars, limits, ledger>>

enqueue_withdrawal(who, amount) ==
    /\ Len(queue) < MaxRequests
    /\ queue' = Append(queue, [who |-> who, amount |-> amount,
                               expires_at |-> ledger + Expiry, status |-> "Pending"])
    /\ pending' = [pending EXCEPT ![who] = Len(queue) + 1]
    /\ UNCHANGED head


NotQueued(who) == pending[who] = 0

\* Pays what is left of the principal at once, or queues all of it when the
\* idle balance is short.  Pool.total_deposited is not touched.
withdraw(who) ==
    /\ has_participant(who)
    /\ NotQueued(who)
    /\ LET p == load_participant(who)
           available == unwithdrawn(p)
       IN  /\ ledger >= p.locked_until
           /\ IF available > 0 /\ available > custody
              THEN /\ enqueue_withdrawal(who, available)
                   /\ save_participant(who, p)
                   /\ UNCHANGED custody
              ELSE /\ available >= 0
                   /\ custody' = custody - available
                   /\ save_participant(who, Paid(p, available))
                   /\ UNCHANGED queueVars
    /\ UNCHANGED <<pool, limits, ledger>>

Unguard_Not(who) == pending  \* mutant: ParticipantQueue is not removed

Unguard(who) == [pending EXCEPT ![who] = 0]

cancel_withdrawal_request(who) ==
    /\ pending[who] # 0
    /\ queue[pending[who]].who = who
    /\ queue[pending[who]].status = "Pending"
    /\ queue' = [queue EXCEPT ![pending[who]].status = "Cancelled"]
    /\ pending' = Unguard(who)
    /\ UNCHANGED <<pool, part, legacy, head, limits, custody, ledger>>

-----------------------------------------------------------------------------
\* fulfill_withdrawal_queue.  The loop's state: the storage it rewrites, the
\* requests processed, whether it broke out, whether the call failed.

Skip(s) == [s EXCEPT !.head = @ + 1]

Settle(s, who, status) ==
    [s EXCEPT !.queue[s.head].status = status, !.pending[who] = 0,
              !.head = @ + 1, !.processed = @ + 1]

Remaining(amount, pay) == amount - pay

Short_SkipAhead(s, paid) == Skip(s)  \* mutant: on to the next request

\* A partial payment ends the loop.
Short(s, paid) == [paid EXCEPT !.done = TRUE]

\* The record a queued request of `who' is paid from.
QueuedRecord(s, who) == IF who \in DOMAIN s.part THEN s.part[who] ELSE legacy[who]

\* Pay `pay' of the request at the head.
PayRequest(s, pay) ==
    LET r == s.queue[s.head]
    IN  [s EXCEPT !.custody = @ - pay,
                  !.queue[s.head].amount = Remaining(r.amount, pay),
                  !.part = With(@, r.who, Paid(QueuedRecord(s, r.who), pay))]

\* The request at the head is paid as far as the idle balance goes.
PayHead(s) ==
    LET r == s.queue[s.head]
        pay == Min({r.amount, s.custody})
        paid == PayRequest(s, pay)
    IN  IF ~has_participant(r.who) THEN [s EXCEPT !.failed = TRUE]
        ELSE IF pay = r.amount THEN Settle(paid, r.who, "Fulfilled")
        ELSE Short(s, paid)

\* One turn of the while loop.
FulfillNext(s, max) ==
    IF s.done \/ s.failed \/ s.head > Len(s.queue) \/ s.processed >= max THEN s
    ELSE LET r == s.queue[s.head]
         IN  IF r.status # "Pending" THEN Skip(s)
             ELSE IF ledger > r.expires_at THEN Settle(s, r.who, "Expired")
             ELSE IF s.custody <= 0 THEN [s EXCEPT !.done = TRUE]
             ELSE PayHead(s)

FulfillStart ==
    [queue |-> queue, head |-> head, pending |-> pending, part |-> part,
     custody |-> custody, processed |-> 0, done |-> FALSE, failed |-> FALSE]

\* The state after the loop: a turn that does not stop it moves the head on.
FulfillLoop(max) ==
    LET after[n \in 0..Len(queue)] ==
            IF n = 0 THEN FulfillStart ELSE FulfillNext(after[n - 1], max)
    IN  after[Len(queue)]

fulfill_withdrawal_queue(max) ==
    LET end == FulfillLoop(max)
    IN  /\ ~pool.is_emergency
        /\ ~end.failed
        /\ queue' = end.queue /\ head' = end.head /\ pending' = end.pending
        /\ part' = end.part
        /\ legacy' = [a \in DOMAIN legacy \ DOMAIN end.part |-> legacy[a]]
        /\ custody' = end.custody
        /\ UNCHANGED <<pool, limits, ledger>>

-----------------------------------------------------------------------------
add_yield(amount) ==
    /\ ~pool.is_emergency
    /\ custody + amount <= MaxCustody
    /\ custody' = custody + amount
    /\ pool' = [pool EXCEPT !.distributable_yield = @ + amount]
    /\ UNCHANGED <<part, legacy, queueVars, limits, ledger>>

Distributable(amount) == amount <= pool.distributable_yield

credit_yield(who, amount) ==
    /\ ~pool.is_emergency
    /\ Distributable(amount)
    /\ has_participant(who)
    /\ LET p == load_participant(who)
       IN  /\ p.yield + amount <= MaxReward
           /\ save_participant(who, [p EXCEPT !.yield = @ + amount])
    /\ pool' = [pool EXCEPT !.distributable_yield = @ - amount]
    /\ UNCHANGED <<queueVars, limits, custody, ledger>>

\* The prize is credited to the admin; no reserve is debited for it.
draw_winner(prize) ==
    LET p == IF has_participant(Admin) THEN load_participant(Admin) ELSE NewParticipant
    IN  /\ ~pool.is_emergency
        /\ p.prize + prize <= MaxReward
        /\ save_participant(Admin, [p EXCEPT !.prize = @ + prize])
        /\ UNCHANGED <<pool, queueVars, limits, custody, ledger>>

\* Pay out a participant's unclaimed reward, if there is any.
PayReward(who) ==
    /\ has_participant(who)
    /\ LET p == load_participant(who)
           available == Max({unclaimed(p), 0})
       IN  /\ available <= custody
           /\ custody' = custody - available
           /\ save_participant(who, [p EXCEPT !.claimed = @ + available])

claim_reward(who) ==
    /\ pool.claim_deadline > 0 => ledger <= pool.claim_deadline
    /\ PayReward(who)
    /\ UNCHANGED <<pool, queueVars, limits, ledger>>

set_claim_deadline(deadline) ==
    /\ deadline > ledger
    /\ pool' = [pool EXCEPT !.claim_deadline = deadline]
    /\ UNCHANGED <<part, legacy, queueVars, limits, custody, ledger>>

sweep_unclaimed(who) ==
    /\ pool.claim_deadline > 0 /\ ledger > pool.claim_deadline
    /\ PayReward(who)
    /\ pool' = [pool EXCEPT !.unclaimed_swept = @ \/ custody' < custody]
    /\ UNCHANGED <<queueVars, limits, ledger>>

-----------------------------------------------------------------------------
\* Mutant: the share is rounded up.
emergency_payout_RoundUp(owed) ==
    IF pool.total_deposited > 0 /\ pool.emergency_assets > 0
    THEN (owed * pool.emergency_assets + pool.total_deposited - 1) \div pool.total_deposited
    ELSE 0

\* The payout is a share of the recorded assets; what it leaves unpaid of the
\* principal is written off, and a queued request is not looked at.
emergency_payout(owed) ==
    IF pool.total_deposited > 0 /\ pool.emergency_assets > 0
    THEN (owed * pool.emergency_assets) \div pool.total_deposited
    ELSE 0

emergency_withdraw(who) ==
    /\ pool.is_emergency
    /\ has_participant(who)
    /\ LET p == load_participant(who)
           owed == unwithdrawn(p)
           payout == emergency_payout(owed)
       IN  /\ owed > 0
           /\ payout <= custody
           /\ custody' = custody - payout
           /\ pool' = [pool EXCEPT !.total_deposited = @ - owed,
                                   !.emergency_assets = @ - payout]
           /\ save_participant(who, Paid(p, owed))
    /\ UNCHANGED <<queueVars, limits, ledger>>

\* The effects of approved proposals (see PoolGovernance).
TriggerEmergency(assets) ==
    /\ pool' = [pool EXCEPT !.is_emergency = TRUE, !.emergency_assets = assets]
    /\ UNCHANGED <<part, legacy, queueVars, limits, custody, ledger>>

Recapitalize(amount) ==
    /\ custody + amount <= MaxCustody
    /\ pool.emergency_assets + amount <= MaxCustody
    /\ custody' = custody + amount
    /\ pool' = [pool EXCEPT !.emergency_assets = @ + amount]
    /\ UNCHANGED <<part, legacy, queueVars, limits, ledger>>

ResumeNormal ==
    /\ pool.emergency_assets >= pool.total_deposited
    /\ pool' = [pool EXCEPT !.is_emergency = FALSE]
    /\ UNCHANGED <<part, legacy, queueVars, limits, custody, ledger>>

ReleaseEscrow(amount) ==
    /\ amount <= pool.total_deposited
    /\ amount <= custody
    /\ custody' = custody - amount
    /\ pool' = [pool EXCEPT !.total_deposited = @ - amount]
    /\ UNCHANGED <<part, legacy, queueVars, limits, ledger>>

set_max_wallet_deposit(cap) ==
    /\ limits' = [limits EXCEPT !.wallet = cap]
    /\ UNCHANGED <<pool, part, legacy, queueVars, custody, ledger>>

set_max_pool_deposit(cap) ==
    /\ limits' = [limits EXCEPT !.pool = cap]
    /\ UNCHANGED <<pool, part, legacy, queueVars, custody, ledger>>

set_min_idle_reserve(amount) ==
    /\ limits' = [limits EXCEPT !.idle = amount]
    /\ UNCHANGED <<pool, part, legacy, queueVars, custody, ledger>>

\* Bookkept idle principal bounds the amount; the strategy's pull of the
\* tokens fails when real custody does not cover it.
deploy_to_strategy(amount) ==
    LET idle == pool.total_deposited - pool.principal_in_strategy
    IN  /\ amount <= idle /\ idle - amount >= limits.idle
        /\ amount <= custody
        /\ custody' = custody - amount
        /\ pool' = [pool EXCEPT !.principal_in_strategy = @ + amount]
        /\ UNCHANGED <<part, legacy, queueVars, limits, ledger>>

\* A strategy that keeps its principal returns at most what it was given.
recall_from_strategy(amount) ==
    \E recalled \in 1..Min({amount, pool.principal_in_strategy}) :
        /\ custody' = custody + recalled
        /\ pool' = [pool EXCEPT !.principal_in_strategy = @ - recalled]
        /\ UNCHANGED <<part, legacy, queueVars, limits, ledger>>

Close ==
    /\ ledger < MaxLedger
    /\ ledger' = ledger + 1
    /\ UNCHANGED <<pool, part, legacy, queueVars, limits, custody>>

-----------------------------------------------------------------------------
AccountStep(who) ==
    \/ join(who)
    \/ \E amount \in Amounts : deposit(who, amount)
    \/ \E amount \in Amounts, ledgers \in Lockups : deposit_with_duration(who, amount, ledgers)
    \/ who \in WithdrawUsers /\ withdraw(who)
    \/ who \in LockedUsers /\ withdraw_locked(who)
    \/ cancel_withdrawal_request(who)
    \/ claim_reward(who)
    \/ emergency_withdraw(who)
    \/ sweep_unclaimed(who)
    \/ \E amount \in Yields : credit_yield(who, amount)

GovernedStep ==
    \/ \E max \in Batches : fulfill_withdrawal_queue(max)
    \/ \E amount \in Yields : add_yield(amount)
    \/ \E prize \in Prizes : draw_winner(prize)
    \/ \E deadline \in Deadlines : set_claim_deadline(deadline)
    \/ \E assets \in Assets : TriggerEmergency(assets)
    \/ \E amount \in Injections : Recapitalize(amount)
    \/ Assets # {} /\ ResumeNormal
    \/ \E amount \in Releases : ReleaseEscrow(amount)
    \/ \E cap \in Caps : set_max_wallet_deposit(cap) \/ set_max_pool_deposit(cap)
    \/ \E amount \in Reserves : set_min_idle_reserve(amount)
    \/ \E amount \in Moves : deploy_to_strategy(amount) \/ recall_from_strategy(amount)

Next == Close \/ GovernedStep \/ (\E who \in Accounts : AccountStep(who))

Spec == Init /\ [][Next]_vars

-----------------------------------------------------------------------------
\* Every variable stays in its type.
TypeOK ==
    /\ pool \in Pool
    /\ DOMAIN part \subseteq Accounts /\ part \in [DOMAIN part -> Participant]
    /\ DOMAIN legacy \subseteq LegacyUsers /\ legacy \in [DOMAIN legacy -> Participant]
    /\ queue \in Seq(Request)
    /\ head \in 1..(Len(queue) + 1)
    /\ pending \in [Accounts -> 0..Len(queue)]
    /\ custody \in Nat
    /\ ledger \in Nat

\* What the pool owes its participants, deployed or not.
Owed(a) == IF has_participant(a) THEN unwithdrawn(load_participant(a)) ELSE 0
Unclaimed(a) == IF has_participant(a) THEN unclaimed(load_participant(a)) ELSE 0

Principal == SumFunction([a \in Accounts |-> Owed(a)])
Rewards == SumFunction([a \in Accounts |-> Unclaimed(a)])

\* The solvency invariant of the design (#378): the tokens held and the
\* principal deployed cover all principal not yet withdrawn, the yield set
\* aside and every unclaimed reward.
Solvent ==
    custody + pool.principal_in_strategy
        >= Principal + pool.distributable_yield + Rewards

\* No participant is paid more principal than was deposited, nor more
\* rewards than were credited, along any path of withdraw, fulfilment,
\* cancellation, emergency exit, claim and sweep.
NeverOverpaid ==
    \A a \in DOMAIN part :
        /\ part[a].withdrawn \in 0..part[a].deposited
        /\ part[a].claimed <= part[a].yield + part[a].prize

\* #529: the queue and the per-participant duplicate guard agree: a pending
\* request lies at or after the head and is the one its owner is held to,
\* so nobody has two requests and none is skipped.
QueueConsistent ==
    /\ \A i \in 1..Len(queue) :
          queue[i].status = "Pending" => i >= head /\ pending[queue[i].who] = i
    /\ \A a \in Accounts :
          pending[a] # 0 => /\ queue[pending[a]].who = a
                            /\ queue[pending[a]].status = "Pending"

\* A queued amount is never more than what its owner still has in the pool,
\* so fulfilment cannot fail on it or pay the same principal again.
QueueBacked ==
    \A i \in 1..Len(queue) :
        queue[i].status = "Pending" =>
            /\ has_participant(queue[i].who)
            /\ queue[i].amount <= unwithdrawn(load_participant(queue[i].who))

\* #529: later requests are never paid before earlier ones: in the step
\* that pays a request, every earlier one is settled.
QueueFIFO ==
    [][\A j \in 1..Len(queue) :
          queue'[j].amount < queue[j].amount =>
              \A i \in 1..(j - 1) : queue'[i].status # "Pending"]_vars

\* Outside an emergency the principal owed to a participant falls only by
\* what leaves the pool in that very step.
PrincipalKept ==
    [][~pool.is_emergency =>
          \A a \in Accounts : Owed(a) - Owed(a)' <= Max({custody - custody', 0})]_vars

\* #512: an emergency exit never worsens the rate, recorded assets per
\* deposited unit, at which the remaining participants exit, so nobody
\* gains by leaving first (as long as the records are not overdrawn already,
\* which an escrow release before the exits makes possible).
EmergencyRateKept ==
    [][(/\ pool.is_emergency /\ pool.emergency_assets >= 0
        /\ pool'.total_deposited < pool.total_deposited)
          => pool'.emergency_assets * pool.total_deposited
                >= pool.emergency_assets * pool'.total_deposited]_vars

\* The pool holds what it owes to depositors and to the queue, and nobody was
\* paid more than what is theirs.
AccountsBacked ==
    /\ TypeOK
    /\ Solvent
    /\ QueueBacked
    /\ NeverOverpaid
=============================================================================
