------------------------------ MODULE JobLease ------------------------------
(***************************************************************************)
(* Distributed job leases with fencing tokens: the row of job_leases for   *)
(* one job name (backend/src/services/leaseService.ts) and the cron ticks  *)
(* that run under it (withJobLease in backend/src/cron.ts).                *)
(*                                                                         *)
(* A tick is one activation of the cron callback.  Several ticks may       *)
(* belong to one worker process: node-cron fires on schedule whether or    *)
(* not the previous activation has returned, and every tick of a process   *)
(* uses the same WORKER_ID.  Each SQL statement is one atomic step; what   *)
(* the code computes before an await (expiresAt, now) is captured in the   *)
(* tick's own state and may be old when the statement executes.  The       *)
(* processes' clocks are assumed to agree.                                 *)
(***************************************************************************)
EXTENDS Naturals, FiniteSets

CONSTANTS
    Ticks,      \* concurrent activations of the cron callback
    Workers,    \* worker processes (WORKER_ID)
    WorkerOf,   \* the process each tick runs in
    TTL,        \* ttlMs, in clock units
    MaxTime     \* bound on the clock

ASSUME LeaseAssumption ==
    /\ WorkerOf \in [Ticks -> Workers]
    /\ TTL \in Nat \ {0}
    /\ MaxTime \in Nat

VARIABLES
    lease,   \* {} or {row}: the JobLease row
    tick,    \* control state and locals of every tick
    now,     \* wall clock (Date.now())
    alive    \* processes that have not crashed

vars == <<lease, tick, now, alive>>

Row == [worker : Workers, token : Nat, expires : Nat]

\* withJobLease's locals.  exp is the expiresAt the tick computed last: the
\* one it is about to write while acquiring, the one it wrote once it runs.
\* beats holds the issue time of a heartbeat UPDATE still in flight.
TickState ==
    [pc    : {"idle", "create", "takeover", "running", "release"},
     token : Nat,           \* handle.fencingToken
     lost  : BOOLEAN,       \* lostLease
     exp   : Nat,
     seen  : Nat,           \* `now` of the takeover UPDATE
     beats : SUBSET Nat]

IdleTick ==
    [pc |-> "idle", token |-> 0, lost |-> FALSE, exp |-> 0, seen |-> 0, beats |-> {}]

Init ==
    /\ lease = {}
    /\ tick = [t \in Ticks |-> IdleTick]
    /\ now = 0
    /\ alive = Workers

Runs(t) == WorkerOf[t] \in alive

\* The tick is inside `fn` or about to release.
Holding(t) == tick[t].pc \in {"running", "release"}

\* The state a tick is left in when withJobLease returns: a heartbeat already
\* issued still executes later, with the token it captured.
Returned(t) ==
    IF tick[t].beats = {} THEN IdleTick ELSE [tick[t] EXCEPT !.pc = "idle"]

-----------------------------------------------------------------------------
\* The schedule fires: acquireJobLease computes expiresAt and issues create.
Fire(t) ==
    /\ tick[t].pc = "idle" /\ tick[t].beats = {}
    /\ tick' = [tick EXCEPT ![t] = [IdleTick EXCEPT !.pc = "create", !.exp = now + TTL]]
    /\ UNCHANGED <<lease, now, alive>>

Vacant == lease = {}

\* INSERT with token 1, or P2002 because the row exists.
Create(t) ==
    /\ tick[t].pc = "create"
    /\ IF Vacant
       THEN /\ lease' = lease \cup {[worker |-> WorkerOf[t], token |-> 1, expires |-> tick[t].exp]}
            /\ tick' = [tick EXCEPT ![t].pc = "running", ![t].token = 1]
       ELSE /\ tick' = [tick EXCEPT ![t].pc = "takeover", ![t].seen = now]
            /\ UNCHANGED lease
    /\ UNCHANGED <<now, alive>>

Expired_Any(t) == lease  \* mutant: the expiry is not compared

\* Mutant: only the former holder may take its row over.
Expired_Own(t) == {row \in lease : row.expires <= tick[t].seen /\ row.worker = WorkerOf[t]}

\* The rows the takeover UPDATE's WHERE clause selects.
Expired(t) == {row \in lease : row.expires <= tick[t].seen}

\* UPDATE ... SET fencing_token = fencing_token + 1 WHERE expires_at <= now.
\* No row returned (the lease is active, or was deleted meanwhile): the tick
\* is skipped.
TakeOver(t) ==
    /\ tick[t].pc = "takeover"
    /\ \/ \E row \in Expired(t) :
            /\ lease' = {[worker |-> WorkerOf[t], token |-> row.token + 1, expires |-> tick[t].exp]}
            /\ tick' = [tick EXCEPT ![t].pc = "running", ![t].token = row.token + 1]
       \/ /\ Expired(t) = {}
          /\ tick' = [tick EXCEPT ![t] = IdleTick]
          /\ UNCHANGED lease
    /\ UNCHANGED <<now, alive>>

\* The heartbeat timer: renewJobLease computes now and expiresAt.  One
\* heartbeat is in flight at a time.
Heartbeat(t) ==
    /\ tick[t].pc = "running" /\ tick[t].beats = {}
    /\ tick' = [tick EXCEPT ![t].beats = {now}]
    /\ UNCHANGED <<lease, now, alive>>

\* The rows renewJobLease's WHERE clause selects.
Renewable(t, sent) ==
    {row \in lease : /\ row.worker = WorkerOf[t]
                     /\ row.token = tick[t].token
                     /\ row.expires > sent}

\* A tick that already returned keeps nothing once its heartbeat resolved.
Settled(t, exp, lost) ==
    IF tick[t].pc = "idle" THEN IdleTick
    ELSE [tick[t] EXCEPT !.beats = {}, !.exp = exp, !.lost = lost]

\* The heartbeat's updateMany extends the row it matches.
Renew(t) ==
    \E sent \in tick[t].beats :
        /\ Renewable(t, sent) # {}
        /\ lease' = {[row EXCEPT !.expires = sent + TTL] : row \in Renewable(t, sent)}
        /\ tick' = [tick EXCEPT ![t] = Settled(t, sent + TTL, @.lost)]
        /\ UNCHANGED <<now, alive>>

\* It matches nothing, or the call throws: lostLease is set.
RenewFails(t) ==
    /\ tick[t].beats # {}
    /\ tick' = [tick EXCEPT ![t] = Settled(t, @.exp, TRUE)]
    /\ UNCHANGED <<lease, now, alive>>

\* fn() resolves: release unless the lease was lost.
Finish(t) ==
    /\ tick[t].pc = "running"
    /\ tick' = [tick EXCEPT ![t] =
                  IF tick[t].lost THEN Returned(t) ELSE [@ EXCEPT !.pc = "release"]]
    /\ UNCHANGED <<lease, now, alive>>

\* fn() rejects: the lease is deliberately kept.
Fail(t) ==
    /\ tick[t].pc = "running"
    /\ tick' = [tick EXCEPT ![t] = Returned(t)]
    /\ UNCHANGED <<lease, now, alive>>

Spared_None(t) == {}  \* mutant: deleted by job_name alone

\* What deleteMany WHERE job_name AND worker_id spares: the fencing token is
\* not compared.
Spared(t) == {row \in lease : row.worker # WorkerOf[t]}

Release(t) ==
    /\ tick[t].pc = "release"
    /\ lease' = Spared(t)
    /\ tick' = [tick EXCEPT ![t] = Returned(t)]
    /\ UNCHANGED <<now, alive>>

\* A process dies: its ticks vanish and its row stays.
Crash(w) ==
    /\ w \in alive
    /\ alive \ {w} # {}
    /\ alive' = alive \ {w}
    /\ tick' = [t \in Ticks |-> IF WorkerOf[t] = w THEN IdleTick ELSE tick[t]]
    /\ UNCHANGED <<lease, now>>

Advance ==
    /\ now < MaxTime
    /\ now' = now + 1
    /\ UNCHANGED <<lease, tick, alive>>

Acquiring(t) == Runs(t) /\ (Fire(t) \/ Create(t) \/ TakeOver(t))
Beating(t)   == Runs(t) /\ (Renew(t) \/ RenewFails(t))
Ending(t)    == Runs(t) /\ (Finish(t) \/ Fail(t) \/ Release(t))

Step(t) == Acquiring(t) \/ (Runs(t) /\ Heartbeat(t)) \/ Beating(t) \/ Ending(t)

Next == Advance \/ (\E w \in Workers : Crash(w)) \/ (\E t \in Ticks : Step(t))

\* node-cron keeps firing, database calls return, and job bodies end.
Fairness == \A t \in Ticks : WF_vars(Acquiring(t)) /\ WF_vars(Beating(t)) /\ WF_vars(Ending(t))

Spec == Init /\ [][Next]_vars

FairSpec == Spec /\ Fairness

-----------------------------------------------------------------------------
\* The tick's own record of its lease says the lease has not run out.
Fresh(t) == Holding(t) /\ ~tick[t].lost /\ tick[t].exp > now

\* Every variable stays in its type, and job_name is a primary key.
TypeOK ==
    /\ lease \subseteq Row /\ \A r1, r2 \in lease : r1 = r2
    /\ tick \in [Ticks -> TickState]
    /\ now \in 0..MaxTime
    /\ alive \subseteq Workers

\* What the lease is for (cron.ts withJobLease): two ticks that both hold a
\* lease which, by their own clock, has not expired never run together,
\* whatever was delayed between a process and the database.
FreshHoldersExclude ==
    \A s, t \in Ticks : s # t => ~(Fresh(s) /\ Fresh(t))

\* acquireJobLease takes a row from its holder only once the row has expired,
\* and then raises the token; otherwise a row only has its expiry extended.
NoEarlyTakeover ==
    [\A old \in lease, new \in lease' :
        (old.worker # new.worker \/ old.token # new.token)
            => old.expires <= now /\ new.token = old.token + 1]_vars

\* A row left behind by a dead or failed holder does not block the job: once
\* it has expired it is taken over, renewed or deleted.
ExpiredLeaseReclaimed ==
    (\E row \in lease : row.expires <= now)
        ~> (\A row \in lease : row.expires > now)

\* acquireJobLease keeps one row per job and excludes fresh holders.
LeasesExclude ==
    /\ TypeOK
    /\ FreshHoldersExclude
=============================================================================
