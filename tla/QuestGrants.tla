----------------------------- MODULE QuestGrants -----------------------------
(***************************************************************************)
(* Savings quests and their rewards for one wallet                         *)
(* (services/questService.ts, run by startQuestCron in cron.ts).           *)
(* The job lease does not exclude two sweeps for good, so Sweepers run     *)
(* concurrently, statement by statement, and may die anywhere.  The        *)
(* database is PostgreSQL: a unique violation inside a transaction aborts  *)
(* the whole transaction, also when the code catches the error.            *)
(***************************************************************************)
EXTENDS FiniteSets, Naturals

CONSTANTS
  Sweepers,      \* concurrent sweeps
  Deposits,      \* deposits of the wallet that the chain may confirm and revert
  Quests,
  Target,        \* number of confirmed deposits each quest asks for
  MaxGrantTries, \* processGrants' maxAttempts
  MaxTurns       \* bound on confirmations, reversions and sweeps

ASSUME QuestAssumption ==
  /\ Target \in [Quests -> Nat]
  /\ MaxGrantTries \in Nat \ {0} /\ MaxTurns \in Nat

VARIABLES
  confirmed,  \* deposits whose ledger row is confirmed
  userQuest,  \* user_quests: "absent", "in_progress" or "completed", and progress
  grant,      \* reward_grants: status and attempts
  payout,     \* ledger rows with the grant's idempotency key
  sweep,      \* locals of each sweep
  turns       \* bound on changes and sweeps

questVars == <<confirmed, userQuest, grant, payout, sweep, turns>>

NoSweep == [pc |-> "idle", metric |-> 0, prev |-> <<>>, todo |-> {}, tries |-> <<>>, now |-> {}]

QuestInit ==
  /\ confirmed = {}
  /\ userQuest = [q \in Quests |-> [status |-> "absent", progress |-> 0]]
  /\ grant = [q \in Quests |-> [status |-> "none", attempts |-> 0]]
  /\ payout = [q \in Quests |-> 0]
  /\ sweep = [s \in Sweepers |-> NoSweep]
  /\ turns = 0

Turn == turns < MaxTurns /\ turns' = turns + 1

\* projectProgress for one quest.
projectProgress(metric, q) ==
  [status |-> IF metric >= Target[q] THEN "completed" ELSE "in_progress",
   progress |-> IF metric < Target[q] THEN metric ELSE Target[q]]

\* The chain, through the indexer: a deposit is confirmed or reverted.
LedgerChanges ==
  /\ Turn
  /\ \E d \in Deposits : confirmed' = IF d \in confirmed THEN confirmed \ {d} ELSE confirmed \cup {d}
  /\ UNCHANGED <<userQuest, grant, payout, sweep>>

-----------------------------------------------------------------------------
(* evaluateRecent: metrics, evaluateWallet, flagGrantsForReorgedActions.     *)
computeMetrics(s) ==
  /\ sweep[s].pc = "idle" /\ Turn
  /\ sweep' = [sweep EXCEPT ![s] = [NoSweep EXCEPT !.pc = "load", !.metric = Cardinality(confirmed)]]
  /\ UNCHANGED <<confirmed, userQuest, grant, payout>>

evaluateWallet_load(s) ==
  /\ sweep[s].pc = "load"
  /\ sweep' = [sweep EXCEPT ![s].pc = "write", ![s].prev = userQuest, ![s].todo = Quests]
  /\ UNCHANGED <<confirmed, userQuest, grant, payout, turns>>

ShouldGrant(prev, p) == p.status = "completed" /\ prev.status # "completed"

\* One transaction per quest.  An existing grant makes the insert fail, the
\* transaction is lost, and evaluateWallet throws: the wallet is "poisoned".
evaluateWallet_write(s, q) ==
  LET prev == sweep[s].prev[q]
      p    == projectProgress(sweep[s].metric, q) IN
  /\ sweep[s].pc = "write" /\ q \in sweep[s].todo
  /\ \/ /\ ShouldGrant(prev, p) /\ grant[q].status # "none"
        /\ sweep' = [sweep EXCEPT ![s].pc = "flag", ![s].todo = {}]
        /\ UNCHANGED <<userQuest, grant>>
     \/ /\ ~ (ShouldGrant(prev, p) /\ grant[q].status # "none")
        /\ grant' = IF ShouldGrant(prev, p) THEN [grant EXCEPT ![q].status = "pending"] ELSE grant
        /\ userQuest' = IF prev # p THEN [userQuest EXCEPT ![q] = p] ELSE userQuest
        /\ sweep' = [sweep EXCEPT ![s].todo = @ \ {q}, ![s].pc = IF sweep[s].todo = {q} THEN "flag" ELSE "write"]
  /\ UNCHANGED <<confirmed, payout, turns>>

\* Read granted rows, then mark those whose quest the metrics no longer meet.
flagGrants_read(s) ==
  /\ sweep[s].pc = "flag"
  /\ sweep' = [sweep EXCEPT ![s].pc = "mark",
       ![s].todo = {q \in Quests : /\ grant[q].status = "granted"
                                   /\ projectProgress(sweep[s].metric, q).status # "completed"}]
  /\ UNCHANGED <<confirmed, userQuest, grant, payout, turns>>

flagGrants_mark(s) ==
  /\ sweep[s].pc = "mark"
  /\ grant' = [q \in Quests |-> IF q \in sweep[s].todo THEN [grant[q] EXCEPT !.status = "needs_review"] ELSE grant[q]]
  /\ sweep' = [sweep EXCEPT ![s].pc = "pay", ![s].todo = {}]
  /\ UNCHANGED <<confirmed, userQuest, payout, turns>>

-----------------------------------------------------------------------------
(* processGrants: read the pending grants, then pay and update each.         *)
processGrants_read(s) ==
  /\ sweep[s].pc = "pay"
  /\ sweep' = [sweep EXCEPT ![s].pc = "paying", ![s].tries = [q \in Quests |-> grant[q].attempts],
       ![s].todo = {q \in Quests : grant[q].status = "pending" /\ grant[q].attempts < MaxGrantTries}]
  /\ UNCHANGED <<confirmed, userQuest, grant, payout, turns>>

Credit_Again(q) == payout' = [payout EXCEPT ![q] = @ + 1]

\* createAction returns the row of an earlier attempt with the same key.
Credit(q) == payout' = [payout EXCEPT ![q] = 1]

processGrants_pay(s, q) ==
  /\ sweep[s].pc = "paying" /\ q \in sweep[s].todo
  /\ Credit(q)
  /\ sweep' = [sweep EXCEPT ![s].pc = "paid", ![s].now = {q}]
  /\ UNCHANGED <<confirmed, userQuest, grant, turns>>

AfterPaying(s, q) ==
  sweep' = [sweep EXCEPT ![s].todo = @ \ {q}, ![s].now = {}, ![s].pc = IF sweep[s].todo = {q} THEN "done" ELSE "paying"]

processGrants_granted(s, q) ==
  /\ sweep[s].pc = "paid" /\ q \in sweep[s].now
  /\ grant' = [grant EXCEPT ![q] = [status |-> "granted", attempts |-> sweep[s].tries[q] + 1]]
  /\ AfterPaying(s, q)
  /\ UNCHANGED <<confirmed, userQuest, payout, turns>>

FailedStatus(tries) == IF tries >= MaxGrantTries THEN "failed" ELSE "pending"

\* createAction, or the update after it, failed.
processGrants_failed(s, q) ==
  /\ \/ sweep[s].pc = "paying" /\ q \in sweep[s].todo
     \/ sweep[s].pc = "paid" /\ q \in sweep[s].now
  /\ grant' = [grant EXCEPT ![q] = [status |-> FailedStatus(sweep[s].tries[q] + 1),
                                    attempts |-> sweep[s].tries[q] + 1]]
  /\ AfterPaying(s, q)
  /\ UNCHANGED <<confirmed, userQuest, payout, turns>>

\* The sweep ends: nothing left to pay, or the process died.
SweepEnds(s) ==
  /\ sweep[s] # NoSweep
  /\ sweep' = [sweep EXCEPT ![s] = NoSweep]
  /\ UNCHANGED <<confirmed, userQuest, grant, payout, turns>>

QuestNext ==
  \/ LedgerChanges
  \/ \E s \in Sweepers :
       \/ computeMetrics(s) \/ evaluateWallet_load(s)
       \/ flagGrants_read(s) \/ flagGrants_mark(s) \/ processGrants_read(s) \/ SweepEnds(s)
       \/ \E q \in Quests : \/ evaluateWallet_write(s, q) \/ processGrants_pay(s, q)
                            \/ processGrants_granted(s, q) \/ processGrants_failed(s, q)

QuestSpec == QuestInit /\ [][QuestNext]_questVars

-----------------------------------------------------------------------------
(* Quests and grants stay within their schema, attempts within the limit.    *)
QuestTypeOK ==
  \A q \in Quests :
    /\ userQuest[q].status \in {"absent", "in_progress", "completed"} /\ userQuest[q].progress \in 0 .. Target[q]
    /\ grant[q].status \in {"none", "pending", "granted", "failed", "needs_review"}
    /\ grant[q].attempts \in 0 .. MaxGrantTries
    /\ grant[q].status = "pending" => grant[q].attempts < MaxGrantTries

(* A completed quest always has its grant: both are written in one           *)
(* transaction, so neither a crash nor a concurrent sweep separates them.    *)
CompletionIsGranted ==
  \A q \in Quests : userQuest[q].status = "completed" => grant[q].status # "none"

(* "Exactly-once execution even if a crash occurs mid-payout": a grant is    *)
(* credited at most once, by whichever sweeps and retries.                   *)
CreditedOnce == \A q \in Quests : payout[q] <= 1

(* A grant is reported granted, or up for review, only if it was credited.   *)
GrantedIsCredited ==
  \A q \in Quests : grant[q].status \in {"granted", "needs_review"} => payout[q] > 0

\* Every completed quest leads to one credit and no more, whichever
\* workers overlap, retry or crash.
GrantsCreditOnce ==
  /\ QuestTypeOK
  /\ CompletionIsGranted
  /\ CreditedOnce
  /\ GrantedIsCredited
=============================================================================
