-------------------------- MODULE EscrowSettlement --------------------------
(***************************************************************************)
(* Settlement of one vault (services/escrowService.ts, driven by           *)
(* services/savingsService.ts): assemble, sign and submit with retries,    *)
(* then verify the payout against finalized chain events; and the rollback *)
(* of services/reconciler.ts, which finds a vault that seems stuck and      *)
(* applies the repair at any later time without looking again.              *)
(*                                                                         *)
(* Horizon and the chain are external: a submission may land, be refused,  *)
(* fail in transit, or land while its answer is lost.  A call may die      *)
(* between any two of its statements.                                      *)
(***************************************************************************)
EXTENDS Naturals

CONSTANTS
  Callers,     \* slots for concurrent settleVault calls
  Inputs,      \* what callers ask for: the type, and whether payee and amount are named
  MaxAttempts, \* SETTLEMENT_RETRY.maxAttempts
  MaxCalls     \* bound on settleVault calls

ASSUME EscrowAssumption ==
  /\ MaxAttempts \in Nat \ {0} /\ MaxCalls \in Nat
  /\ Inputs \subseteq [type : {"release", "distribute", "refund"}, named : BOOLEAN]

VARIABLES
  settlement,  \* the vault_settlements row: state, transaction, attempts, what was asked for
  settling,    \* locals of each call
  landed,      \* chain: settlement transactions that took effect, in order
  finalized,   \* chain: those whose transfer to the vault's payee the verifier can see
  rollback,    \* the reconciler holds a plan to roll the vault back
  settleCalls, \* calls so far, bounded by MaxCalls
  overlapped,  \* history: two calls were under way at once
  mishap       \* history: a payment's outcome was lost, or a paid vault rolled back

escrowVars ==
  <<settlement, settling, landed, finalized, rollback, settleCalls, overlapped, mishap>>

NoInput == [type |-> "none", named |-> FALSE]
NotSettling == [pc |-> "idle", input |-> NoInput, attempt |-> 0, tx |-> 0, late |-> FALSE]
Recorded == {"Resolved", "Refunded", "PendingVerification"}

EscrowInit ==
  /\ settlement = [state |-> "absent", tx |-> 0, attempts |-> 0, input |-> NoInput]
  /\ settling = [c \in Callers |-> NotSettling]
  /\ landed = 0 /\ finalized = {} /\ settleCalls = 0
  /\ rollback = FALSE /\ overlapped = FALSE /\ mishap = FALSE

Final(input) == IF input.type = "refund" THEN "Refunded" ELSE "Resolved"
SettleAt(c, pc) == settling[c].pc = pc
SettleReturn(c) == settling' = [settling EXCEPT ![c] = NotSettling]

ResumePending_Resubmits(s) == FALSE

\* A vault whose transaction succeeded is only verified again.
ResumePending(s) == s.state = "PendingVerification"

\* The idempotency check; a settled vault returns at once.
settleVault_read(c, input) ==
  /\ SettleAt(c, "idle")
  /\ settleCalls < MaxCalls /\ settleCalls' = settleCalls + 1
  /\ settlement.state \notin {"Resolved", "Refunded"}
  /\ settling' = [settling EXCEPT ![c] =
       [pc |-> IF ResumePending(settlement) THEN "recheck" ELSE "reset", input |-> input,
        attempt |-> settlement.attempts, tx |-> settlement.tx, late |-> settlement.state \in Recorded]]
  /\ overlapped' = (overlapped \/ \E d \in Callers \ {c} : ~ SettleAt(d, "idle"))
  /\ UNCHANGED <<settlement, landed, finalized, rollback, mishap>>

\* The upsert keeps the hash of an earlier transaction.
settleVault_reset(c) ==
  /\ SettleAt(c, "reset")
  /\ settlement' = [settlement EXCEPT !.state = "Resolving", !.attempts = 0, !.input = settling[c].input]
  /\ settling' = [settling EXCEPT ![c].pc = "submit", ![c].attempt = 1, ![c].tx = 0]
  /\ UNCHANGED <<landed, finalized, rollback, settleCalls, overlapped, mishap>>

GiveUp(c) == settling' = [settling EXCEPT ![c].pc = "giveUp"]

Retry(c) ==
  IF settling[c].attempt < MaxAttempts
  THEN settling' = [settling EXCEPT ![c].attempt = @ + 1] ELSE GiveUp(c)

\* What the call learns: success, or a refusal or network error whose code is
\* retryable or not.
SubmitOutcome(c, ok, answered) ==
  IF ok /\ answered
  THEN settling' = [settling EXCEPT ![c].pc = "verify", ![c].tx = landed']
  ELSE Retry(c) \/ GiveUp(c)

\* loadSequence, assemble, sign and submit: the sequence number is fresh each time.
settleVault_submit(c) ==
  /\ SettleAt(c, "submit")
  /\ \E ok, answered \in BOOLEAN :
       /\ landed' = IF ok THEN landed + 1 ELSE landed
       /\ SubmitOutcome(c, ok, answered)
       /\ mishap' = (mishap \/ (ok /\ ~ answered))
  /\ UNCHANGED <<settlement, finalized, rollback, settleCalls, overlapped>>

\* What a call writes of the outcome; what was asked for stays.
Outcome(c, state, tx) ==
  settlement' = [settlement EXCEPT !.state = state, !.tx = tx, !.attempts = settling[c].attempt]

settleVault_giveUp(c) ==
  /\ SettleAt(c, "giveUp")
  /\ Outcome(c, "Unresolved", 0)
  /\ SettleReturn(c)
  /\ UNCHANGED <<landed, finalized, rollback, settleCalls, overlapped, mishap>>

\* A distribution has no single payee, and a call may leave payee and amount
\* out: there is nothing to compare then, and the answer of Horizon is trusted.
canVerify(input) == input.type # "distribute" /\ input.named

\* The verifier sees the transfer once it is finalized, if it is the one asked for.
Verified(c) == canVerify(settling[c].input) => settling[c].tx \in finalized

finalizeSuccess(c) ==
  /\ SettleAt(c, "verify")
  /\ Outcome(c, IF Verified(c) THEN Final(settling[c].input) ELSE "PendingVerification", settling[c].tx)
  /\ SettleReturn(c)
  /\ UNCHANGED <<landed, finalized, rollback, settleCalls, overlapped, mishap>>

\* factsMatch: a call that names no payee matches no transfer.
recheckPendingVerification(c) ==
  /\ SettleAt(c, "recheck")
  /\ IF settling[c].input.named /\ settling[c].tx \in finalized
     THEN Outcome(c, Final(settling[c].input), settling[c].tx) ELSE UNCHANGED settlement
  /\ SettleReturn(c)
  /\ UNCHANGED <<landed, finalized, rollback, settleCalls, overlapped, mishap>>

SettleCrash(c) ==
  /\ ~ SettleAt(c, "idle")
  /\ SettleReturn(c)
  /\ mishap' = (mishap \/ SettleAt(c, "verify"))
  /\ UNCHANGED <<settlement, landed, finalized, rollback, settleCalls, overlapped>>

Finalize ==
  /\ \E t \in (1 .. landed) \ finalized : finalized' = finalized \cup {t}
  /\ UNCHANGED <<settlement, settling, landed, rollback, settleCalls, overlapped, mishap>>

-----------------------------------------------------------------------------
(* The reconciler: a settlement that has been Resolving for an hour is drift. *)
(* Nothing bounds the time a submission may take.                            *)
findOrphanedSettlement ==
  /\ settlement.state = "Resolving" /\ rollback' = TRUE
  /\ UNCHANGED <<settlement, settling, landed, finalized, settleCalls, overlapped, mishap>>

\* The repair is an update by id: what the vault has become since is not read,
\* and its hash and attempts stay.
rollBackSettlement ==
  /\ rollback /\ rollback' = FALSE
  /\ settlement' = [settlement EXCEPT !.state = "Unresolved"]
  /\ mishap' = (mishap \/ settlement.state \in Recorded)
  /\ UNCHANGED <<settling, landed, finalized, settleCalls, overlapped>>

settleVault(c) ==
  \/ \E input \in Inputs : settleVault_read(c, input)
  \/ settleVault_reset(c) \/ settleVault_submit(c) \/ settleVault_giveUp(c)
  \/ finalizeSuccess(c) \/ recheckPendingVerification(c)

EscrowNext ==
  \/ \E c \in Callers : settleVault(c) \/ SettleCrash(c)
  \/ Finalize \/ findOrphanedSettlement \/ rollBackSettlement

EscrowSpec == EscrowInit /\ [][EscrowNext]_escrowVars

-----------------------------------------------------------------------------
(* Rows and calls keep their shape; no call tries more often than allowed.   *)
EscrowTypeOK ==
  /\ settlement.state \in {"absent", "Unresolved", "Resolving"} \cup Recorded
  /\ settlement.tx \in 0 .. landed /\ settlement.attempts \in 0 .. MaxAttempts
  /\ \A c \in Callers : settling[c].attempt \in 0 .. MaxAttempts /\ settling[c].tx \in 0 .. landed

(* Whatever is lost, retried or crashes, and whichever calls overlap, a      *)
(* vault is recorded as settled or as awaiting verification only when its    *)
(* recorded transaction took effect on chain.                                *)
SettledMeansPaid ==
  settlement.state \in Recorded => settlement.tx \in 1 .. landed

(* "This state must never be auto-retried": a call that finds a transaction  *)
(* recorded as successful never reaches another submission.                  *)
LateCallsNeverSubmit ==
  \A c \in Callers : settling[c].late => settling[c].pc \in {"recheck", "idle"}

(* A vault whose row names a payee and an amount is reported settled only     *)
(* once the verifier has seen that transfer, although calls with and without   *)
(* a payee, rechecks, crashes and rollbacks alternate.  Calls that overlap     *)
(* break it: one that names nobody settles the row on which another has named  *)
(* the payee.                                                                  *)
ResolvedIsVerified ==
  settlement.state \in {"Resolved", "Refunded"} /\ canVerify(settlement.input) /\ ~ overlapped =>
    settlement.tx \in finalized

(* The vault is paid once, through retries, rollbacks and repeated calls, as  *)
(* long as no call overlaps another, neither a time-out nor a crash loses the  *)
(* outcome of a transaction that took effect, and no rollback hits a vault     *)
(* that was paid since the reconciler looked.  Each of the three pays it       *)
(* again, since the vault then counts as unpaid.                               *)
PaidOnceUnlessLost == ~ mishap /\ ~ overlapped => landed <= 1

\* An escrow that counts as settled was paid and verified, and is paid once
\* unless an outcome was lost, a rollback came late or calls overlapped.
SettlementSound ==
  /\ EscrowTypeOK
  /\ SettledMeansPaid
  /\ LateCallsNeverSubmit
  /\ ResolvedIsVerified
  /\ PaidOnceUnlessLost
=============================================================================
