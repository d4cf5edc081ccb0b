---------------------------- MODULE PayoutProofs ----------------------------
(***************************************************************************)
(* The services that record money: the settlement of a vault, the grants   *)
(* of quests and the action ledger, for any number of concurrent calls,    *)
(* sweeps, quests, actions, transactions and retries.                      *)
(***************************************************************************)
EXTENDS EscrowSettlement, QuestGrants, ActionLedger, FiniteSetTheorems, TLAPS

Settling ==
  [pc : {"idle", "recheck", "reset", "submit", "verify", "giveUp"}, input : Inputs \cup {NoInput},
   attempt : 0 .. MaxAttempts, tx : Nat, late : BOOLEAN]

SettlementRow ==
  [state : {"absent", "Unresolved", "Resolving"} \cup Recorded, tx : Nat, attempts : 0 .. MaxAttempts,
   input : Inputs \cup {NoInput}]

\* What a call holds: a transaction that took effect when it verifies, none
\* that took effect before it when it submits.
CallHolds(m, n) ==
  /\ m.tx <= n
  /\ m.pc \in {"verify", "recheck"} => m.tx > 0
  /\ m.late => m.pc \in {"recheck", "idle"}

EscrowTypes ==
  /\ settlement \in SettlementRow /\ settling \in [Callers -> Settling]
  /\ landed \in Nat /\ mishap \in BOOLEAN /\ overlapped \in BOOLEAN

RowHolds == settlement.tx <= landed /\ (settlement.state \in Recorded => settlement.tx > 0)

\* While no calls overlapped: one call at most is under way, and once it has
\* started the settlement over the row says what it was asked for.
OneAtATime ==
  ~ overlapped =>
    /\ \A c, d \in Callers : c # d => settling[c].pc = "idle" \/ settling[d].pc = "idle"
    /\ \A c \in Callers :
         settling[c].pc \in {"submit", "verify", "giveUp"} => settlement.input = settling[c].input

\* While moreover nothing was lost or rolled back: a call submits only while
\* nothing took effect, and what took effect is recorded or about to be.
UndisturbedPaysOnce ==
  ~ mishap /\ ~ overlapped =>
    /\ landed <= 1
    /\ \A c \in Callers : settling[c].pc \in {"reset", "submit", "giveUp"} => landed = 0
    /\ landed = 1 => settlement.state \in Recorded \/ \E c \in Callers : settling[c].pc = "verify"

\* The inductive invariant of the settlement.
EscrowInv ==
  /\ EscrowTypes
  /\ RowHolds
  /\ \A c \in Callers : CallHolds(settling[c], landed)
  /\ ResolvedIsVerified
  /\ OneAtATime
  /\ UndisturbedPaysOnce

\* The invariant holds initially.
LEMMA EscrowInitInv == EscrowInit => EscrowInv
<1> SUFFICES ASSUME EscrowInit PROVE EscrowInv
  OBVIOUS
<1>1. NotSettling \in Settling /\ NotSettling.pc = "idle" /\ NotSettling.tx = 0 /\ NotSettling.late = FALSE
  BY EscrowAssumption DEF NotSettling, Settling
<1>2. EscrowTypes /\ RowHolds /\ ResolvedIsVerified
  <2>1. settlement \in SettlementRow /\ settlement.tx = 0 /\ settlement.state = "absent"
    BY EscrowAssumption DEF EscrowInit, SettlementRow
  <2>2. /\ settling \in [Callers -> Settling] /\ landed \in Nat /\ mishap \in BOOLEAN /\ landed = 0
        /\ overlapped \in BOOLEAN
    BY <1>1 DEF EscrowInit
  <2>3. QED
    BY <2>1, <2>2 DEF EscrowTypes, Recorded, RowHolds, ResolvedIsVerified
<1>3. CallHolds(NotSettling, 0)
  BY DEF NotSettling, CallHolds
<1>4. (\A c \in Callers : settling[c] = NotSettling) /\ landed = 0
  BY DEF EscrowInit
<1>a. OneAtATime /\ UndisturbedPaysOnce
  BY <1>1, <1>4 DEF OneAtATime, UndisturbedPaysOnce
<1>5. QED
  BY <1>2, <1>3, <1>4, <1>a DEF EscrowInv

\* A step of one call c that leaves it with m: what is left to show of it.
LEMMA OneCallMoves ==
    ASSUME EscrowInv, NEW c \in Callers, settling' = [settling EXCEPT ![c] = settling'[c]],
           settling'[c] \in Settling, CallHolds(settling'[c], landed'),
           landed' \in Nat, landed <= landed', settlement' \in SettlementRow, mishap' \in BOOLEAN,
           overlapped' \in BOOLEAN, RowHolds', ResolvedIsVerified', OneAtATime', UndisturbedPaysOnce'
    PROVE  EscrowInv'
<1>1. settling \in [Callers -> Settling] /\ landed \in Nat /\ \A d \in Callers : CallHolds(settling[d], landed)
  BY DEF EscrowInv, EscrowTypes
<1>2. settling' \in [Callers -> Settling] /\ \A d \in Callers : d # c => settling'[d] = settling[d]
  BY <1>1
<1>3. ASSUME NEW d \in Callers, d # c PROVE CallHolds(settling'[d], landed')
  <2>1. settling'[d] = settling[d] /\ CallHolds(settling[d], landed) /\ settling[d].tx \in Nat
    BY <1>1, <1>2, <1>3 DEF Settling
  <2>2. QED
    BY <1>1, <2>1 DEF CallHolds
<1>4. QED
  BY <1>2, <1>3 DEF EscrowInv, EscrowTypes

\* The types the steps start from.
LEMMA EscrowFacts ==
    ASSUME EscrowInv, NEW c \in Callers
    PROVE  /\ settlement \in SettlementRow /\ settling \in [Callers -> Settling] /\ settling[c] \in Settling
           /\ landed \in Nat /\ mishap \in BOOLEAN /\ overlapped \in BOOLEAN
           /\ RowHolds /\ ResolvedIsVerified /\ OneAtATime /\ UndisturbedPaysOnce
           /\ settlement.tx \in Nat /\ settlement.attempts \in 0 .. MaxAttempts
           /\ settlement.input \in Inputs \cup {NoInput} /\ settling[c].input \in Inputs \cup {NoInput}
           /\ settling[c].tx \in Nat /\ settling[c].attempt \in 0 .. MaxAttempts
           /\ settling[c].tx <= landed
           /\ settling[c].pc \in {"verify", "recheck"} => settling[c].tx > 0
           /\ settling[c].late => settling[c].pc \in {"recheck", "idle"}
           /\ settlement.tx <= landed /\ (settlement.state \in Recorded => settlement.tx > 0)
<1>1. settlement \in SettlementRow /\ settling \in [Callers -> Settling] /\ settling[c] \in Settling
  BY DEF EscrowInv, EscrowTypes
<1>2. CallHolds(settling[c], landed) /\ RowHolds
  BY DEF EscrowInv
<1>3. /\ settlement.tx \in Nat /\ settlement.attempts \in 0 .. MaxAttempts
      /\ settlement.input \in Inputs \cup {NoInput} /\ settling[c].input \in Inputs \cup {NoInput}
      /\ settling[c].tx \in Nat /\ settling[c].attempt \in 0 .. MaxAttempts
  BY <1>1 DEF SettlementRow, Settling
<1>4. QED
  BY <1>1, <1>2, <1>3 DEF EscrowInv, EscrowTypes, CallHolds, RowHolds

\* A call returns.
LEMMA ReturnsIdle ==
    ASSUME EscrowInv, NEW c \in Callers, SettleReturn(c), landed' \in Nat
    PROVE  /\ settling' = [settling EXCEPT ![c] = settling'[c]] /\ settling'[c] \in Settling
           /\ CallHolds(settling'[c], landed') /\ settling'[c].pc = "idle"
<1>1. NotSettling \in Settling /\ NotSettling.pc = "idle" /\ CallHolds(NotSettling, landed')
  BY EscrowAssumption DEF NotSettling, Settling, CallHolds
<1>2. settling'[c] = NotSettling /\ settling' = [settling EXCEPT ![c] = settling'[c]]
  BY EscrowFacts DEF SettleReturn
<1>3. QED
  BY <1>1, <1>2

\* A call begins: it overlaps another, or all others are idle.
LEMMA ReadStep == ASSUME EscrowInv, NEW c \in Callers, NEW input \in Inputs, settleVault_read(c, input)
                  PROVE  EscrowInv'
<1>b. (settlement.state \in Recorded) \in BOOLEAN
  OBVIOUS
<1>0. PICK b \in BOOLEAN : b = (settlement.state \in Recorded)
  BY <1>b, Zenon
<1> DEFINE m == [pc |-> IF settlement.state = "PendingVerification" THEN "recheck" ELSE "reset", input |-> input,
                 attempt |-> settlement.attempts, tx |-> settlement.tx, late |-> b]
<1>1. /\ UNCHANGED <<settlement, landed, finalized>>
      /\ overlapped' = (overlapped \/ \E d \in Callers \ {c} : settling[d].pc # "idle") /\ mishap' = mishap
      /\ settlement.state \notin {"Resolved", "Refunded"} /\ settling[c].pc = "idle"
  BY DEF settleVault_read, SettleAt
<1>a. settling'[c] = m /\ settling' = [settling EXCEPT ![c] = settling'[c]]
  <2>1. settling' = [settling EXCEPT ![c] = m]
    BY <1>0, Zenon DEF settleVault_read, ResumePending
  <2>2. settling \in [Callers -> Settling]
    BY EscrowFacts
  <2>3. settling'[c] = m
    BY <2>1, <2>2
  <2>4. QED
    BY <2>1, <2>3, Zenon
<1>3. m \in Settling
  <2>1. settlement.attempts \in 0 .. MaxAttempts /\ settlement.tx \in Nat
    BY EscrowFacts
  <2>2. QED
    BY <2>1 DEF Settling
<1>4. /\ settling'[c] \in Settling /\ settling' = [settling EXCEPT ![c] = settling'[c]]
      /\ settling'[c].pc = IF settlement.state = "PendingVerification" THEN "recheck" ELSE "reset"
      /\ settling'[c].tx = settlement.tx /\ settling'[c].late = b
  BY <1>3, <1>a
<1>5. CallHolds(settling'[c], landed')
  <2>1. settling'[c].tx <= landed' /\ (settling'[c].pc \in {"verify", "recheck"} => settling'[c].tx > 0)
    BY <1>1, <1>4, EscrowFacts DEF Recorded
  <2>2. settling'[c].late => settling'[c].pc \in {"recheck", "idle"}
    <3>1. b => settlement.state = "PendingVerification"
      <4>1. settlement.state \in Recorded => settlement.state = "PendingVerification"
        BY <1>1 DEF Recorded
      <4>2. QED
        BY <1>0, <4>1, Zenon
    <3>2. settling'[c].late => b
      BY <1>4, Zenon
    <3>3. settlement.state = "PendingVerification" => settling'[c].pc \in {"recheck", "idle"}
      BY <1>4
    <3>4. QED
      BY <3>1, <3>2, <3>3, Zenon
  <2>3. QED
    BY <2>1, <2>2 DEF CallHolds
<1>6. /\ RowHolds' /\ settlement' \in SettlementRow /\ mishap' \in BOOLEAN /\ overlapped' \in BOOLEAN
      /\ overlapped => overlapped'
  BY <1>1, EscrowFacts DEF RowHolds
<1>c. ResolvedIsVerified'
  BY <1>1, <1>6, EscrowFacts DEF ResolvedIsVerified
<1>d. OneAtATime'
  <2> SUFFICES ASSUME ~ overlapped'
               PROVE  /\ \A e, d \in Callers : e # d => settling'[e].pc = "idle" \/ settling'[d].pc = "idle"
                      /\ \A d \in Callers : settling'[d].pc \in {"submit", "verify", "giveUp"}
                                            => settlement'.input = settling'[d].input
    BY DEF OneAtATime
  <2>1. \A d \in Callers \ {c} : settling[d].pc = "idle"
    BY <1>1, Zenon
  <2>2. \A d \in Callers : d # c => settling'[d].pc = "idle"
    BY <1>4, <2>1, EscrowFacts
  <2>3. settling'[c].pc \in {"recheck", "reset"}
    BY <1>4
  <2>4. QED
    BY <2>2, <2>3
<1>7. UndisturbedPaysOnce'
  <2> SUFFICES ASSUME ~ mishap', ~ overlapped'
               PROVE  /\ landed' <= 1
                      /\ \A d \in Callers : settling'[d].pc \in {"reset", "submit", "giveUp"} => landed' = 0
                      /\ landed' = 1 => settlement'.state \in Recorded \/ \E d \in Callers : settling'[d].pc = "verify"
    BY DEF UndisturbedPaysOnce
  <2>a. ~ mishap /\ ~ overlapped /\ \A d \in Callers \ {c} : settling[d].pc = "idle"
    BY <1>1, Zenon
  <2>1. ~ mishap /\ ~ overlapped /\ \A d \in Callers : d # c => settling[d].pc = "idle" /\ settling'[d] = settling[d]
    BY <1>4, <2>a, EscrowFacts
  <2>2. /\ landed <= 1
        /\ landed = 1 => settlement.state \in Recorded \/ \E d \in Callers : settling[d].pc = "verify"
    BY <2>1, EscrowFacts DEF UndisturbedPaysOnce
  <2>3. landed = 1 => settlement.state \in Recorded
    BY <1>1, <2>1, <2>2
  <2>4. settling'[c].pc \in {"recheck", "reset"}
    BY <1>4
  <2>5. settling'[c].pc = "reset" => landed = 0
    BY <1>1, <1>4, <2>2, <2>3, EscrowFacts DEF Recorded
  <2>6. QED
    BY <1>1, <2>1, <2>2, <2>3, <2>4, <2>5
<1>8. QED
  BY <1>1, <1>4, <1>5, <1>6, <1>c, <1>d, <1>7, OneCallMoves, EscrowFacts

\* While no calls overlapped, a call under way is the only one.
LEMMA SoleCall ==
    ASSUME EscrowInv, NEW c \in Callers, ~ overlapped, settling[c].pc # "idle"
    PROVE  /\ \A d \in Callers : d # c => settling[d].pc = "idle"
           /\ settling[c].pc \in {"submit", "verify", "giveUp"} => settlement.input = settling[c].input
<1>1. OneAtATime
  BY DEF EscrowInv
<1>2. QED
  BY <1>1 DEF OneAtATime

\* While moreover nothing was lost or rolled back, what took effect is
\* recorded or in the hands of that call.
LEMMA SolePayment ==
    ASSUME EscrowInv, NEW c \in Callers, ~ mishap, ~ overlapped, settling[c].pc # "idle"
    PROVE  /\ landed = 1 => settlement.state \in Recorded \/ settling[c].pc = "verify"
           /\ settling[c].pc \in {"reset", "submit", "giveUp"} => landed = 0
           /\ landed <= 1
<1>1. UndisturbedPaysOnce
  BY DEF EscrowInv
<1>2. \A d \in Callers : d # c => settling[d].pc = "idle"
  BY SoleCall
<1>3. QED
  BY <1>1, <1>2 DEF UndisturbedPaysOnce

\* What is left of OneAtATime and UndisturbedPaysOnce when call c moves.
LEMMA UndisturbedKept ==
    ASSUME EscrowInv, NEW c \in Callers, settling[c].pc # "idle", overlapped' = overlapped,
           settling' = [settling EXCEPT ![c] = settling'[c]],
           ~ overlapped /\ settling'[c].pc \in {"submit", "verify", "giveUp"}
             => settlement'.input = settling'[c].input,
           ~ mishap' /\ ~ overlapped =>
             /\ ~ mishap /\ landed' <= 1
             /\ settling'[c].pc \in {"reset", "submit", "giveUp"} => landed' = 0
             /\ landed' = 1 => settlement'.state \in Recorded \/ settling'[c].pc = "verify"
    PROVE  OneAtATime' /\ UndisturbedPaysOnce'
<1> SUFFICES ASSUME ~ overlapped
             PROVE  OneAtATime' /\ UndisturbedPaysOnce'
  BY DEF OneAtATime, UndisturbedPaysOnce
<1>1. \A d \in Callers : d # c => settling[d].pc = "idle"
  BY SoleCall
<1>2. settling \in [Callers -> Settling]
  BY EscrowFacts
<1>3. \A d \in Callers : d # c => settling'[d].pc = "idle"
  BY <1>1, <1>2
<1>4. OneAtATime'
  BY <1>3 DEF OneAtATime
<1>5. UndisturbedPaysOnce'
  <2> SUFFICES ASSUME ~ mishap'
               PROVE  /\ landed' <= 1
                      /\ \A d \in Callers : settling'[d].pc \in {"reset", "submit", "giveUp"} => landed' = 0
                      /\ landed' = 1 => settlement'.state \in Recorded \/ \E d \in Callers : settling'[d].pc = "verify"
    BY DEF UndisturbedPaysOnce
  <2>1. QED
    BY <1>3
<1>6. QED
  BY <1>4, <1>5

\* The upsert that starts a settlement over.
LEMMA ResetStep == ASSUME EscrowInv, NEW c \in Callers, settleVault_reset(c) PROVE EscrowInv'
<1>1. /\ settling[c].pc = "reset" /\ UNCHANGED <<landed, finalized, overlapped, mishap>>
      /\ settlement' = [settlement EXCEPT !.state = "Resolving", !.attempts = 0, !.input = settling[c].input]
  BY DEF settleVault_reset, SettleAt
<1>2. settling'[c] = [settling[c] EXCEPT !.pc = "submit", !.attempt = 1, !.tx = 0]
  BY EscrowFacts DEF settleVault_reset
<1>3. settling' = [settling EXCEPT ![c] = settling'[c]]
  BY EscrowFacts DEF settleVault_reset
<1>4. settling'[c] \in Settling /\ settling'[c].pc = "submit" /\ settling'[c].tx = 0 /\ settling'[c].late = settling[c].late
  <2>1. settling[c] \in Settling /\ 1 \in 0 .. MaxAttempts
    BY EscrowFacts, EscrowAssumption
  <2>2. settling'[c] \in Settling
    <3>1. PICK n \in 0 .. MaxAttempts, t \in Nat :
             settling'[c] = [settling[c] EXCEPT !.pc = "submit", !.attempt = n, !.tx = t]
      BY <1>2, <2>1
    <3>2. QED
      BY <2>1, <3>1 DEF Settling
  <2>3. settling'[c].pc = "submit" /\ settling'[c].tx = 0
    BY <1>2, <2>1 DEF Settling
  <2>4. settling'[c].late = settling[c].late
    BY <1>2, <2>1, Zenon DEF Settling
  <2>5. QED
    BY <2>2, <2>3, <2>4
<1>a. settling'[c].input = settling[c].input
  BY <1>2, EscrowFacts DEF Settling
<1>5. /\ settlement' \in SettlementRow /\ settlement'.state = "Resolving" /\ settlement'.tx = settlement.tx
      /\ settlement'.input = settling[c].input
  <2>1. settlement \in SettlementRow /\ 0 \in 0 .. MaxAttempts /\ settling[c].input \in Inputs \cup {NoInput}
    BY EscrowFacts, EscrowAssumption
  <2>2. QED
    BY <1>1, <2>1 DEF SettlementRow
<1>6. RowHolds' /\ ResolvedIsVerified'
  BY <1>1, <1>5, EscrowFacts DEF RowHolds, ResolvedIsVerified, Recorded
<1>7. CallHolds(settling'[c], landed')
  <2>1. ~ settling[c].late
    BY <1>1, EscrowFacts, Zenon
  <2>2. QED
    BY <1>1, <1>4, <2>1, EscrowFacts DEF CallHolds
<1>8. OneAtATime' /\ UndisturbedPaysOnce'
  <2>1. ~ mishap /\ ~ overlapped => landed = 0
    BY <1>1, SolePayment
  <2>2. QED
    BY <1>1, <1>3, <1>5, <1>a, <2>1, UndisturbedKept
<1>9. QED
  BY <1>1, <1>3, <1>4, <1>5, <1>6, <1>7, <1>8, OneCallMoves, EscrowFacts

\* One submission: it lands or not, and the call learns of it or not.
LEMMA SubmitStep == ASSUME EscrowInv, NEW c \in Callers, settleVault_submit(c) PROVE EscrowInv'
<1>1. PICK ok \in BOOLEAN, answered \in BOOLEAN :
        /\ landed' = IF ok THEN landed + 1 ELSE landed
        /\ SubmitOutcome(c, ok, answered)
        /\ mishap' = (mishap \/ (ok /\ ~ answered))
  BY DEF settleVault_submit
<1>2. /\ settling[c].pc = "submit" /\ UNCHANGED <<settlement, finalized, overlapped>>
  BY DEF settleVault_submit, SettleAt
<1>3. landed' \in Nat /\ landed <= landed' /\ (ok => landed' = landed + 1) /\ (~ ok => landed' = landed)
  BY <1>1, EscrowFacts
<1>4. RowHolds' /\ ResolvedIsVerified' /\ mishap' \in BOOLEAN /\ settlement' \in SettlementRow
  BY <1>1, <1>2, <1>3, EscrowFacts DEF RowHolds, ResolvedIsVerified
<1>5. ~ settling[c].late
  BY <1>2, EscrowFacts, Zenon
<1>6. ~ mishap /\ ~ overlapped => landed = 0
  BY <1>2, SolePayment
<1>a. ~ overlapped => settlement.input = settling[c].input
  BY <1>2, SoleCall
<1>7. CASE ok /\ answered
  <2>1. settling' = [settling EXCEPT ![c].pc = "verify", ![c].tx = landed']
    BY <1>1, <1>7 DEF SubmitOutcome
  <2>2. settling'[c] = [settling[c] EXCEPT !.pc = "verify", !.tx = landed']
    BY <2>1, EscrowFacts
  <2>3. settling' = [settling EXCEPT ![c] = settling'[c]]
    BY <2>1, <2>2, EscrowFacts
  <2>4. /\ settling'[c] \in Settling /\ settling'[c].pc = "verify" /\ settling'[c].tx = landed'
        /\ settling'[c].late = settling[c].late /\ settling'[c].input = settling[c].input
    BY <1>3, <2>2, EscrowFacts DEF Settling
  <2>5. CallHolds(settling'[c], landed')
    BY <1>3, <1>5, <1>7, <2>4, EscrowFacts DEF CallHolds
  <2>6. ~ mishap' => ~ mishap
    BY <1>1, Zenon
  <2>7. OneAtATime' /\ UndisturbedPaysOnce'
    BY <1>2, <1>a, <1>3, <1>6, <1>7, <2>3, <2>4, <2>6, UndisturbedKept, EscrowFacts
  <2>8. QED
    BY <1>2, <1>3, <1>4, <2>3, <2>4, <2>5, <2>7, OneCallMoves, EscrowFacts
<1>8. CASE ~ (ok /\ answered)
  <2>1. PICK k \in {"submit", "giveUp"}, n \in 0 .. MaxAttempts :
           settling' = [settling EXCEPT ![c] = [settling[c] EXCEPT !.pc = k, !.attempt = n]]
    <3>1. settling[c].attempt \in 0 .. MaxAttempts /\ settling \in [Callers -> Settling] /\ settling[c] \in Settling
      BY EscrowFacts
    <3>2. Retry(c) \/ GiveUp(c)
      BY <1>1, <1>8 DEF SubmitOutcome
    <3>3. CASE settling' = [settling EXCEPT ![c].pc = "giveUp"]
      <4>1. [settling[c] EXCEPT !.pc = "giveUp"] = [settling[c] EXCEPT !.pc = "giveUp", !.attempt = settling[c].attempt]
        BY <3>1 DEF Settling
      <4>2. QED
        BY <3>1, <3>3, <4>1
    <3>4. CASE settling[c].attempt < MaxAttempts /\ settling' = [settling EXCEPT ![c].attempt = settling[c].attempt + 1]
      <4>1. settling[c].attempt + 1 \in 0 .. MaxAttempts
        BY <3>1, <3>4, EscrowAssumption
      <4>2. [settling[c] EXCEPT !.attempt = settling[c].attempt + 1]
               = [settling[c] EXCEPT !.pc = "submit", !.attempt = settling[c].attempt + 1]
        BY <1>2, <3>1 DEF Settling
      <4>3. QED
        BY <3>1, <3>4, <4>1, <4>2
    <3>5. QED
      BY <3>1, <3>2, <3>3, <3>4 DEF Retry, GiveUp
  <2>2. settling'[c] = [settling[c] EXCEPT !.pc = k, !.attempt = n]
    BY <2>1, EscrowFacts
  <2>3. settling' = [settling EXCEPT ![c] = settling'[c]]
    BY <2>1, <2>2
  <2>4. /\ settling'[c] \in Settling /\ settling'[c].pc \in {"submit", "giveUp"} /\ settling'[c].tx = settling[c].tx
        /\ settling'[c].late = settling[c].late /\ settling'[c].input = settling[c].input
    BY <2>1, <2>2, EscrowFacts DEF Settling
  <2>5. CallHolds(settling'[c], landed')
    BY <1>3, <1>5, <2>4, EscrowFacts DEF CallHolds
  <2>6. ~ mishap' => ~ mishap /\ ~ ok
    BY <1>1, <1>8, Zenon
  <2>7. OneAtATime' /\ UndisturbedPaysOnce'
    BY <1>2, <1>a, <1>3, <1>6, <2>3, <2>4, <2>6, UndisturbedKept, EscrowFacts
  <2>8. QED
    BY <1>2, <1>3, <1>4, <2>3, <2>4, <2>5, <2>7, OneCallMoves, EscrowFacts
<1>9. QED
  BY <1>7, <1>8

\* A call that gave up rolls the vault back.
LEMMA GiveUpStep == ASSUME EscrowInv, NEW c \in Callers, settleVault_giveUp(c) PROVE EscrowInv'
<1>1. /\ settling[c].pc = "giveUp" /\ UNCHANGED <<landed, finalized, overlapped, mishap>> /\ SettleReturn(c)
      /\ settlement' = [settlement EXCEPT !.state = "Unresolved", !.tx = 0, !.attempts = settling[c].attempt]
  BY DEF settleVault_giveUp, SettleAt, Outcome
<1>2. /\ settling' = [settling EXCEPT ![c] = settling'[c]] /\ settling'[c] \in Settling
      /\ CallHolds(settling'[c], landed') /\ settling'[c].pc = "idle"
  BY <1>1, ReturnsIdle, EscrowFacts
<1>3. settlement' \in SettlementRow /\ settlement'.state = "Unresolved" /\ settlement'.tx = 0
  <2>1. settling[c].attempt \in 0 .. MaxAttempts /\ settlement \in SettlementRow
    BY EscrowFacts
  <2>2. QED
    BY <1>1, <2>1 DEF SettlementRow
<1>4. RowHolds' /\ ResolvedIsVerified'
  BY <1>1, <1>3, EscrowFacts DEF RowHolds, ResolvedIsVerified, Recorded
<1>5. OneAtATime' /\ UndisturbedPaysOnce'
  <2>1. ~ mishap /\ ~ overlapped => landed = 0
    BY <1>1, SolePayment
  <2>2. QED
    BY <1>1, <1>2, <2>1, UndisturbedKept
<1>6. QED
  BY <1>1, <1>2, <1>3, <1>4, <1>5, OneCallMoves, EscrowFacts

\* Recording a payment: the row names a transaction that took effect, and
\* one that names its payee counts as settled only when the verifier has seen it.
LEMMA RecordStep ==
    ASSUME EscrowInv, NEW c \in Callers, settling[c].pc \in {"verify", "recheck"}, SettleReturn(c),
           UNCHANGED <<landed, finalized, overlapped, mishap>>,
           \/ settlement' = settlement /\ settling[c].pc = "recheck"
           \/ \E st \in Recorded :
                /\ Outcome(c, st, settling[c].tx)
                /\ st # "PendingVerification" /\ canVerify(settlement.input) /\ ~ overlapped
                     => settling[c].tx \in finalized
    PROVE  EscrowInv'
<1>2. /\ settling' = [settling EXCEPT ![c] = settling'[c]] /\ settling'[c] \in Settling
      /\ CallHolds(settling'[c], landed') /\ settling'[c].pc = "idle"
  BY ReturnsIdle, EscrowFacts
<1>3. CASE settlement' = settlement /\ settling[c].pc = "recheck"
  <2>1. settlement' \in SettlementRow /\ RowHolds' /\ ResolvedIsVerified'
    BY <1>3, EscrowFacts DEF RowHolds, ResolvedIsVerified
  <2>2. ~ mishap /\ ~ overlapped => landed <= 1 /\ (landed = 1 => settlement.state \in Recorded)
    BY <1>3, SolePayment
  <2>3. OneAtATime' /\ UndisturbedPaysOnce'
    BY <1>2, <1>3, <2>2, UndisturbedKept
  <2>4. QED
    BY <1>2, <2>1, <2>3, OneCallMoves, EscrowFacts
<1>4. ASSUME NEW st \in Recorded, Outcome(c, st, settling[c].tx),
             st # "PendingVerification" /\ canVerify(settlement.input) /\ ~ overlapped
               => settling[c].tx \in finalized
      PROVE  EscrowInv'
  <2>1. /\ settlement' \in SettlementRow /\ settlement'.state = st /\ settlement'.tx = settling[c].tx
        /\ settlement'.input = settlement.input
    <3>1. settling[c].attempt \in 0 .. MaxAttempts /\ settling[c].tx \in Nat /\ settlement \in SettlementRow
      BY EscrowFacts
    <3>2. QED
      BY <1>4, <3>1 DEF SettlementRow, Outcome
  <2>2. RowHolds'
    BY <2>1, EscrowFacts DEF RowHolds
  <2>a. ResolvedIsVerified'
    <3>1. st \in {"Resolved", "Refunded"} => st # "PendingVerification"
      OBVIOUS
    <3>2. QED
      BY <1>4, <2>1, <3>1, Zenon DEF ResolvedIsVerified
  <2>3. ~ mishap /\ ~ overlapped => landed <= 1
    BY SolePayment
  <2>4. OneAtATime' /\ UndisturbedPaysOnce'
    BY <1>2, <1>4, <2>1, <2>3, UndisturbedKept
  <2>5. QED
    BY <1>2, <2>1, <2>2, <2>a, <2>4, OneCallMoves, EscrowFacts
<1>5. QED
  BY <1>3, <1>4

\* Success is recorded as the verifier sees it.
LEMMA FinalizeStep == ASSUME EscrowInv, NEW c \in Callers, finalizeSuccess(c) PROVE EscrowInv'
<1>1. /\ settling[c].pc = "verify" /\ UNCHANGED <<landed, finalized, overlapped, mishap>> /\ SettleReturn(c)
  BY DEF finalizeSuccess, SettleAt
<1>2. PICK st \in Recorded :
        /\ Outcome(c, st, settling[c].tx)
        /\ st # "PendingVerification" /\ canVerify(settlement.input) /\ ~ overlapped => settling[c].tx \in finalized
  <2>1. PICK st : /\ st = (IF Verified(c) THEN Final(settling[c].input) ELSE "PendingVerification")
                  /\ Outcome(c, st, settling[c].tx)
    BY DEF finalizeSuccess
  <2>2. st \in Recorded /\ (st # "PendingVerification" => Verified(c))
    BY <2>1 DEF Final, Recorded
  <2>3. ~ overlapped => settlement.input = settling[c].input
    BY <1>1, SoleCall
  <2>4. st # "PendingVerification" /\ canVerify(settlement.input) /\ ~ overlapped => settling[c].tx \in finalized
    BY <2>2, <2>3, Zenon DEF Verified
  <2>5. QED
    BY <2>1, <2>2, <2>4
<1>3. QED
  BY <1>1, <1>2, RecordStep

\* A pending verification is only checked again.
LEMMA RecheckStep == ASSUME EscrowInv, NEW c \in Callers, recheckPendingVerification(c) PROVE EscrowInv'
<1>1. /\ settling[c].pc = "recheck" /\ UNCHANGED <<landed, finalized, overlapped, mishap>> /\ SettleReturn(c)
  BY DEF recheckPendingVerification, SettleAt
<1>2. CASE settling[c].input.named /\ settling[c].tx \in finalized
  <2>1. Outcome(c, Final(settling[c].input), settling[c].tx)
    BY <1>2 DEF recheckPendingVerification
  <2>2. Final(settling[c].input) \in Recorded
    BY DEF Final, Recorded
  <2>3. QED
    BY <1>1, <1>2, <2>1, <2>2, RecordStep
<1>3. CASE ~ (settling[c].input.named /\ settling[c].tx \in finalized)
  <2>1. settlement' = settlement
    BY <1>3 DEF recheckPendingVerification
  <2>2. QED
    BY <1>1, <2>1, RecordStep
<1>4. QED
  BY <1>2, <1>3

\* A call dies: when it was about to record a payment, that payment is lost.
LEMMA CrashStep == ASSUME EscrowInv, NEW c \in Callers, SettleCrash(c) PROVE EscrowInv'
<1>1. /\ settling[c].pc # "idle" /\ UNCHANGED <<settlement, landed, finalized, overlapped>> /\ SettleReturn(c)
      /\ mishap' = (mishap \/ settling[c].pc = "verify")
  BY DEF SettleCrash, SettleAt
<1>2. /\ settling' = [settling EXCEPT ![c] = settling'[c]] /\ settling'[c] \in Settling
      /\ CallHolds(settling'[c], landed') /\ settling'[c].pc = "idle"
  BY <1>1, ReturnsIdle, EscrowFacts
<1>3. settlement' \in SettlementRow /\ RowHolds' /\ ResolvedIsVerified' /\ mishap' \in BOOLEAN
  BY <1>1, EscrowFacts DEF RowHolds, ResolvedIsVerified
<1>4. ~ mishap' => ~ mishap /\ settling[c].pc # "verify"
  BY <1>1, Zenon
<1>5. OneAtATime' /\ UndisturbedPaysOnce'
  <2>1. ~ mishap' /\ ~ overlapped => ~ mishap /\ landed <= 1 /\ (landed = 1 => settlement.state \in Recorded)
    BY <1>1, <1>4, SolePayment
  <2>2. QED
    BY <1>1, <1>2, <2>1, UndisturbedKept
<1>6. QED
  BY <1>1, <1>2, <1>3, <1>5, OneCallMoves, EscrowFacts

\* The reconciler rolls the vault back whatever became of it; a paid one is a mishap.
LEMMA RollBackStep == ASSUME EscrowInv, rollBackSettlement PROVE EscrowInv'
<1>1. /\ UNCHANGED <<settling, landed, finalized, overlapped>>
      /\ settlement' = [settlement EXCEPT !.state = "Unresolved"]
      /\ mishap' = (mishap \/ settlement.state \in Recorded)
  BY DEF rollBackSettlement
<1>2. settlement \in SettlementRow /\ mishap \in BOOLEAN
  BY DEF EscrowInv, EscrowTypes
<1>3. /\ settlement' \in SettlementRow /\ settlement'.state = "Unresolved" /\ settlement'.tx = settlement.tx
      /\ settlement'.input = settlement.input /\ mishap' \in BOOLEAN
  BY <1>1, <1>2 DEF SettlementRow
<1>4. ~ mishap' => ~ mishap /\ settlement.state \notin Recorded
  BY <1>1, Zenon
<1>5. EscrowTypes' /\ RowHolds' /\ ResolvedIsVerified'
  BY <1>1, <1>3 DEF EscrowInv, EscrowTypes, RowHolds, ResolvedIsVerified, Recorded
<1>6. OneAtATime'
  BY <1>1, <1>3 DEF EscrowInv, OneAtATime
<1>7. UndisturbedPaysOnce'
  BY <1>1, <1>4 DEF EscrowInv, UndisturbedPaysOnce
<1>8. \A c \in Callers : CallHolds(settling'[c], landed')
  BY <1>1 DEF EscrowInv
<1>9. QED
  BY <1>5, <1>6, <1>7, <1>8 DEF EscrowInv

\* Every step keeps the invariant.
LEMMA EscrowNextInv == EscrowInv /\ [EscrowNext]_escrowVars => EscrowInv'
<1> SUFFICES ASSUME EscrowInv, [EscrowNext]_escrowVars PROVE EscrowInv'
  OBVIOUS
<1>1. ASSUME NEW c \in Callers, settleVault(c) PROVE EscrowInv'
  BY <1>1, ReadStep, ResetStep, SubmitStep, GiveUpStep, FinalizeStep, RecheckStep DEF settleVault
<1>2. ASSUME NEW c \in Callers, SettleCrash(c) PROVE EscrowInv'
  BY <1>2, CrashStep
<1>3. CASE Finalize
  <2>1. UNCHANGED <<settlement, settling, landed, overlapped, mishap>> /\ finalized \subseteq finalized'
    BY <1>3 DEF Finalize
  <2>2. QED
    BY <2>1 DEF EscrowInv, EscrowTypes, RowHolds, ResolvedIsVerified, OneAtATime, UndisturbedPaysOnce
<1>a. CASE findOrphanedSettlement
  BY <1>a DEF findOrphanedSettlement, EscrowInv, EscrowTypes, RowHolds, ResolvedIsVerified, OneAtATime,
              UndisturbedPaysOnce
<1>b. CASE rollBackSettlement
  BY <1>b, RollBackStep
<1>4. CASE UNCHANGED escrowVars
  BY <1>4 DEF escrowVars, EscrowInv, EscrowTypes, RowHolds, ResolvedIsVerified, OneAtATime, UndisturbedPaysOnce
<1>5. QED
  BY <1>1, <1>2, <1>3, <1>a, <1>b, <1>4 DEF EscrowNext

\* A vault recorded as settled names a transaction that took effect, and one
\* whose row names its payee, while no calls overlapped, a transfer the verifier
\* saw; a recorded payment is never submitted again by the call that found it; and
\* the vault is paid once unless an outcome was lost, a paid vault was rolled
\* back or calls overlapped.
THEOREM SettlementStaysSound == EscrowSpec => []SettlementSound
<1>1. EscrowInv => SettlementSound
  <2> SUFFICES ASSUME EscrowInv PROVE SettlementSound
    OBVIOUS
  <2>1. settlement \in SettlementRow /\ landed \in Nat /\ RowHolds /\ ResolvedIsVerified /\ UndisturbedPaysOnce
    BY DEF EscrowInv, EscrowTypes
  <2>2. ASSUME NEW c \in Callers
        PROVE  /\ settling[c].attempt \in 0 .. MaxAttempts /\ settling[c].tx \in 0 .. landed
               /\ settling[c].late => settling[c].pc \in {"recheck", "idle"}
    BY EscrowFacts
  <2>3. /\ settlement.state \in {"absent", "Unresolved", "Resolving"} \cup Recorded
        /\ settlement.tx \in 0 .. landed /\ settlement.attempts \in 0 .. MaxAttempts
        /\ settlement.state \in Recorded => settlement.tx \in 1 .. landed
    BY <2>1 DEF SettlementRow, RowHolds
  <2>4. PaidOnceUnlessLost
    BY <2>1 DEF UndisturbedPaysOnce, PaidOnceUnlessLost
  <2>5. QED
    BY <2>1, <2>2, <2>3, <2>4 DEF SettlementSound, EscrowTypeOK, SettledMeansPaid, LateCallsNeverSubmit
<1>2. QED
  BY <1>1, EscrowInitInv, EscrowNextInv, PTL DEF EscrowSpec

-----------------------------------------------------------------------------
QuestRow == [status : {"absent", "in_progress", "completed"}, progress : Nat]

GrantRow == [status : {"none", "pending", "granted", "failed", "needs_review"}, attempts : 0 .. MaxGrantTries]

SweepStages == {"idle", "load", "write", "flag", "mark", "pay", "paying", "paid", "done"}

SweepLocals ==
  [pc : SweepStages, metric : Nat, prev : {<<>>} \cup [Quests -> QuestRow], todo : SUBSET Quests,
   tries : {<<>>} \cup [Quests -> Nat], now : SUBSET Quests]

QuestTypes ==
  /\ IsFiniteSet(confirmed)
  /\ userQuest \in [Quests -> QuestRow] /\ grant \in [Quests -> GrantRow]
  /\ payout \in [Quests -> {0, 1}] /\ sweep \in [Sweepers -> SweepLocals]

\* What the rows of one quest say of each other.
RowsAgree(q) ==
  /\ userQuest[q].progress <= Target[q]
  /\ userQuest[q].status = "completed" => grant[q].status # "none"
  /\ grant[q].status = "none" => grant[q].attempts = 0
  /\ grant[q].status = "pending" => grant[q].attempts < MaxGrantTries
  /\ grant[q].status \in {"granted", "needs_review"} => payout[q] = 1

\* What a sweep read and still may rely on: no grant disappears, no credit is
\* taken back.
SweepKnows(w, G, P) ==
  /\ w.pc = "write" => /\ w.prev \in [Quests -> QuestRow]
                       /\ \A q \in Quests : w.prev[q].status = "completed" => G[q].status # "none"
  /\ w.pc = "mark" => \A q \in w.todo : P[q] = 1
  /\ w.pc \in {"paying", "paid"} => w.tries \in [Quests -> Nat] /\ \A q \in w.todo : w.tries[q] < MaxGrantTries
  /\ w.pc = "paid" => \A q \in w.now : w.tries[q] < MaxGrantTries /\ P[q] = 1

\* The inductive invariant of the grants.
QuestInv ==
  /\ QuestTypes
  /\ \A q \in Quests : RowsAgree(q)
  /\ \A s \in Sweepers : SweepKnows(sweep[s], grant, payout)

\* A sweep that is not running.
LEMMA NoSweepKnows == ASSUME NEW G, NEW P PROVE NoSweep \in SweepLocals /\ SweepKnows(NoSweep, G, P)
<1>1. NoSweep \in SweepLocals
  BY DEF NoSweep, SweepLocals, SweepStages
<1>2. NoSweep.pc = "idle"
  BY DEF NoSweep
<1>3. QED
  BY <1>1, <1>2 DEF SweepKnows

\* The invariant holds initially.
LEMMA QuestInitInv == QuestInit => QuestInv
<1> SUFFICES ASSUME QuestInit PROVE QuestInv
  OBVIOUS
<1>1. IsFiniteSet(confirmed)
  BY FS_EmptySet DEF QuestInit
<1>2. MaxGrantTries \in Nat /\ MaxGrantTries > 0 /\ \A q \in Quests : Target[q] \in Nat
  BY QuestAssumption
<1>3. userQuest \in [Quests -> QuestRow] /\ grant \in [Quests -> GrantRow] /\ payout \in [Quests -> {0, 1}]
  BY <1>2 DEF QuestInit, QuestRow, GrantRow
<1>4. sweep \in [Sweepers -> SweepLocals] /\ \A s \in Sweepers : SweepKnows(sweep[s], grant, payout)
  BY NoSweepKnows DEF QuestInit
<1>5. \A q \in Quests : RowsAgree(q)
  BY <1>2 DEF QuestInit, RowsAgree
<1>6. QED
  BY <1>1, <1>3, <1>4, <1>5 DEF QuestInv, QuestTypes

\* The types the steps start from.
LEMMA QuestFacts ==
    ASSUME QuestInv
    PROVE  /\ IsFiniteSet(confirmed) /\ userQuest \in [Quests -> QuestRow] /\ grant \in [Quests -> GrantRow]
           /\ payout \in [Quests -> {0, 1}] /\ sweep \in [Sweepers -> SweepLocals]
           /\ \A q \in Quests : RowsAgree(q)
           /\ \A s \in Sweepers : sweep[s] \in SweepLocals /\ SweepKnows(sweep[s], grant, payout)
BY DEF QuestInv, QuestTypes

\* One sweep moves; no grant disappears and no credit is taken back.
LEMMA OneSweepMoves ==
    ASSUME QuestInv, NEW s \in Sweepers, sweep' = [sweep EXCEPT ![s] = sweep'[s]],
           sweep'[s] \in SweepLocals, SweepKnows(sweep'[s], grant', payout'),
           confirmed' = confirmed, userQuest' \in [Quests -> QuestRow], grant' \in [Quests -> GrantRow],
           payout' \in [Quests -> {0, 1}],
           \A q \in Quests : /\ grant[q].status # "none" => grant'[q].status # "none"
                             /\ payout[q] = 1 => payout'[q] = 1,
           \A q \in Quests : RowsAgree(q)'
    PROVE  QuestInv'
<1>1. sweep' \in [Sweepers -> SweepLocals] /\ \A r \in Sweepers : r # s => sweep'[r] = sweep[r]
  BY QuestFacts
<1>2. ASSUME NEW r \in Sweepers, r # s PROVE SweepKnows(sweep'[r], grant', payout')
  <2>1. sweep'[r] = sweep[r] /\ SweepKnows(sweep[r], grant, payout) /\ sweep[r] \in SweepLocals
    BY <1>1, <1>2, QuestFacts
  <2>2. sweep[r].todo \subseteq Quests /\ sweep[r].now \subseteq Quests
    BY <2>1 DEF SweepLocals, SweepStages
  <2>3. QED
    BY <2>1, <2>2 DEF SweepKnows
<1>3. QED
  BY <1>1, <1>2, QuestFacts DEF QuestInv, QuestTypes

\* A sweep that only moves its own locals.
LEMMA SweepOnly ==
    ASSUME QuestInv, NEW s \in Sweepers, sweep' = [sweep EXCEPT ![s] = sweep'[s]],
           sweep'[s] \in SweepLocals, SweepKnows(sweep'[s], grant, payout),
           UNCHANGED <<confirmed, userQuest, grant, payout>>
    PROVE  QuestInv'
<1>1. \A q \in Quests : RowsAgree(q)'
  BY QuestFacts DEF RowsAgree
<1>2. QED
  BY <1>1, QuestFacts, OneSweepMoves

\* Deposits are confirmed and reverted one at a time.
LEMMA LedgerChangesStep == ASSUME QuestInv, LedgerChanges PROVE QuestInv'
<1>1. UNCHANGED <<userQuest, grant, payout, sweep>>
  BY DEF LedgerChanges
<1>2. IsFiniteSet(confirmed')
  <2>1. PICK d \in Deposits : confirmed' = IF d \in confirmed THEN confirmed \ {d} ELSE confirmed \cup {d}
    BY DEF LedgerChanges
  <2>2. IsFiniteSet(confirmed \ {d}) /\ IsFiniteSet(confirmed \cup {d})
    BY QuestFacts, FS_RemoveElement, FS_AddElement
  <2>3. QED
    BY <2>1, <2>2
<1>3. QED
  BY <1>1, <1>2 DEF QuestInv, QuestTypes, RowsAgree

\* A sweep begins, or ends anywhere.
LEMMA ComputeStep == ASSUME QuestInv, NEW s \in Sweepers, computeMetrics(s) \/ SweepEnds(s) PROVE QuestInv'
<1>0. UNCHANGED <<confirmed, userQuest, grant, payout>>
  BY DEF computeMetrics, SweepEnds
<1>1. CASE computeMetrics(s)
  <2>1. PICK n \in Nat : sweep' = [sweep EXCEPT ![s] = [NoSweep EXCEPT !.pc = "load", !.metric = n]]
    BY <1>1, QuestFacts, FS_CardinalityType DEF computeMetrics
  <2>2. sweep'[s] = [NoSweep EXCEPT !.pc = "load", !.metric = n] /\ sweep' = [sweep EXCEPT ![s] = sweep'[s]]
    BY <2>1, QuestFacts
  <2>3. sweep'[s] \in SweepLocals /\ sweep'[s].pc = "load"
    BY <2>2, NoSweepKnows DEF SweepLocals, SweepStages
  <2>4. SweepKnows(sweep'[s], grant, payout)
    BY <2>3 DEF SweepKnows
  <2>5. QED
    BY <1>0, <2>2, <2>3, <2>4, SweepOnly
<1>2. CASE SweepEnds(s)
  <2>1. sweep'[s] = NoSweep /\ sweep' = [sweep EXCEPT ![s] = sweep'[s]]
    BY <1>2, QuestFacts DEF SweepEnds
  <2>2. QED
    BY <1>0, <2>1, NoSweepKnows, SweepOnly
<1>3. QED
  BY <1>1, <1>2

\* The rows of user_quests are read at once and written one by one.
LEMMA LoadStep == ASSUME QuestInv, NEW s \in Sweepers, evaluateWallet_load(s) PROVE QuestInv'
<1>0. UNCHANGED <<confirmed, userQuest, grant, payout>> /\ sweep[s] \in SweepLocals
  BY QuestFacts DEF evaluateWallet_load
<1>1. /\ sweep'[s] = [sweep[s] EXCEPT !.pc = "write", !.prev = userQuest, !.todo = Quests]
      /\ sweep' = [sweep EXCEPT ![s] = sweep'[s]]
  BY QuestFacts DEF evaluateWallet_load
<1>2. sweep'[s] \in SweepLocals /\ sweep'[s].pc = "write" /\ sweep'[s].prev = userQuest
  BY <1>0, <1>1, QuestFacts DEF SweepLocals, SweepStages
<1>3. SweepKnows(sweep'[s], grant, payout)
  BY <1>2, QuestFacts DEF SweepKnows, RowsAgree
<1>4. QED
  BY <1>0, <1>1, <1>2, <1>3, SweepOnly

\* projectProgress stays within the target.
LEMMA ProgressFits ==
    ASSUME NEW q \in Quests, NEW n \in Nat
    PROVE  /\ projectProgress(n, q) \in QuestRow
           /\ projectProgress(n, q).progress <= Target[q]
<1>1. Target[q] \in Nat
  BY QuestAssumption
<1>2. QED
  BY <1>1 DEF projectProgress, QuestRow

\* One quest's transaction: the grant is inserted with the completion, or both
\* are lost.
LEMMA WriteStep == ASSUME QuestInv, NEW s \in Sweepers, NEW q \in Quests, evaluateWallet_write(s, q) PROVE QuestInv'
<1> DEFINE prev == sweep[s].prev[q]
           p == projectProgress(sweep[s].metric, q)
<1>0. /\ sweep[s].pc = "write" /\ sweep[s] \in SweepLocals /\ q \in sweep[s].todo
      /\ UNCHANGED <<confirmed, payout>> /\ SweepKnows(sweep[s], grant, payout)
  BY QuestFacts DEF evaluateWallet_write
<1>1. sweep[s].metric \in Nat /\ sweep[s].todo \subseteq Quests /\ sweep[s].prev \in [Quests -> QuestRow]
  BY <1>0 DEF SweepLocals, SweepStages, SweepKnows
<1>2. p \in QuestRow /\ p.progress <= Target[q]
  BY <1>1, ProgressFits
<1>3. CASE /\ ShouldGrant(prev, p) /\ grant[q].status # "none"
           /\ sweep' = [sweep EXCEPT ![s].pc = "flag", ![s].todo = {}]
           /\ UNCHANGED <<userQuest, grant>>
  <2>1. /\ sweep'[s] = [sweep[s] EXCEPT !.pc = "flag", !.todo = {}]
        /\ sweep' = [sweep EXCEPT ![s] = sweep'[s]]
    BY <1>3, QuestFacts
  <2>2. sweep'[s] \in SweepLocals /\ sweep'[s].pc = "flag"
    BY <1>0, <2>1 DEF SweepLocals, SweepStages
  <2>3. SweepKnows(sweep'[s], grant, payout)
    BY <2>2 DEF SweepKnows
  <2>4. QED
    BY <1>0, <1>3, <2>1, <2>2, <2>3, SweepOnly
<1>4. CASE /\ ~ (ShouldGrant(prev, p) /\ grant[q].status # "none")
           /\ grant' = IF ShouldGrant(prev, p) THEN [grant EXCEPT ![q].status = "pending"] ELSE grant
           /\ userQuest' = IF prev # p THEN [userQuest EXCEPT ![q] = p] ELSE userQuest
           /\ sweep' = [sweep EXCEPT ![s].todo = @ \ {q}, ![s].pc = IF sweep[s].todo = {q} THEN "flag" ELSE "write"]
  <2>1. PICK k \in {"flag", "write"} :
          sweep' = [sweep EXCEPT ![s] = [sweep[s] EXCEPT !.todo = sweep[s].todo \ {q}, !.pc = k]]
    BY <1>4, QuestFacts
  <2>2. /\ sweep'[s] = [sweep[s] EXCEPT !.todo = sweep[s].todo \ {q}, !.pc = k]
        /\ sweep' = [sweep EXCEPT ![s] = sweep'[s]]
    BY <2>1, QuestFacts
  <2>3. sweep'[s] \in SweepLocals /\ sweep'[s].pc = k /\ sweep'[s].prev = sweep[s].prev
    <3>1. PICK T \in SUBSET Quests : sweep'[s] = [sweep[s] EXCEPT !.todo = T, !.pc = k]
      BY <1>1, <2>2
    <3>2. sweep'[s] \in SweepLocals
      <4>1. k \in SweepStages
        BY <2>1 DEF SweepStages
      <4>2. QED
        BY <1>0, <3>1, <4>1 DEF SweepLocals
    <3>3. sweep'[s].pc = k /\ sweep'[s].prev = sweep[s].prev
      BY <1>0, <3>1 DEF SweepLocals, SweepStages
    <3>4. QED
      BY <3>2, <3>3
  <2>4. /\ grant' \in [Quests -> GrantRow] /\ \A r \in Quests \ {q} : grant'[r] = grant[r]
        /\ grant'[q].attempts = grant[q].attempts
        /\ ShouldGrant(prev, p) => grant'[q].status = "pending" /\ grant[q].status = "none"
        /\ ~ ShouldGrant(prev, p) => grant'[q].status = grant[q].status
    BY <1>4, QuestFacts DEF GrantRow
  <2>5. /\ userQuest' \in [Quests -> QuestRow] /\ \A r \in Quests \ {q} : userQuest'[r] = userQuest[r]
        /\ userQuest'[q] \in {userQuest[q], p}
    BY <1>2, <1>4, QuestFacts
  <2>6. p.status = "completed" => grant'[q].status # "none"
    <3>1. prev.status = "completed" => grant[q].status # "none"
      BY <1>0 DEF SweepKnows
    <3>2. QED
      BY <2>4, <3>1 DEF ShouldGrant
  <2>7. \A r \in Quests : grant[r].status # "none" => grant'[r].status # "none"
    BY <2>4
  <2>8. SweepKnows(sweep'[s], grant', payout')
    BY <1>0, <1>1, <2>1, <2>3, <2>7 DEF SweepKnows
  <2>9. RowsAgree(q)'
    <3>1. RowsAgree(q) /\ MaxGrantTries \in Nat \ {0}
      BY QuestFacts, QuestAssumption
    <3>2. QED
      BY <1>0, <1>2, <2>4, <2>5, <2>6, <3>1 DEF RowsAgree
  <2>10. \A r \in Quests : RowsAgree(r)'
    BY <1>0, <2>4, <2>5, <2>9, QuestFacts DEF RowsAgree
  <2>11. QED
    BY <1>0, <2>2, <2>3, <2>4, <2>5, <2>7, <2>8, <2>10, QuestFacts, OneSweepMoves
<1>5. QED
  BY <1>3, <1>4 DEF evaluateWallet_write

\* Reading the granted rows, and marking those up for review.
LEMMA FlagReadStep == ASSUME QuestInv, NEW s \in Sweepers, flagGrants_read(s) PROVE QuestInv'
<1> DEFINE T == {q \in Quests : /\ grant[q].status = "granted"
                                /\ projectProgress(sweep[s].metric, q).status # "completed"}
<1>0. UNCHANGED <<confirmed, userQuest, grant, payout>> /\ sweep[s] \in SweepLocals /\ T \in SUBSET Quests
  BY QuestFacts DEF flagGrants_read
<1>1. sweep'[s] = [sweep[s] EXCEPT !.pc = "mark", !.todo = T] /\ sweep' = [sweep EXCEPT ![s] = sweep'[s]]
  BY QuestFacts DEF flagGrants_read
<1>2. \A q \in T : payout[q] = 1
  BY QuestFacts DEF RowsAgree
<1> HIDE DEF T
<1>3. sweep'[s] \in SweepLocals /\ sweep'[s].pc = "mark" /\ sweep'[s].todo = T
  BY <1>0, <1>1 DEF SweepLocals, SweepStages
<1>4. SweepKnows(sweep'[s], grant, payout)
  BY <1>2, <1>3 DEF SweepKnows
<1>5. QED
  BY <1>0, <1>1, <1>3, <1>4, SweepOnly

\* Every grant it marks was credited when it was read, and still is.
LEMMA FlagMarkStep == ASSUME QuestInv, NEW s \in Sweepers, flagGrants_mark(s) PROVE QuestInv'
<1> DEFINE T == sweep[s].todo
<1>0. /\ UNCHANGED <<confirmed, userQuest, payout>> /\ sweep[s] \in SweepLocals /\ sweep[s].pc = "mark"
      /\ grant' = [q \in Quests |-> IF q \in T THEN [grant[q] EXCEPT !.status = "needs_review"] ELSE grant[q]]
  BY QuestFacts DEF flagGrants_mark
<1>1. sweep'[s] = [sweep[s] EXCEPT !.pc = "pay", !.todo = {}] /\ sweep' = [sweep EXCEPT ![s] = sweep'[s]]
  BY QuestFacts DEF flagGrants_mark
<1>2. sweep'[s] \in SweepLocals /\ sweep'[s].pc = "pay"
  BY <1>0, <1>1 DEF SweepLocals, SweepStages
<1>3. SweepKnows(sweep'[s], grant', payout')
  BY <1>2 DEF SweepKnows
<1>4. \A q \in T : payout[q] = 1
  BY <1>0, QuestFacts DEF SweepKnows
<1>5. \A q \in Quests : /\ grant'[q] \in GrantRow /\ grant'[q].attempts = grant[q].attempts
                        /\ grant'[q].status = grant[q].status \/ (q \in T /\ grant'[q].status = "needs_review")
  <2> SUFFICES ASSUME NEW q \in Quests
               PROVE  /\ grant'[q] \in GrantRow /\ grant'[q].attempts = grant[q].attempts
                      /\ grant'[q].status = grant[q].status \/ (q \in T /\ grant'[q].status = "needs_review")
    OBVIOUS
  <2>1. grant[q] \in GrantRow
    BY QuestFacts
  <2>2. CASE q \in T /\ grant'[q] = [grant[q] EXCEPT !.status = "needs_review"]
    BY <2>1, <2>2 DEF GrantRow
  <2>3. CASE grant'[q] = grant[q]
    BY <2>1, <2>3
  <2>4. QED
    BY <1>0, <2>2, <2>3
<1>6. grant' \in [Quests -> GrantRow]
  BY <1>0, <1>5
<1>7. \A q \in Quests : RowsAgree(q)'
  BY <1>0, <1>4, <1>5, QuestFacts DEF RowsAgree
<1>8. \A q \in Quests : grant[q].status # "none" => grant'[q].status # "none"
  BY <1>5
<1>9. QED
  BY <1>0, <1>1, <1>2, <1>3, <1>6, <1>7, <1>8, QuestFacts, OneSweepMoves

\* processGrants reads the pending grants that have attempts left.
LEMMA PendingReadStep == ASSUME QuestInv, NEW s \in Sweepers, processGrants_read(s) PROVE QuestInv'
<1> DEFINE T == {q \in Quests : grant[q].status = "pending" /\ grant[q].attempts < MaxGrantTries}
           N == [q \in Quests |-> grant[q].attempts]
<1>0. UNCHANGED <<confirmed, userQuest, grant, payout>> /\ sweep[s] \in SweepLocals /\ T \in SUBSET Quests
  BY QuestFacts DEF processGrants_read
<1>1. /\ sweep'[s] = [sweep[s] EXCEPT !.pc = "paying", !.tries = N, !.todo = T]
      /\ sweep' = [sweep EXCEPT ![s] = sweep'[s]]
  BY QuestFacts DEF processGrants_read
<1>2. N \in [Quests -> Nat] /\ \A q \in T : N[q] < MaxGrantTries
  BY QuestFacts DEF GrantRow
<1> HIDE DEF T, N
<1>3. sweep'[s] \in SweepLocals
  <2>1. PICK M \in {<<>>} \cup [Quests -> Nat] : sweep'[s] = [sweep[s] EXCEPT !.pc = "paying", !.tries = M, !.todo = T]
    BY <1>1, <1>2
  <2>2. QED
    BY <1>0, <2>1 DEF SweepLocals, SweepStages
<1>4. sweep'[s].pc = "paying" /\ sweep'[s].todo = T /\ sweep'[s].tries = N
  BY <1>0, <1>1 DEF SweepLocals, SweepStages
<1>5. SweepKnows(sweep'[s], grant, payout)
  BY <1>2, <1>4 DEF SweepKnows
<1>6. QED
  BY <1>0, <1>1, <1>3, <1>5, SweepOnly

\* createAction credits the grant, once whoever asks again.
LEMMA PayStep == ASSUME QuestInv, NEW s \in Sweepers, NEW q \in Quests, processGrants_pay(s, q) PROVE QuestInv'
<1>0. /\ UNCHANGED <<confirmed, userQuest, grant>> /\ sweep[s] \in SweepLocals /\ sweep[s].pc = "paying"
      /\ q \in sweep[s].todo /\ payout' = [payout EXCEPT ![q] = 1] /\ SweepKnows(sweep[s], grant, payout)
  BY QuestFacts DEF processGrants_pay, Credit
<1>1. sweep'[s] = [sweep[s] EXCEPT !.pc = "paid", !.now = {q}] /\ sweep' = [sweep EXCEPT ![s] = sweep'[s]]
  BY QuestFacts DEF processGrants_pay
<1>2. sweep'[s] \in SweepLocals
  <2>1. PICK M \in SUBSET Quests : sweep'[s] = [sweep[s] EXCEPT !.pc = "paid", !.now = M]
    BY <1>1
  <2>2. QED
    BY <1>0, <2>1 DEF SweepLocals, SweepStages
<1>3. /\ sweep'[s].pc = "paid" /\ sweep'[s].now = {q} /\ sweep'[s].todo = sweep[s].todo
      /\ sweep'[s].tries = sweep[s].tries
  BY <1>0, <1>1 DEF SweepLocals, SweepStages
<1>4. payout' \in [Quests -> {0, 1}] /\ payout'[q] = 1 /\ \A r \in Quests : payout[r] = 1 => payout'[r] = 1
  BY <1>0, QuestFacts
<1>5. SweepKnows(sweep'[s], grant', payout')
  BY <1>0, <1>3, <1>4 DEF SweepKnows
<1>6. \A r \in Quests : RowsAgree(r)'
  BY <1>0, <1>4, QuestFacts DEF RowsAgree
<1>7. QED
  BY <1>0, <1>1, <1>2, <1>4, <1>5, <1>6, QuestFacts, OneSweepMoves

\* The grant is updated after the payment, or after the failure of either:
\* the attempt counted is one more than the sweep read, still within the limit.
LEMMA OutcomeStep ==
    ASSUME QuestInv, NEW s \in Sweepers, NEW q \in Quests, processGrants_granted(s, q) \/ processGrants_failed(s, q)
    PROVE  QuestInv'
<1>0. /\ UNCHANGED <<confirmed, userQuest, payout>> /\ sweep[s] \in SweepLocals /\ AfterPaying(s, q)
      /\ sweep[s].pc \in {"paying", "paid"} /\ SweepKnows(sweep[s], grant, payout)
  BY QuestFacts DEF processGrants_granted, processGrants_failed
<1>1. sweep[s].tries \in [Quests -> Nat] /\ sweep[s].tries[q] < MaxGrantTries
  BY <1>0 DEF SweepKnows, processGrants_granted, processGrants_failed
<1>2. PICK k \in {"done", "paying"}, T \in SUBSET sweep[s].todo :
        sweep' = [sweep EXCEPT ![s] = [sweep[s] EXCEPT !.todo = T, !.now = {}, !.pc = k]]
  BY <1>0, QuestFacts DEF AfterPaying
<1>3. /\ sweep'[s] = [sweep[s] EXCEPT !.todo = T, !.now = {}, !.pc = k]
      /\ sweep' = [sweep EXCEPT ![s] = sweep'[s]]
  BY <1>2, QuestFacts
<1>4. sweep'[s] \in SweepLocals
  <2>1. T \in SUBSET Quests
    BY <1>0, <1>2 DEF SweepLocals, SweepStages
  <2>2. k \in SweepStages
    BY <1>2 DEF SweepStages
  <2>3. QED
    BY <1>0, <1>3, <2>1, <2>2 DEF SweepLocals
<1>5. /\ sweep'[s].pc = k /\ sweep'[s].todo = T /\ sweep'[s].tries = sweep[s].tries
  BY <1>0, <1>3 DEF SweepLocals, SweepStages
<1>6. SweepKnows(sweep'[s], grant', payout')
  BY <1>0, <1>2, <1>5 DEF SweepKnows
<1>7. MaxGrantTries \in Nat \ {0} /\ sweep[s].tries[q] + 1 \in 0 .. MaxGrantTries
  BY <1>1, QuestAssumption
<1>8. PICK n \in 0 .. MaxGrantTries : n = sweep[s].tries[q] + 1
  BY <1>7
<1>9. PICK b \in {"granted", "failed", "pending"} :
        /\ grant' = [grant EXCEPT ![q] = [status |-> b, attempts |-> n]]
        /\ b = "granted" => payout[q] = 1
        /\ b = "pending" => n < MaxGrantTries
  <2>1. CASE processGrants_granted(s, q)
    <3>1. payout[q] = 1
      BY <1>0, <2>1 DEF SweepKnows, processGrants_granted
    <3>2. QED
      BY <1>8, <2>1, <3>1 DEF processGrants_granted
  <2>2. CASE processGrants_failed(s, q)
    <3>1. FailedStatus(n) \in {"failed", "pending"} /\ (FailedStatus(n) = "pending" => n < MaxGrantTries)
      BY <1>7, <1>8 DEF FailedStatus
    <3>2. QED
      BY <1>8, <2>2, <3>1 DEF processGrants_failed
  <2>3. QED
    BY <2>1, <2>2
<1>10. /\ grant' \in [Quests -> GrantRow] /\ \A r \in Quests \ {q} : grant'[r] = grant[r]
       /\ grant'[q].status = b /\ grant'[q].attempts = n
  <2>1. [status |-> b, attempts |-> n] \in GrantRow
    BY <1>8, <1>9 DEF GrantRow
  <2>2. QED
    BY <1>9, <2>1, QuestFacts
<1>11. \A r \in Quests : RowsAgree(r)'
  BY <1>0, <1>9, <1>10, QuestFacts DEF RowsAgree
<1>12. \A r \in Quests : grant[r].status # "none" => grant'[r].status # "none"
  BY <1>9, <1>10
<1>13. QED
  BY <1>0, <1>3, <1>4, <1>6, <1>10, <1>11, <1>12, QuestFacts, OneSweepMoves

\* Every step keeps the invariant.
LEMMA QuestNextInv == QuestInv /\ [QuestNext]_questVars => QuestInv'
<1> SUFFICES ASSUME QuestInv, [QuestNext]_questVars PROVE QuestInv'
  OBVIOUS
<1>1. CASE LedgerChanges
  BY <1>1, LedgerChangesStep
<1>2. ASSUME NEW s \in Sweepers,
             \/ computeMetrics(s) \/ evaluateWallet_load(s)
             \/ flagGrants_read(s) \/ flagGrants_mark(s) \/ processGrants_read(s) \/ SweepEnds(s)
      PROVE  QuestInv'
  BY <1>2, ComputeStep, LoadStep, FlagReadStep, FlagMarkStep, PendingReadStep
<1>3. ASSUME NEW s \in Sweepers, NEW q \in Quests,
             \/ evaluateWallet_write(s, q) \/ processGrants_pay(s, q)
             \/ processGrants_granted(s, q) \/ processGrants_failed(s, q)
      PROVE  QuestInv'
  BY <1>3, WriteStep, PayStep, OutcomeStep
<1>4. CASE UNCHANGED questVars
  BY <1>4 DEF questVars, QuestInv, QuestTypes, RowsAgree
<1>5. QED
  BY <1>1, <1>2, <1>3, <1>4 DEF QuestNext

\* Every completed quest has its grant, a grant is credited at most once, and
\* it is reported granted or up for review only if it was credited, however many
\* sweeps overlap, retry or die.
THEOREM GrantsStayCreditedOnce == QuestSpec => []GrantsCreditOnce
<1>1. QuestInv => GrantsCreditOnce
  <2> SUFFICES ASSUME QuestInv PROVE GrantsCreditOnce
    OBVIOUS
  <2>1. ASSUME NEW q \in Quests
        PROVE  /\ userQuest[q] \in QuestRow /\ grant[q] \in GrantRow /\ payout[q] \in {0, 1} /\ RowsAgree(q)
               /\ Target[q] \in Nat
    BY QuestFacts, QuestAssumption
  <2>2. QuestTypeOK
    BY <2>1 DEF QuestTypeOK, RowsAgree, QuestRow, GrantRow
  <2>3. CompletionIsGranted /\ GrantedIsCredited
    BY <2>1 DEF CompletionIsGranted, GrantedIsCredited, RowsAgree
  <2>4. CreditedOnce
    BY <2>1 DEF CreditedOnce
  <2>5. QED
    BY <2>2, <2>3, <2>4 DEF GrantsCreditOnce
<1>2. QED
  BY <1>1, QuestInitInv, QuestNextInv, PTL DEF QuestSpec

-----------------------------------------------------------------------------
(* The action ledger.  LedgerSound is not inductive as it stands: what a     *)
(* handler read before its last statement must still be true when it writes. *)

\* What a handler may still rely on when its next statement runs, given the
\* hashes C that rows have carried and the hashes D delivered so far.
CallKnows(c, C, D) ==
  /\ c.op \in {"attach", "cancel", "apply"} => c.action \in Actions
  /\ c.op = "attach" => c.hash \in Hashes
  /\ c.op = "park" => c.hash \in D
  /\ c.op = "apply" => c.hash \in C[c.action] \cap D

\* The hash a row has now is one it has carried.
HashesCarried == \A a \in Actions : row[a].hash # NoHash => row[a].hash \in carried[a]

RowsOK ==
  /\ row \in [Actions -> LedgerRow]
  /\ lease \in [Actions -> {"none", "live", "expired"}]
  /\ carried \in [Actions -> SUBSET Hashes] /\ delivered \subseteq Hashes
  /\ EvidenceBacked /\ HashOwnedOnce /\ DecidedIsUnleased /\ HashesCarried

\* Only events that were delivered are parked.
EventsOK ==
  /\ parked \in [Hashes -> {"none", "open", "stale", "consumed"}]
  /\ cached \subseteq Hashes
  /\ \A h \in Hashes : parked[h] # "none" => h \in delivered

CallsOK ==
  /\ requests \in 0 .. MaxRequests
  /\ call \in [Processes -> LedgerCall]
  /\ \A p \in Processes : CallKnows(call[p], carried, delivered)

\* The inductive invariant.
LedgerInv == RowsOK /\ EventsOK /\ CallsOK

-----------------------------------------------------------------------------
\* No handler relies on anything while it is idle.
LEMMA IdleKnows == ASSUME NEW C, NEW D PROVE Idle \in LedgerCall /\ CallKnows(Idle, C, D)
BY DEF Idle, LedgerCall, CallKnows

\* A step that moves one handler keeps what the others know, because hashes
\* are only ever added to what was carried and delivered.
LEMMA CallsKept ==
    ASSUME LedgerInv, NEW p \in Processes,
           call' = [call EXCEPT ![p] = call'[p]],
           call'[p] \in LedgerCall, CallKnows(call'[p], carried', delivered'),
           requests' \in 0 .. MaxRequests,
           delivered \subseteq delivered', \A a \in Actions : carried[a] \subseteq carried'[a]
    PROVE  CallsOK'
<1>1. call \in [Processes -> LedgerCall] /\ \A q \in Processes : CallKnows(call[q], carried, delivered)
  BY DEF LedgerInv, CallsOK
<1>2. call' \in [Processes -> LedgerCall] /\ \A q \in Processes : q # p => call'[q] = call[q]
  BY <1>1
<1>3. ASSUME NEW q \in Processes, q # p PROVE CallKnows(call'[q], carried', delivered')
  <2>1. CallKnows(call[q], carried, delivered) /\ call'[q] = call[q]
    BY <1>1, <1>2, <1>3
  <2>2. QED
    BY <2>1 DEF CallKnows
<1>4. QED
  BY <1>2, <1>3 DEF CallsOK

\* A handler returns.
LEMMA ReturnKept ==
    ASSUME LedgerInv, NEW p \in Processes, Return(p), requests' = requests,
           delivered \subseteq delivered', \A a \in Actions : carried[a] \subseteq carried'[a]
    PROVE  CallsOK'
<1>1. call \in [Processes -> LedgerCall] /\ requests \in 0 .. MaxRequests
  BY DEF LedgerInv, CallsOK
<1>2. call'[p] = Idle /\ call' = [call EXCEPT ![p] = call'[p]]
  BY <1>1 DEF Return
<1>3. QED
  BY <1>1, <1>2, IdleKnows, CallsKept

\* A step that changes at most one row, its lease and what it carried.
LEMMA RowsKept ==
    ASSUME LedgerInv, NEW b \in Actions,
           row' = [row EXCEPT ![b] = row'[b]], lease' = [lease EXCEPT ![b] = lease'[b]],
           carried' = [carried EXCEPT ![b] = carried'[b]],
           delivered \subseteq delivered', delivered' \subseteq Hashes,
           row'[b] \in LedgerRow, lease'[b] \in {"none", "live", "expired"},
           carried[b] \subseteq carried'[b], carried'[b] \subseteq Hashes,
           row'[b].status \in {"confirmed", "reverted"} =>
               /\ row'[b].ev \in carried'[b] \cap delivered'
               /\ row'[b].status = StatusHint(row'[b].ev)
               /\ lease'[b] = "none",
           row'[b].hash # NoHash => row'[b].hash \in carried'[b],
           row'[b].hash = row[b].hash \/ HashFree(b, row'[b].hash)
    PROVE  RowsOK'
<1>1. /\ row \in [Actions -> LedgerRow] /\ carried \in [Actions -> SUBSET Hashes]
      /\ lease \in [Actions -> {"none", "live", "expired"}]
      /\ EvidenceBacked /\ HashOwnedOnce /\ DecidedIsUnleased /\ HashesCarried
  BY DEF LedgerInv, RowsOK
<1>2. \A a \in Actions : a # b => row'[a] = row[a] /\ lease'[a] = lease[a] /\ carried'[a] = carried[a]
  BY <1>1
<1>3. /\ row' \in [Actions -> LedgerRow] /\ carried' \in [Actions -> SUBSET Hashes]
      /\ lease' \in [Actions -> {"none", "live", "expired"}]
  BY <1>1
<1>4. EvidenceBacked' /\ DecidedIsUnleased' /\ HashesCarried'
  BY <1>1, <1>2 DEF EvidenceBacked, DecidedIsUnleased, HashesCarried
<1>5. HashOwnedOnce'
  BY <1>1, <1>2 DEF HashOwnedOnce, HashFree
<1>6. QED
  BY <1>3, <1>4, <1>5 DEF RowsOK

\* Delivering more events takes nothing from the rows.
LEMMA RowsUntouched ==
    ASSUME LedgerInv, UNCHANGED <<row, lease, carried>>,
           delivered \subseteq delivered', delivered' \subseteq Hashes
    PROVE  RowsOK'
BY DEF LedgerInv, RowsOK, EvidenceBacked, HashOwnedOnce, DecidedIsUnleased, HashesCarried

\* A step that parks no further event.
LEMMA EventsKept ==
    ASSUME LedgerInv, parked' \in [Hashes -> {"none", "open", "stale", "consumed"}],
           cached' \subseteq Hashes, delivered \subseteq delivered',
           \A h \in Hashes : parked'[h] # "none" => parked[h] # "none" \/ h \in delivered'
    PROVE  EventsOK'
BY DEF LedgerInv, EventsOK

\* The types the steps start from.
LEMMA LedgerTypes ==
    ASSUME LedgerInv
    PROVE  /\ row \in [Actions -> LedgerRow] /\ carried \in [Actions -> SUBSET Hashes]
           /\ lease \in [Actions -> {"none", "live", "expired"}] /\ delivered \subseteq Hashes
           /\ parked \in [Hashes -> {"none", "open", "stale", "consumed"}] /\ cached \subseteq Hashes
           /\ requests \in 0 .. MaxRequests /\ call \in [Processes -> LedgerCall]
           /\ \A p \in Processes : CallKnows(call[p], carried, delivered)
           /\ \A h \in Hashes : parked[h] # "none" => h \in delivered
           /\ {Indexer, Cron} \cup Requests \subseteq Processes
BY DEF LedgerInv, RowsOK, EventsOK, CallsOK, Processes

\* A row whose status changes and whose hash and lease do not.
LEMMA StatusKept ==
    ASSUME LedgerInv, NEW b \in Actions, NEW st \in Statuses \ {"confirmed", "reverted"}, NEW o \in BOOLEAN,
           row' = [row EXCEPT ![b] = [row[b] EXCEPT !.status = st, !.old = o]],
           UNCHANGED <<lease, carried, delivered>>
    PROVE  RowsOK'
<1> DEFINE r == [row[b] EXCEPT !.status = st, !.old = o]
<1>1. row[b] \in LedgerRow
  BY LedgerTypes
<1>2. r \in LedgerRow /\ r.hash = row[b].hash /\ r.status = st
  BY <1>1 DEF LedgerRow
<1>3. row'[b] = r /\ row' = [row EXCEPT ![b] = row'[b]]
  BY LedgerTypes
<1>4. lease' = [lease EXCEPT ![b] = lease'[b]] /\ carried' = [carried EXCEPT ![b] = carried'[b]]
  BY LedgerTypes
<1>5. /\ lease'[b] \in {"none", "live", "expired"} /\ carried'[b] \subseteq Hashes
      /\ row[b].hash # NoHash => row[b].hash \in carried[b]
  BY LedgerTypes DEF LedgerInv, RowsOK, HashesCarried
<1>6. QED
  BY <1>2, <1>3, <1>4, <1>5, RowsKept, LedgerTypes

-----------------------------------------------------------------------------
\* A client's create.
LEMMA CreateStep == ASSUME LedgerInv, NEW a \in Actions, createAction(a) PROVE LedgerInv'
<1>1. UNCHANGED <<requests, lease, parked, cached, call, carried, delivered>>
  BY DEF createAction
<1>2. row' = [row EXCEPT ![a] = [row[a] EXCEPT !.status = "pending", !.old = row[a].old]]
  BY LedgerTypes DEF createAction, LedgerRow
<1>3. row[a].old \in BOOLEAN
  BY LedgerTypes DEF LedgerRow
<1>4. RowsOK'
  BY <1>1, <1>2, <1>3, StatusKept DEF Statuses
<1>5. EventsOK' /\ CallsOK'
  BY <1>1 DEF LedgerInv, EventsOK, CallsOK
<1>6. QED
  BY <1>4, <1>5 DEF LedgerInv

\* A request begins: it knows the row and the hash it was given.
LEMMA BeginKnows ==
    ASSUME LedgerInv, NEW p \in Processes, NEW op \in {"attach", "cancel", "park", "apply"},
           NEW a \in Actions \cup {NoAction}, NEW h \in Hashes \cup {NoHash}, Begin(p, op, a, h)
    PROVE  /\ call' = [call EXCEPT ![p] = call'[p]] /\ call'[p] \in LedgerCall
           /\ call'[p].op = op /\ call'[p].action = a /\ call'[p].hash = h
<1>1. call' = [call EXCEPT ![p] = [Idle EXCEPT !.op = op, !.action = a, !.hash = h, !.pc = "read"]]
  BY DEF Begin
<1>2. call'[p] = [Idle EXCEPT !.op = op, !.action = a, !.hash = h, !.pc = "read"]
  BY <1>1, LedgerTypes
<1>3. call'[p] = [op |-> op, action |-> a, hash |-> h, pc |-> "read", found |-> FALSE,
                  locked |-> FALSE, targets |-> {}, hashes |-> {}]
  BY <1>2 DEF Idle
<1>4. call'[p] \in LedgerCall
  BY <1>3 DEF LedgerCall
<1>5. call' = [call EXCEPT ![p] = call'[p]]
  BY <1>1, <1>2
<1>6. call'[p].op = op /\ call'[p].action = a /\ call'[p].hash = h
  BY <1>3
<1>7. QED
  BY <1>4, <1>5, <1>6

\* The first statements of attach and cancel.
LEMMA RequestBegins ==
    ASSUME LedgerInv, NEW p \in Requests, NEW a \in Actions,
           cancelAction_read(p, a) \/ \E h \in Hashes : attachTxHash_read(p, a, h)
    PROVE  LedgerInv'
<1>0. p \in Processes
  BY LedgerTypes
<1>1. UNCHANGED <<row, lease, parked, cached, carried, delivered>> /\ requests' \in 0 .. MaxRequests
  <2>1. UNCHANGED <<row, lease, parked, cached, carried, delivered>> /\ requests < MaxRequests /\ requests' = requests + 1
    BY DEF cancelAction_read, attachTxHash_read
  <2>2. QED
    BY <2>1, LedgerTypes, LedgerAssumption
<1>2. PICK op \in {"attach", "cancel"}, h \in Hashes \cup {NoHash} :
         Begin(p, op, a, h) /\ (op = "attach" => h \in Hashes)
  <2>1. CASE cancelAction_read(p, a)
    <3>1. Begin(p, "cancel", a, NoHash)
      BY <2>1 DEF cancelAction_read
    <3>2. QED
      BY <3>1
  <2>2. CASE \E h \in Hashes : attachTxHash_read(p, a, h)
    <3>1. PICK h \in Hashes : Begin(p, "attach", a, h)
      BY <2>2 DEF attachTxHash_read
    <3>2. QED
      BY <3>1
  <2>3. QED
    BY <2>1, <2>2
<1>3. /\ call' = [call EXCEPT ![p] = call'[p]] /\ call'[p] \in LedgerCall
      /\ call'[p].op = op /\ call'[p].action = a /\ call'[p].hash = h
  BY <1>0, <1>2, BeginKnows
<1>4. CallKnows(call'[p], carried', delivered')
  BY <1>2, <1>3 DEF CallKnows
<1>5. CallsOK'
  BY <1>0, <1>1, <1>3, <1>4, CallsKept
<1>6. RowsOK' /\ EventsOK'
  BY <1>1, RowsUntouched, EventsKept, LedgerTypes
<1>7. QED
  BY <1>5, <1>6 DEF LedgerInv

\* attachTxHash between its read and its writes.
LEMMA LookupStep == ASSUME LedgerInv, NEW p \in Requests, attachTxHash_lookup(p) PROVE LedgerInv'
<1> DEFINE c == [call[p] EXCEPT !.pc = "leased", !.locked = lease[call[p].action] # "none",
                                !.found = call[p].hash \in cached \/ parked[call[p].hash] # "none"]
<1>0. p \in Processes /\ call[p] \in LedgerCall
  BY LedgerTypes
<1>1. /\ UNCHANGED <<requests, row, lease, parked, cached, carried, delivered>>
      /\ call' = [call EXCEPT ![p] = c]
  BY LedgerTypes DEF attachTxHash_lookup
<1>2. c \in LedgerCall /\ c.op = call[p].op /\ c.action = call[p].action /\ c.hash = call[p].hash
  BY <1>0 DEF LedgerCall
<1>3. call'[p] = c
  BY <1>0, <1>1, LedgerTypes
<1>4. CallKnows(call'[p], carried', delivered')
  BY <1>0, <1>1, <1>2, <1>3, LedgerTypes DEF CallKnows
<1>5. CallsOK'
  BY <1>0, <1>1, <1>2, <1>3, <1>4, CallsKept, LedgerTypes
<1>6. RowsOK' /\ EventsOK'
  BY <1>1, RowsUntouched, EventsKept, LedgerTypes
<1>7. QED
  BY <1>5, <1>6 DEF LedgerInv

\* The writes of attachTxHash.  The parked event it consumes, if any, was
\* delivered, so the row may be decided by it; otherwise the row waits again.
LEMMA CommitStep == ASSUME LedgerInv, NEW p \in Requests, attachTxHash_commit(p) PROVE LedgerInv'
<1> DEFINE a == call[p].action
           h == call[p].hash
           won == [[[row[a] EXCEPT !.status = StatusHint(h), !.old = FALSE] EXCEPT !.ev = h] EXCEPT !.hash = h]
           waits == [[row[a] EXCEPT !.status = "submitted", !.old = FALSE] EXCEPT !.hash = h]
<1>0. /\ p \in Processes /\ a \in Actions /\ h \in Hashes
      /\ HashFree(a, h) /\ carried' = [carried EXCEPT ![a] = @ \cup {h}]
      /\ Return(p) /\ UNCHANGED <<requests, delivered>>
  <2>1. p \in Processes /\ call[p].op = "attach" /\ CallKnows(call[p], carried, delivered)
    BY LedgerTypes DEF attachTxHash_commit, At
  <2>2. QED
    BY <2>1 DEF attachTxHash_commit, CallKnows
<1>1. row[a] \in LedgerRow /\ row[a].hash \in Hashes \cup {NoHash} /\ StatusHint(h) \in Statuses
  BY <1>0, LedgerTypes DEF LedgerRow, StatusHint, Statuses
<1>2. /\ won \in LedgerRow /\ won.hash = h /\ won.ev = h /\ won.status = StatusHint(h)
      /\ waits \in LedgerRow /\ waits.hash = h /\ waits.status = "submitted"
  BY <1>0, <1>1 DEF LedgerRow, Statuses
<1>3. /\ carried'[a] = carried[a] \cup {h} /\ carried' = [carried EXCEPT ![a] = carried'[a]]
      /\ carried'[a] \subseteq Hashes /\ \A b \in Actions : carried[b] \subseteq carried'[b]
  BY <1>0, LedgerTypes
<1>4. CallsOK'
  BY <1>0, <1>3, ReturnKept
<1>5. CASE /\ call[p].found /\ parked[h] # "none"
           /\ parked' = [parked EXCEPT ![h] = "consumed"]
           /\ cached' = cached \ {h}
           /\ row' = [row EXCEPT ![a] = [Confirm(@, h) EXCEPT !.hash = h]]
           /\ lease' = LeaseReleased(a)
  <2>1. h \in delivered
    BY <1>0, <1>5, LedgerTypes
  <2>2. row'[a] = won /\ row' = [row EXCEPT ![a] = row'[a]]
    BY <1>0, <1>5, LedgerTypes DEF Confirm, SetStatus
  <2>3. lease'[a] = "none" /\ lease' = [lease EXCEPT ![a] = lease'[a]]
    BY <1>0, <1>5, LedgerTypes DEF LeaseReleased
  <2>a. row'[a] \in LedgerRow /\ row'[a].hash = h /\ row'[a].ev = h /\ row'[a].status = StatusHint(h)
    BY <1>2, <2>2
  <2>4. RowsOK'
    <3>1. row' = [row EXCEPT ![a] = row'[a]]
      BY <2>2
    <3>2. QED
      BY <1>0, <1>3, <2>1, <2>a, <2>3, <3>1, RowsKept, LedgerTypes
  <2>5. EventsOK'
    BY <1>0, <1>5, EventsKept, LedgerTypes
  <2>6. QED
    BY <1>4, <2>4, <2>5 DEF LedgerInv
<1>6. CASE /\ ~ call[p].found
           /\ row' = [row EXCEPT ![a] = [SetStatus(@, "submitted") EXCEPT !.hash = h]]
           /\ lease' = [lease EXCEPT ![a] = "live"]
           /\ UNCHANGED <<parked, cached>>
  <2>1. row'[a] = waits /\ row' = [row EXCEPT ![a] = row'[a]]
    BY <1>0, <1>6, LedgerTypes DEF SetStatus
  <2>2. lease'[a] = "live" /\ lease' = [lease EXCEPT ![a] = lease'[a]]
    BY <1>0, <1>6, LedgerTypes
  <2>a. row'[a] \in LedgerRow /\ row'[a].hash = h /\ row'[a].status = "submitted"
    BY <1>2, <2>1
  <2>3. RowsOK'
    <3>1. row' = [row EXCEPT ![a] = row'[a]]
      BY <2>1
    <3>2. QED
      BY <1>0, <1>3, <2>a, <2>2, <3>1, RowsKept, LedgerTypes
  <2>4. EventsOK'
    BY <1>0, <1>6, EventsKept, LedgerTypes
  <2>5. QED
    BY <1>4, <2>3, <2>4 DEF LedgerInv
<1>7. QED
  BY <1>5, <1>6 DEF attachTxHash_commit

\* A rolled-back attach.
LEMMA AbortStep == ASSUME LedgerInv, NEW p \in Requests, attachTxHash_abort(p) PROVE LedgerInv'
<1>1. /\ UNCHANGED <<requests, row, lease, parked, carried, delivered>> /\ cached' \subseteq cached
      /\ Return(p) /\ p \in Processes
  BY LedgerTypes DEF attachTxHash_abort
<1>2. CallsOK' /\ RowsOK' /\ EventsOK'
  BY <1>1, ReturnKept, RowsUntouched, EventsKept, LedgerTypes
<1>3. QED
  BY <1>2 DEF LedgerInv

\* A cancel writes whatever the row has become since it was read.
LEMMA CancelStep == ASSUME LedgerInv, NEW p \in Requests, cancelAction_write(p) PROVE LedgerInv'
<1> DEFINE a == call[p].action
<1>1. /\ UNCHANGED <<requests, lease, parked, cached, carried, delivered>> /\ Return(p) /\ p \in Processes
      /\ row' = [row EXCEPT ![a] = [row[a] EXCEPT !.status = "failed", !.old = FALSE]]
  BY LedgerTypes DEF cancelAction_write, SetStatus
<1>2. a \in Actions
  BY <1>1, LedgerTypes DEF cancelAction_write, At, CallKnows
<1>3. CallsOK' /\ EventsOK'
  BY <1>1, ReturnKept, EventsKept, LedgerTypes
<1>4. RowsOK'
  BY <1>1, <1>2, StatusKept DEF Statuses
<1>5. QED
  BY <1>3, <1>4 DEF LedgerInv

-----------------------------------------------------------------------------
\* The indexer reads the row an event belongs to, if there is one.
LEMMA EventReadStep == ASSUME LedgerInv, NEW h \in Hashes, reconcileEvent_read(h) PROVE LedgerInv'
<1>1. /\ UNCHANGED <<requests, row, lease, parked, cached, carried>> /\ delivered' = delivered \cup {h}
      /\ Indexer \in Processes /\ delivered' \subseteq Hashes
  BY LedgerTypes DEF reconcileEvent_read
<1>2. PICK op \in {"park", "apply"}, a \in Actions \cup {NoAction} :
        /\ Begin(Indexer, op, a, h)
        /\ op = "apply" => a \in Actions /\ row[a].hash = h
  <2>1. CASE Begin(Indexer, "park", NoAction, h)
    BY <2>1
  <2>2. CASE \E a \in {b \in Actions : row[b].hash = h} : Begin(Indexer, "apply", a, h)
    BY <2>2
  <2>3. QED
    BY <2>1, <2>2 DEF reconcileEvent_read
<1>3. /\ call' = [call EXCEPT ![Indexer] = call'[Indexer]] /\ call'[Indexer] \in LedgerCall
      /\ call'[Indexer].op = op /\ call'[Indexer].action = a /\ call'[Indexer].hash = h
  BY <1>1, <1>2, BeginKnows
<1>4. op = "apply" => h \in carried[a]
  BY <1>2, LedgerAssumption DEF LedgerInv, RowsOK, HashesCarried
<1>5. CallKnows(call'[Indexer], carried', delivered')
  BY <1>1, <1>2, <1>3, <1>4 DEF CallKnows
<1>6. CallsOK'
  BY <1>1, <1>3, <1>5, CallsKept, LedgerTypes
<1>7. RowsOK' /\ EventsOK'
  BY <1>1, RowsUntouched, EventsKept, LedgerTypes
<1>8. QED
  BY <1>6, <1>7 DEF LedgerInv

\* Parking an event: it was delivered before.
LEMMA ParkStep == ASSUME LedgerInv, reconcileEvent_park \/ setPendingEvent PROVE LedgerInv'
<1> DEFINE h == call[Indexer].hash
<1>0. /\ Indexer \in Processes /\ call[Indexer] \in LedgerCall /\ call[Indexer].op = "park"
      /\ h \in delivered /\ h \in Hashes
      /\ UNCHANGED <<requests, row, lease, carried, delivered>> /\ cached' \subseteq cached \cup {h}
  <2>1. Indexer \in Processes /\ call[Indexer] \in LedgerCall /\ call[Indexer].op = "park"
    BY LedgerTypes DEF reconcileEvent_park, setPendingEvent, At
  <2>2. h \in delivered
    BY <2>1, LedgerTypes DEF CallKnows
  <2>3. QED
    BY <2>1, <2>2, LedgerTypes DEF reconcileEvent_park, setPendingEvent
<1>1. RowsOK'
  BY <1>0, RowsUntouched, LedgerTypes
<1>2. EventsOK'
  <2>1. /\ parked' \in [Hashes -> {"none", "open", "stale", "consumed"}]
        /\ \A g \in Hashes : g # h => parked'[g] = parked[g]
    BY <1>0, LedgerTypes DEF reconcileEvent_park, setPendingEvent
  <2>2. QED
    BY <1>0, <2>1, EventsKept, LedgerTypes
<1>3. CASE reconcileEvent_park
  <2>1. call' = [call EXCEPT ![Indexer] = [call[Indexer] EXCEPT !.pc = "parked"]]
    BY <1>3, LedgerTypes DEF reconcileEvent_park
  <2>2. /\ call'[Indexer] = [call[Indexer] EXCEPT !.pc = "parked"]
        /\ call' = [call EXCEPT ![Indexer] = call'[Indexer]]
    BY <1>0, <2>1, LedgerTypes
  <2>3. /\ call'[Indexer] \in LedgerCall /\ call'[Indexer].op = "park" /\ call'[Indexer].hash = h
    BY <1>0, <2>2 DEF LedgerCall
  <2>4. CallKnows(call'[Indexer], carried', delivered')
    BY <1>0, <2>3 DEF CallKnows
  <2>5. CallsOK'
    BY <1>0, <2>2, <2>3, <2>4, CallsKept, LedgerTypes
  <2>6. QED
    BY <1>1, <1>2, <2>5 DEF LedgerInv
<1>4. CASE setPendingEvent
  <2>1. CallsOK'
    BY <1>0, <1>4, ReturnKept, LedgerTypes DEF setPendingEvent
  <2>2. QED
    BY <1>1, <1>2, <2>1 DEF LedgerInv
<1>5. QED
  BY <1>3, <1>4

\* The indexer decides a row by the event it has: the row may have got another
\* hash since, but it has carried this one.
LEMMA ApplyEventStep == ASSUME LedgerInv, reconcileEvent_apply PROVE LedgerInv'
<1> DEFINE a == call[Indexer].action
           h == call[Indexer].hash
<1>0. /\ Indexer \in Processes /\ a \in Actions /\ h \in carried[a] \cap delivered /\ h \in Hashes
      /\ UNCHANGED <<requests, parked, cached, carried, delivered>> /\ Return(Indexer)
      /\ row' = [row EXCEPT ![a] = Confirm(@, h)] /\ lease' = LeaseReleased(a)
  <2>1. Indexer \in Processes /\ call[Indexer].op = "apply"
    BY LedgerTypes DEF reconcileEvent_apply, At
  <2>2. a \in Actions /\ h \in carried[a] \cap delivered
    BY <2>1, LedgerTypes DEF CallKnows
  <2>3. QED
    BY <2>1, <2>2, LedgerTypes DEF reconcileEvent_apply
<1>1. row[a] \in LedgerRow /\ StatusHint(h) \in Statuses
  BY <1>0, LedgerTypes DEF StatusHint, Statuses
<1>2. row'[a] = Confirm(row[a], h) /\ row' = [row EXCEPT ![a] = row'[a]]
  BY <1>0, LedgerTypes
<1>3. /\ row'[a] \in LedgerRow /\ row'[a].hash = row[a].hash /\ row'[a].ev = h
      /\ row'[a].status = StatusHint(h)
  <2>1. /\ Confirm(row[a], h) \in LedgerRow /\ Confirm(row[a], h).hash = row[a].hash
        /\ Confirm(row[a], h).ev = h /\ Confirm(row[a], h).status = StatusHint(h)
    BY <1>0, <1>1 DEF Confirm, SetStatus, LedgerRow
  <2>2. QED
    BY <1>2, <2>1
<1>4. lease'[a] = "none" /\ lease' = [lease EXCEPT ![a] = lease'[a]]
  BY <1>0, LedgerTypes DEF LeaseReleased
<1>5. RowsOK'
  <2>1. /\ row' = [row EXCEPT ![a] = row'[a]] /\ carried' = [carried EXCEPT ![a] = carried'[a]]
        /\ row'[a].hash # NoHash => row'[a].hash \in carried'[a]
    BY <1>0, <1>2, <1>3, LedgerTypes DEF LedgerInv, RowsOK, HashesCarried
  <2>2. QED
    BY <1>0, <1>3, <1>4, <2>1, RowsKept, LedgerTypes
<1>6. CallsOK' /\ EventsOK'
  BY <1>0, ReturnKept, EventsKept, LedgerTypes
<1>7. QED
  BY <1>5, <1>6 DEF LedgerInv

\* A batch that is rolled back, a crash.
LEMMA EventEndStep == ASSUME LedgerInv, reconcileEvent_end PROVE LedgerInv'
<1>1. UNCHANGED <<requests, row, lease, parked, cached, carried, delivered>> /\ Return(Indexer) /\ Indexer \in Processes
  BY LedgerTypes DEF reconcileEvent_end
<1>2. CallsOK' /\ RowsOK' /\ EventsOK'
  BY <1>1, ReturnKept, RowsUntouched, EventsKept, LedgerTypes
<1>3. QED
  BY <1>2 DEF LedgerInv

-----------------------------------------------------------------------------
\* The cron job reads the rows it will sweep.
LEMMA SweepFindStep == ASSUME LedgerInv, NEW op \in {"sweep", "recover"}, NEW T \in SUBSET Actions, Sweep(op, T)
                       PROVE  LedgerInv'
<1>1. /\ UNCHANGED <<requests, row, lease, parked, cached, carried, delivered>> /\ Cron \in Processes
      /\ call' = [call EXCEPT ![Cron] = [Idle EXCEPT !.op = op, !.pc = "read", !.targets = T,
                                          !.hashes = {row[a].hash : a \in T}]]
  BY LedgerTypes DEF Sweep
<1>2. call'[Cron] = [op |-> op, action |-> NoAction, hash |-> NoHash, pc |-> "read", found |-> FALSE,
                     locked |-> FALSE, targets |-> T, hashes |-> {row[a].hash : a \in T}]
  BY <1>1, LedgerTypes DEF Idle
<1>3. {row[a].hash : a \in T} \subseteq Hashes \cup {NoHash}
  BY LedgerTypes DEF LedgerRow
<1>4. call'[Cron] \in LedgerCall /\ call'[Cron].op = op
  BY <1>2, <1>3 DEF LedgerCall
<1>5. CallKnows(call'[Cron], carried', delivered')
  BY <1>4 DEF CallKnows
<1>6. call' = [call EXCEPT ![Cron] = call'[Cron]]
  BY <1>1, LedgerTypes
<1>7. CallsOK'
  BY <1>1, <1>4, <1>5, <1>6, CallsKept, LedgerTypes
<1>8. RowsOK' /\ EventsOK'
  BY <1>1, RowsUntouched, EventsKept, LedgerTypes
<1>9. QED
  BY <1>7, <1>8 DEF LedgerInv

\* updateMany touches submitted rows only.
LEMMA OrphanStep == ASSUME LedgerInv, sweepOrphans_orphan PROVE LedgerInv'
<1> DEFINE T == call[Cron].targets
<1>1. /\ UNCHANGED <<requests, lease, parked, cached, carried, delivered>> /\ Cron \in Processes
      /\ call' = [call EXCEPT ![Cron].pc = "orphaned"] /\ call[Cron] \in LedgerCall
      /\ row' = [a \in Actions |-> IF a \in T /\ row[a].status = "submitted"
                                   THEN SetStatus(row[a], "orphaned") ELSE row[a]]
      /\ call[Cron].op \in {"sweep", "recover"}
  BY LedgerTypes DEF sweepOrphans_orphan
<1>2. \A a \in Actions :
        /\ row'[a] \in LedgerRow /\ row'[a].hash = row[a].hash /\ row'[a].ev = row[a].ev
        /\ row'[a].status = row[a].status \/ row'[a].status = "orphaned"
  <2> SUFFICES ASSUME NEW a \in Actions
               PROVE  /\ row'[a] \in LedgerRow /\ row'[a].hash = row[a].hash /\ row'[a].ev = row[a].ev
                      /\ row'[a].status = row[a].status \/ row'[a].status = "orphaned"
    OBVIOUS
  <2>1. row[a] \in LedgerRow
    BY LedgerTypes
  <2>2. CASE row'[a] = row[a]
    BY <2>1, <2>2
  <2>3. CASE row'[a] = [row[a] EXCEPT !.status = "orphaned", !.old = FALSE]
    BY <2>1, <2>3 DEF LedgerRow, Statuses
  <2>4. QED
    BY <1>1, <2>2, <2>3 DEF SetStatus
<1>3. row' \in [Actions -> LedgerRow]
  BY <1>1, <1>2
<1>4. EvidenceBacked' /\ HashOwnedOnce' /\ DecidedIsUnleased' /\ HashesCarried'
  BY <1>1, <1>2 DEF LedgerInv, RowsOK, EvidenceBacked, HashOwnedOnce, DecidedIsUnleased, HashesCarried
<1>5. RowsOK'
  BY <1>1, <1>3, <1>4, LedgerTypes DEF RowsOK
<1>6. /\ call'[Cron] = [call[Cron] EXCEPT !.pc = "orphaned"]
      /\ call' = [call EXCEPT ![Cron] = call'[Cron]]
  BY <1>1, LedgerTypes
<1>7. call'[Cron] \in LedgerCall /\ call'[Cron].op \in {"sweep", "recover"}
  BY <1>1, <1>6 DEF LedgerCall
<1>8. CallKnows(call'[Cron], carried', delivered')
  BY <1>7 DEF CallKnows
<1>9. CallsOK' /\ EventsOK'
  BY <1>1, <1>6, <1>7, <1>8, CallsKept, EventsKept, LedgerTypes
<1>10. QED
  BY <1>5, <1>9 DEF LedgerInv

\* Pruning parked events.
LEMMA PruneStep == ASSUME LedgerInv, sweepOrphans_prune PROVE LedgerInv'
<1>1. UNCHANGED <<requests, row, lease, cached, carried, delivered>> /\ Return(Cron) /\ Cron \in Processes
  BY LedgerTypes DEF sweepOrphans_prune
<1>2. EventsOK'
  <2>1. parked' = [h \in Hashes |-> IF parked[h] = "stale" THEN "none" ELSE parked[h]]
    BY DEF sweepOrphans_prune
  <2>2. QED
    BY <1>1, <2>1, EventsKept, LedgerTypes
<1>3. CallsOK' /\ RowsOK'
  BY <1>1, ReturnKept, RowsUntouched, LedgerTypes
<1>4. QED
  BY <1>2, <1>3 DEF LedgerInv

\* Recovery releases leases and drops the parked events of its rows.
LEMMA ReleaseStep == ASSUME LedgerInv, recoverSubmittedLeases_release PROVE LedgerInv'
<1>1. /\ UNCHANGED <<requests, row, carried, delivered>> /\ Return(Cron) /\ Cron \in Processes
      /\ cached' \subseteq cached
  BY LedgerTypes DEF recoverSubmittedLeases_release
<1>2. EventsOK'
  <2>1. parked' = [h \in Hashes |-> IF h \in call[Cron].hashes THEN "none" ELSE parked[h]]
    BY DEF recoverSubmittedLeases_release
  <2>2. QED
    BY <1>1, <2>1, EventsKept, LedgerTypes
<1>3. RowsOK'
  <2>1. lease' = [a \in Actions |-> IF a \in call[Cron].targets THEN "none" ELSE lease[a]]
    BY DEF recoverSubmittedLeases_release
  <2>2. QED
    BY <1>1, <2>1 DEF LedgerInv, RowsOK, EvidenceBacked, HashOwnedOnce, DecidedIsUnleased, HashesCarried
<1>4. CallsOK'
  BY <1>1, ReturnKept, LedgerTypes
<1>5. QED
  BY <1>2, <1>3, <1>4 DEF LedgerInv

\* Time passes.
LEMMA AgeStep == ASSUME LedgerInv, Age PROVE LedgerInv'
<1>0. UNCHANGED <<call, requests, carried, delivered>>
  BY DEF Age
<1>1. CallsOK'
  BY <1>0 DEF LedgerInv, CallsOK
<1>2. ASSUME NEW a \in Actions, row[a].status = "submitted", row' = [row EXCEPT ![a].old = TRUE],
             UNCHANGED <<lease, parked, cached>>
      PROVE  LedgerInv'
  <2>1. row' = [row EXCEPT ![a] = [row[a] EXCEPT !.status = "submitted", !.old = TRUE]]
    BY <1>2, LedgerTypes DEF LedgerRow
  <2>2. RowsOK'
    BY <1>0, <1>2, <2>1, StatusKept DEF Statuses
  <2>3. EventsOK'
    BY <1>0, <1>2, EventsKept, LedgerTypes
  <2>4. QED
    BY <1>1, <2>2, <2>3 DEF LedgerInv
<1>3. ASSUME NEW a \in Actions, lease[a] = "live", lease' = [lease EXCEPT ![a] = "expired"],
             UNCHANGED <<row, parked, cached>>
      PROVE  LedgerInv'
  <2>1. RowsOK'
    BY <1>0, <1>3 DEF LedgerInv, RowsOK, EvidenceBacked, HashOwnedOnce, DecidedIsUnleased, HashesCarried
  <2>2. EventsOK'
    BY <1>0, <1>3, EventsKept, LedgerTypes
  <2>3. QED
    BY <1>1, <2>1, <2>2 DEF LedgerInv
<1>4. ASSUME UNCHANGED <<row, lease>>, cached' \subseteq cached,
             parked' = parked \/ \E h \in Hashes : parked[h] = "open" /\ parked' = [parked EXCEPT ![h] = "stale"]
      PROVE  LedgerInv'
  <2>1. RowsOK'
    BY <1>0, <1>4, RowsUntouched, LedgerTypes
  <2>2. EventsOK'
    BY <1>0, <1>4, EventsKept, LedgerTypes
  <2>3. QED
    BY <1>1, <2>1, <2>2 DEF LedgerInv
<1>5. QED
  BY <1>2, <1>3, <1>4 DEF Age

-----------------------------------------------------------------------------
\* The invariant holds initially.
LEMMA LedgerInitInv == LedgerInit => LedgerInv
<1> SUFFICES ASSUME LedgerInit PROVE LedgerInv
  OBVIOUS
<1>1. RowsOK
  BY DEF LedgerInit, RowsOK, LedgerRow, Statuses, EvidenceBacked, HashOwnedOnce, DecidedIsUnleased, HashesCarried
<1>2. EventsOK
  BY DEF LedgerInit, EventsOK
<1>3. CallsOK
  <2>1. requests \in 0 .. MaxRequests /\ call = [p \in Processes |-> Idle]
    BY LedgerAssumption DEF LedgerInit
  <2>2. QED
    BY <2>1, IdleKnows DEF CallsOK
<1>4. QED
  BY <1>1, <1>2, <1>3 DEF LedgerInv

\* Every step keeps the invariant: one case per statement of a handler.
LEMMA LedgerNextInv == LedgerInv /\ [LedgerNext]_ledgerVars => LedgerInv'
<1> SUFFICES ASSUME LedgerInv, [LedgerNext]_ledgerVars PROVE LedgerInv'
  OBVIOUS
<1>1. ASSUME NEW a \in Actions, createAction(a) PROVE LedgerInv'
  BY <1>1, CreateStep
<1>2. ASSUME NEW p \in Requests, Request(p) PROVE LedgerInv'
  BY <1>2, RequestBegins, LookupStep, CommitStep, AbortStep, CancelStep DEF Request
<1>3. CASE Reconcile
  BY <1>3, EventReadStep, ParkStep, ApplyEventStep, EventEndStep DEF Reconcile
<1>4. CASE SweepOrphans
  <2>1. StaleActions \in SUBSET Actions
    BY DEF StaleActions
  <2>2. QED
    BY <1>4, <2>1, SweepFindStep, OrphanStep, PruneStep DEF SweepOrphans, sweepOrphans_find
<1>5. CASE Recover
  <2>1. {a \in Actions : row[a].status = "submitted" /\ lease[a] # "live"} \in SUBSET Actions
    OBVIOUS
  <2>2. QED
    BY <1>5, <2>1, SweepFindStep, ReleaseStep DEF Recover, recoverSubmittedLeases_find
<1>6. CASE Age
  BY <1>6, AgeStep
<1>7. CASE UNCHANGED ledgerVars
  BY <1>7 DEF ledgerVars, LedgerInv, RowsOK, EventsOK, CallsOK, EvidenceBacked, HashOwnedOnce,
              DecidedIsUnleased, HashesCarried
<1>8. QED
  BY <1>1, <1>2, <1>3, <1>4, <1>5, <1>6, <1>7 DEF LedgerNext

\* However requests, the indexer and the sweeps of ledger.ts interleave, a
\* decided row has the chain's word for it, carries a transaction no other
\* row carries, and holds no lease.
THEOREM LedgerStaysSound == LedgerSpec => []LedgerSound
<1>1. LedgerInv => LedgerSound
  BY DEF LedgerInv, RowsOK, EventsOK, CallsOK, LedgerSound, LedgerTypeOK
<1>2. QED
  BY <1>1, LedgerInitInv, LedgerNextInv, PTL DEF LedgerSpec
=============================================================================
