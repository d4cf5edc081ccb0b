---------------------------- MODULE SavingsMirror ----------------------------
(***************************************************************************)
(* The in-memory savings and quests of the front end (services/            *)
(* savingsService.ts, services/questService.ts), which must behave like    *)
(* the pool contract, and the predicates and fixtures they share with the  *)
(* conformance tests (lib/conformance-spec.ts).  A quest's milestones are  *)
(* one object for all its participants.                                    *)
(***************************************************************************)
EXTENDS Integers, Sequences, FiniteSets

CONSTANTS
  Savers,
  Targets,        \* targetAmount of the milestones, in order
  SavedSums,      \* amounts tried, of any sign
  MaxBalance, MaxYield,   \* bounds on a balance and on the yield credited
  ClaimDeadline, LastSaving,   \* claimDeadline, and the bound on time
  MaxQuests       \* bound on the quests, the two seeds included

ASSUME MirrorAssumption ==
  /\ Targets \in Seq(Nat \ {0}) /\ SavedSums \subseteq Int /\ MaxBalance \in Nat /\ MaxYield \in Nat
  /\ ClaimDeadline \in Nat /\ LastSaving \in Nat /\ MaxQuests \in Nat

VARIABLES
  savingsClock,   \* Date.now()
  completedFlag,  \* isCompleted of the quest's milestones
  saver,          \* participation of each saver: balance, progress, yield, claimedReward
  paidOut,        \* history: what each saver's claims returned
  questDb,        \* quests, in order: id and whether they have an escrow
  enrolled        \* participations of joinChallenge: <<id, saver>> and balance

savingVars == <<savingsClock, completedFlag, saver, paidOut>>
questDbVars == <<questDb, enrolled>>
mirrorVars == <<savingVars, questDbVars>>

Milestones == DOMAIN Targets

-----------------------------------------------------------------------------
(* The predicates of lib/conformance-spec.ts: "ok" stands for null.          *)

validateDepositAmount(sum) == IF sum <= 0 THEN "InvalidAmount" ELSE "ok"
validateWithdrawLockup(lockedUntil, currentLedger) == IF currentLedger < lockedUntil THEN "LockupActive" ELSE "ok"
validateClaimDeadline(until, now) == IF now > until THEN "ClaimDeadlinePassed" ELSE "ok"
claimableTotal(yield, prize, claimed) == yield + prize - claimed
validateCreditYield(sum, distributable) ==
  IF sum <= 0 THEN "InvalidAmount" ELSE IF sum > distributable THEN "InvalidAction" ELSE "ok"
validateQuestReward(reward) == IF reward > 0 THEN "ok" ELSE "InvalidAmount"

lockupMultiplierBps(days) == IF days <= 0 THEN 100 ELSE IF days <= 7 THEN 110 ELSE IF days <= 14 THEN 125 ELSE 150

\* runCanonicalCase: the outcome of a case, <<status or error, value>>.
runCanonicalCase(domain, i) ==
  CASE domain = "deposit"      -> <<validateDepositAmount(i[1]), 0>>
    [] domain = "withdraw"     -> LET v == validateWithdrawLockup(i[2], i[3]) IN <<v, IF v = "ok" THEN i[1] ELSE 0>>
    [] domain = "claim"        ->
         IF validateClaimDeadline(i[4], i[5]) # "ok" THEN <<"ClaimDeadlinePassed", 0>>
         ELSE LET available == claimableTotal(i[1], i[2], i[3]) IN
              IF available <= 0 THEN <<"noop", 0>> ELSE <<"ok", available>>
    [] domain = "credit_yield" -> <<validateCreditYield(i[1], i[2]), 0>>
    [] domain = "draw_winner"  -> <<validateQuestReward(i[1]), 0>>
    [] domain = "quest"        -> <<validateQuestReward(i[1]), 0>>
    [] domain = "lockup"       -> <<"ok", lockupMultiplierBps(i[1])>>

\* BEHAVIORAL_FIXTURES: domain, inputs, expected outcome.  No deadline is a late one.
Fixtures == {
  <<"deposit", <<0>>, <<"InvalidAmount", 0>>>>, <<"deposit", <<-10>>, <<"InvalidAmount", 0>>>>,
  <<"deposit", <<100>>, <<"ok", 0>>>>,
  <<"withdraw", <<500, 1000, 999>>, <<"LockupActive", 0>>>>, <<"withdraw", <<500, 1000, 1000>>, <<"ok", 500>>>>,
  <<"claim", <<0, 0, 0, 9999, 5>>, <<"noop", 0>>>>, <<"claim", <<100, 0, 100, 9999, 5>>, <<"noop", 0>>>>,
  <<"claim", <<100, 25, 50, 9999, 5>>, <<"ok", 75>>>>,
  <<"claim", <<100, 0, 0, 1000, 1001>>, <<"ClaimDeadlinePassed", 0>>>>, <<"claim", <<100, 0, 0, 1000, 1000>>, <<"ok", 100>>>>,
  <<"credit_yield", <<200, 100>>, <<"InvalidAction", 0>>>>, <<"credit_yield", <<100, 100>>, <<"ok", 0>>>>,
  <<"draw_winner", <<0>>, <<"InvalidAmount", 0>>>>, <<"draw_winner", <<1000>>, <<"ok", 0>>>>,
  <<"quest", <<0>>, <<"InvalidAmount", 0>>>>, <<"quest", <<500>>, <<"ok", 0>>>>,
  <<"lockup", <<0>>, <<"ok", 100>>>>, <<"lockup", <<7>>, <<"ok", 110>>>>,
  <<"lockup", <<14>>, <<"ok", 125>>>>, <<"lockup", <<15>>, <<"ok", 150>>>>}

-----------------------------------------------------------------------------

\* Two active quests with an escrow; their ids are none that nextId gives.
seedQuests == <<[id |-> -1, escrow |-> TRUE], [id |-> -2, escrow |-> TRUE]>>

NewParticipation == [balance |-> 0, progress |-> [m \in Milestones |-> FALSE], yield |-> 0, claimedReward |-> 0]

MirrorInit ==
  /\ savingsClock = 0
  /\ completedFlag = [m \in Milestones |-> FALSE]
  /\ saver = [s \in Savers |-> NewParticipation] /\ paidOut = [s \in Savers |-> 0]
  /\ questDb = seedQuests /\ enrolled = {}

TimePasses ==
  /\ savingsClock < LastSaving /\ savingsClock' = savingsClock + 1
  /\ UNCHANGED <<completedFlag, saver, paidOut, questDbVars>>

\* Milestones a balance reaches that the participant has not completed.
Reached(p, balance) == {m \in Milestones : balance >= Targets[m] /\ ~p.progress[m]}

trackDeposit(s, sum) ==
  LET balance == saver[s].balance + sum
      newly == Reached(saver[s], balance) IN
  /\ validateDepositAmount(sum) = "ok" /\ balance <= MaxBalance
  /\ saver' = [saver EXCEPT ![s].balance = balance,
                            ![s].progress = [m \in Milestones |-> @[m] \/ m \in newly]]
  /\ completedFlag' = [m \in Milestones |-> completedFlag[m] \/ m \in newly]
  /\ UNCHANGED <<savingsClock, paidOut, questDbVars>>

\* The next slot, whichever milestone was named; the quest's flag stays.
unlockMilestone(s) ==
  LET open == {m \in Milestones : ~saver[s].progress[m]} IN
  /\ open # {}
  /\ saver' = [saver EXCEPT ![s].progress[CHOOSE m \in open : \A n \in open : m <= n] = TRUE]
  /\ UNCHANGED <<savingsClock, completedFlag, paidOut, questDbVars>>

creditReward(s, sum) ==
  /\ validateDepositAmount(sum) = "ok" /\ saver[s].yield + sum <= MaxYield
  /\ saver' = [saver EXCEPT ![s].yield = @ + sum]
  /\ UNCHANGED <<savingsClock, completedFlag, paidOut, questDbVars>>

\* What claimable returns, and the claim pays.
claimable(p) == LET available == claimableTotal(p.yield, 0, p.claimedReward) IN IF available > 0 THEN available ELSE 0

AfterClaim(claimed, available) == claimed + available

\* With nothing to claim, the claim returns 0.
claimReward(s) ==
  LET available == claimable(saver[s]) IN
  /\ validateClaimDeadline(ClaimDeadline, savingsClock) = "ok" /\ available > 0
  /\ saver' = [saver EXCEPT ![s].claimedReward = AfterClaim(@, available)]
  /\ paidOut' = [paidOut EXCEPT ![s] = @ + available]
  /\ UNCHANGED <<savingsClock, completedFlag, questDbVars>>

-----------------------------------------------------------------------------
(* The quest service.  An id is the time of creation: two quests of one      *)
(* moment share it.                                                          *)

createChallenge(reward, escrow) ==
  /\ validateQuestReward(reward) = "ok" /\ Len(questDb) < MaxQuests
  /\ questDb' = Append(questDb, [id |-> savingsClock, escrow |-> escrow])
  /\ UNCHANGED <<savingVars, enrolled>>

\* quests.find: the first with that id.
FindQuest(id) == LET found == {i \in DOMAIN questDb : questDb[i].id = id} IN
                 IF found = {} THEN {} ELSE {questDb[CHOOSE i \in found : \A j \in found : i <= j]}

Enrolment(id, s) == {e \in enrolled : e.id = id /\ e.saver = s}

\* Only an active quest, one with an escrow; joining again changes nothing.
joinChallenge(id, s) ==
  /\ \E q \in FindQuest(id) : q.escrow
  /\ Enrolment(id, s) = {}
  /\ enrolled' = enrolled \cup {[id |-> id, saver |-> s, balance |-> 0]}
  /\ UNCHANGED <<savingVars, questDb>>

updateProgress(e, balance) ==
  /\ balance > e.balance
  /\ enrolled' = (enrolled \ {e}) \cup {[e EXCEPT !.balance = balance]}
  /\ UNCHANGED <<savingVars, questDb>>

MirrorNext ==
  \/ TimePasses
  \/ \E s \in Savers : \/ \E sum \in SavedSums : trackDeposit(s, sum) \/ creditReward(s, sum)
                       \/ unlockMilestone(s) \/ claimReward(s)
                       \/ \E i \in DOMAIN questDb : joinChallenge(questDb[i].id, s)
  \/ \E reward \in SavedSums, escrow \in BOOLEAN : createChallenge(reward, escrow)
  \/ \E e \in enrolled, balance \in 0 .. MaxBalance : updateProgress(e, balance)

MirrorSpec == MirrorInit /\ [][MirrorNext]_mirrorVars

-----------------------------------------------------------------------------

FixturesHold == \A f \in Fixtures : runCanonicalCase(f[1], f[2]) = f[3]

\* However deposits, credits and claims of several savers alternate, claims
\* paid no more than was credited and left none of it unrecorded; a milestone
\* the quest shows as completed was reached by someone's balance, and nobody
\* is enrolled in a quest without an escrow or twice.  The predicates they all
\* rest on give every fixture the outcome it expects.
ClaimsAreEarned ==
  /\ FixturesHold
  /\ \A s \in Savers : paidOut[s] = saver[s].claimedReward /\ paidOut[s] <= saver[s].yield
  /\ \A m \in Milestones : completedFlag[m] => \E s \in Savers : saver[s].progress[m] /\ saver[s].balance >= Targets[m]
  /\ \A e \in enrolled : (\E q \in FindQuest(e.id) : q.escrow) /\ Cardinality(Enrolment(e.id, e.saver)) = 1

=============================================================================
