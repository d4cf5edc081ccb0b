-------------------------- MODULE PoolRoundsProofs --------------------------
(***************************************************************************)
(* Proofs about PoolRounds: the type invariant, that no round pays out     *)
(* more than its settled total, that locked snapshots and settled outcomes *)
(* never change, that snapshots are exact and that no claim is refused,    *)
(* for any number of participants and rounds and any amounts.              *)
(***************************************************************************)
EXTENDS PoolRounds, SumProofs

\* The inductive invariant.  A claim is capped by the round's total, so what
\* must not happen is that the total shrinks under it: it is 0 until
\* settlement, which alone writes it, and settlement happens once.
RoundInv == RoundsTypeOK /\ NoOverDistribution

\* What NoOverDistribution says of one round.
Sound(r) == r.claimed <= Total(r) /\ (r.status # "Settled" => Total(r) = 0)

\* The types of what Update leaves to its caller.
DepositsType == deposits \in [Accounts -> [Ids -> Nat]]

-----------------------------------------------------------------------------
\* Rewriting one stored round by a typed, sound and forward successor keeps
\* the invariant and freezes every other round.
LEMMA UpdateKeeps ==
    ASSUME RoundInv, NEW id \in Stored, NEW status, NEW r \in Round,
           Update(id, status, r), Sound(r), Forward(rounds[id], r), DepositsType'
    PROVE  RoundInv' /\ FrozenStep
<1>1. /\ Stored' = Stored /\ nonce' = nonce /\ ledgerTime' = ledgerTime
      /\ rounds' = [rounds EXCEPT ![id] = r]
  BY DEF Update, Stored, RoundInv, RoundsTypeOK
<1>2. rounds' \in [Stored -> Round]
  BY <1>1 DEF RoundInv, RoundsTypeOK
<1>3. RoundsTypeOK'
  BY <1>1, <1>2 DEF RoundInv, RoundsTypeOK, DepositsType
<1>4. \A i \in Stored : rounds'[i] = IF i = id THEN r ELSE rounds[i]
  BY <1>1 DEF RoundInv, RoundsTypeOK
<1>5. NoOverDistribution'
  BY <1>1, <1>4 DEF RoundInv, NoOverDistribution, Sound, Total
<1>6. \A i \in Stored : Forward(rounds[i], rounds[i])
  <2>1. \A i \in Stored : rounds[i] \in Round
    BY DEF RoundInv, RoundsTypeOK
  <2>2. \A x \in Status : Rank(x) <= Rank(x)
    BY DEF Rank, Status
  <2> QED BY <2>1, <2>2 DEF Forward, Round
<1>7. FrozenStep
  BY <1>1, <1>4, <1>6 DEF FrozenStep, Stored
<1> QED BY <1>3, <1>5, <1>7 DEF RoundInv

\* Stuttering on the rounds.
LEMMA QuietKeeps ==
    ASSUME RoundInv, UNCHANGED <<rounds, nonce>>, DepositsType', ledgerTime' \in Nat
    PROVE  RoundInv' /\ FrozenStep
<1>1. Stored' = Stored
  BY DEF Stored
<1>2. RoundsTypeOK' /\ NoOverDistribution'
  BY <1>1 DEF RoundInv, RoundsTypeOK, DepositsType, NoOverDistribution, Total
<1>3. \A i \in Stored : rounds[i].status \in Status
  BY DEF RoundInv, RoundsTypeOK, Round
<1>4. \A x \in Status : Rank(x) <= Rank(x)
  BY DEF Rank, Status
<1> QED BY <1>1, <1>2, <1>3, <1>4 DEF RoundInv, FrozenStep, Forward, Stored

\* What the invariant gives for one stored round.
LEMMA StoredRound ==
    ASSUME RoundInv, NEW id \in Stored
    PROVE  rounds[id] \in Round /\ Sound(rounds[id]) /\ id \in Ids
<1>1. rounds[id] \in Round /\ Sound(rounds[id])
  BY DEF RoundInv, RoundsTypeOK, NoOverDistribution, Sound
<1>2. id \in Ids
  BY RoundsAssumption DEF RoundInv, RoundsTypeOK, Ids
<1> QED BY <1>1, <1>2

\* Writing one participant's deposit keeps the type of deposits.
LEMMA DepositWrite ==
    ASSUME RoundInv, NEW who \in Accounts, NEW id \in Stored, NEW n \in Nat,
           deposits' = [deposits EXCEPT ![who][id] = n]
    PROVE  DepositsType'
<1>1. deposits \in [Accounts -> [Ids -> Nat]] /\ id \in Ids
  BY StoredRound DEF RoundInv, RoundsTypeOK
<1> QED BY <1>1 DEF DepositsType

\* A share is a natural number.
LEMMA ShareType ==
    ASSUME NEW r \in Round, r.principal_snapshot > 0, NEW d \in Nat
    PROVE  Share(r, d) \in Nat
<1>1. \A t \in Nat, x \in Nat, s \in Nat : s > 0 => (t * x) \div s \in Nat
  OBVIOUS
<1>2. Total(r) \in Nat /\ r.principal_snapshot \in Nat
  BY DEF Round, Total
<1> QED BY <1>1, <1>2 DEF Share

-----------------------------------------------------------------------------
\* open_round adds a fresh round under an id never used before.
LEMMA OpenStep ==
    ASSUME RoundInv, open_round
    PROVE  RoundInv' /\ FrozenStep
<1> DEFINE fresh == [status |-> "Open", locked_at |-> 0, principal_snapshot |-> 0,
                     realized_yield |-> 0, prize_reserve |-> 0, claimed |-> 0]
<1>1. Stored' = Stored \cup {nonce} /\ nonce \notin Stored /\ nonce \in Nat
  BY RoundsAssumption DEF open_round, NextNonce, Stored, RoundInv, RoundsTypeOK
<1>2. \A i \in Stored' : rounds'[i] = IF i = nonce THEN fresh ELSE rounds[i]
  BY <1>1 DEF open_round, NextNonce
<1>3. fresh \in Round /\ Sound(fresh)
  BY DEF Round, Status, Sound, Total
<1>4. rounds' \in [Stored' -> Round]
  BY <1>1, <1>3 DEF open_round, NextNonce, RoundInv, RoundsTypeOK
<1>5. nonce' \in 0..MaxRounds /\ Stored' \subseteq 0..(nonce' - 1)
  BY <1>1, RoundsAssumption DEF open_round, NextNonce, RoundInv, RoundsTypeOK
<1>6. RoundsTypeOK'
  BY <1>4, <1>5 DEF open_round, NextNonce, RoundInv, RoundsTypeOK
<1>7. \A i \in Stored' : Sound(rounds'[i])
  BY <1>1, <1>2, <1>3, StoredRound
<1>8. NoOverDistribution'
  BY <1>7 DEF NoOverDistribution, Sound, Total
<1>9. \A i \in Stored : Forward(rounds[i], rounds'[i])
  <2>1. \A x \in Status : Rank(x) <= Rank(x)
    BY DEF Rank, Status
  <2>2. \A i \in Stored : rounds[i] \in Round /\ rounds'[i] = rounds[i]
    BY <1>1, <1>2, StoredRound
  <2> QED BY <2>1, <2>2 DEF Forward, Round
<1>10. FrozenStep
  BY <1>1, <1>9 DEF FrozenStep, Stored
<1> QED BY <1>6, <1>8, <1>10 DEF RoundInv

\* round_deposit raises the snapshot of an open round.
LEMMA DepositStep ==
    ASSUME RoundInv, NEW who \in Accounts, NEW id \in Stored, NEW amount \in Amounts,
           round_deposit(who, id, amount)
    PROVE  RoundInv' /\ FrozenStep
<1> DEFINE r == rounds[id]
           s == [r EXCEPT !.principal_snapshot = @ + amount]
<1>1. r \in Round /\ Sound(r) /\ id \in Ids
  BY StoredRound
<1>2. amount \in Nat /\ r.principal_snapshot + amount \in Nat
  BY <1>1, RoundsAssumption DEF Round
<1>3. s \in Round
  BY <1>1, <1>2 DEF Round
<1>4. Update(id, "Open", s) /\ r.status = "Open"
  BY DEF round_deposit, Update
<1>5. Sound(s) /\ Forward(r, s)
  BY <1>1, <1>3, <1>4 DEF Sound, Forward, Total, Rank, Round
<1>6. deposits[who][id] \in Nat
  BY <1>1 DEF RoundInv, RoundsTypeOK
<1>7. DepositsType'
  BY <1>2, <1>6, DepositWrite, deposits[who][id] + amount \in Nat DEF round_deposit, Added
<1> QED BY <1>3, <1>4, <1>5, <1>7, UpdateKeeps

\* lock_round freezes the snapshot.
LEMMA LockStep ==
    ASSUME RoundInv, NEW id \in Stored, lock_round(id)
    PROVE  RoundInv' /\ FrozenStep
<1> DEFINE r == rounds[id]
           s == [r EXCEPT !.status = "Locked", !.locked_at = ledgerTime]
<1>1. r \in Round /\ Sound(r)
  BY StoredRound
<1>2. s \in Round
  BY <1>1 DEF Round, Status, RoundInv, RoundsTypeOK
<1>3. Update(id, "Open", s) /\ r.status = "Open"
  BY DEF lock_round, Update
<1>4. Sound(s) /\ Forward(r, s)
  BY <1>1, <1>2, <1>3 DEF Sound, Forward, Total, Rank, Round
<1>5. DepositsType'
  BY DEF lock_round, DepositsType, RoundInv, RoundsTypeOK
<1> QED BY <1>2, <1>3, <1>4, <1>5, UpdateKeeps

\* settle_round and finalize_round: nothing was claimed before.
LEMMA SettleStep ==
    ASSUME RoundInv, NEW id \in Stored, NEW yield \in Nat, NEW prize \in Nat,
           Update(id, "Locked", [rounds[id] EXCEPT !.status = "Settled",
                                   !.realized_yield = yield, !.prize_reserve = prize]),
           UNCHANGED deposits
    PROVE  RoundInv' /\ FrozenStep
<1> DEFINE r == rounds[id]
           s == [r EXCEPT !.status = "Settled",
                          !.realized_yield = yield, !.prize_reserve = prize]
<1>1. r \in Round /\ Sound(r)
  BY StoredRound
<1>2. s \in Round
  BY <1>1 DEF Round, Status
<1>3. r.status = "Locked" /\ Update(id, "Locked", s)
  BY DEF Update
<1>4. Total(r) = 0 /\ r.claimed <= 0
  BY <1>1, <1>3 DEF Sound
<1>5. Sound(s) /\ Forward(r, s)
  BY <1>1, <1>2, <1>3, <1>4 DEF Sound, Forward, Total, Rank, Round
<1>6. DepositsType'
  BY DEF DepositsType, RoundInv, RoundsTypeOK
<1> QED BY <1>2, <1>3, <1>5, <1>6, UpdateKeeps

\* round_claim checks the total before it pays.
LEMMA ClaimStep ==
    ASSUME RoundInv, NEW who \in Accounts, NEW id \in Stored, round_claim(who, id)
    PROVE  RoundInv' /\ FrozenStep
<1> DEFINE r == rounds[id]
           share == Share(r, deposits[who][id])
           s == [r EXCEPT !.claimed = @ + share]
<1>1. r \in Round /\ Sound(r) /\ id \in Ids
  BY StoredRound
<1>2. share \in Nat
  BY <1>1, ShareType DEF round_claim, RoundInv, RoundsTypeOK
<1>3. /\ r.status = "Settled" /\ Update(id, "Settled", s)
      /\ r.claimed + share <= Total(r)
  BY DEF round_claim, Update
<1> HIDE DEF share
<1>4. r.claimed + share \in Nat
  BY <1>1, <1>2 DEF Round
<1>5. s \in Round /\ s.claimed = r.claimed + share
  BY <1>1, <1>4 DEF Round
<1>6. Sound(s) /\ Forward(r, s)
  BY <1>1, <1>3, <1>5 DEF Sound, Forward, Total, Rank, Round
<1>7. DepositsType'
  BY DepositWrite DEF round_claim, Spent
<1> QED BY <1>3, <1>5, <1>6, <1>7, UpdateKeeps

\* prune_round only takes a settled round away.
LEMMA PruneStep ==
    ASSUME RoundInv, NEW id \in Stored, NEW participants, prune_round(id, participants)
    PROVE  RoundInv' /\ FrozenStep
<1>1. Stored' = Stored \ {id} /\ \A i \in Stored' : rounds'[i] = rounds[i]
  BY DEF prune_round,  Stored
<1>2. \A i \in Stored : rounds[i] \in Round /\ Sound(rounds[i])
  BY StoredRound
<1>3. RoundsTypeOK'
  BY <1>1, <1>2 DEF prune_round,  RoundInv, RoundsTypeOK, Stored
<1>4. NoOverDistribution'
  BY <1>1, <1>2 DEF NoOverDistribution, Sound, Total
<1>5. \A x \in Status : Rank(x) <= Rank(x)
  BY DEF Rank, Status
<1>6. \A i \in Stored' : Forward(rounds[i], rounds'[i])
  BY <1>1, <1>2, <1>5 DEF Forward, Round
<1>7. FrozenStep
  BY <1>1, <1>6 DEF FrozenStep, Stored
<1> QED BY <1>3, <1>4, <1>7 DEF RoundInv

-----------------------------------------------------------------------------
\* Nothing is stored at first.
LEMMA InitInv == RoundsInit => RoundInv
BY RoundsAssumption DEF RoundsInit, RoundInv, RoundsTypeOK, NoOverDistribution, Stored

\* Every step keeps the invariant and only moves rounds forward.
LEMMA NextInv ==
    ASSUME RoundInv, [RoundsNext]_roundVars
    PROVE  RoundInv' /\ [FrozenStep]_roundVars
<1>1. CASE UNCHANGED roundVars
  <2>1. UNCHANGED <<rounds, nonce>> /\ DepositsType' /\ ledgerTime' \in Nat
    BY <1>1 DEF roundVars, RoundInv, RoundsTypeOK, DepositsType
  <2> QED BY <2>1, QuietKeeps
<1>2. CASE open_round
  BY <1>2, OpenStep
<1>3. CASE AdvanceLedger
  <2>1. UNCHANGED <<rounds, nonce>> /\ DepositsType' /\ ledgerTime' \in Nat
    BY <1>3 DEF AdvanceLedger, RoundInv, RoundsTypeOK, DepositsType
  <2> QED BY <2>1, QuietKeeps
<1>4. ASSUME NEW id \in Stored, lock_round(id)
      PROVE  RoundInv' /\ FrozenStep
  BY <1>4, LockStep
<1>5. ASSUME NEW id \in Stored, finalize_round(id)
      PROVE  RoundInv' /\ FrozenStep
  BY <1>5, SettleStep, 0 \in Nat DEF finalize_round
<1>6. ASSUME NEW id \in Stored, NEW yield \in Outcomes, NEW prize \in Outcomes,
             settle_round(id, yield, prize)
      PROVE  RoundInv' /\ FrozenStep
  BY <1>6, SettleStep, RoundsAssumption DEF settle_round
<1>7. ASSUME NEW id \in Stored, NEW who \in Accounts, round_claim(who, id)
      PROVE  RoundInv' /\ FrozenStep
  BY <1>7, ClaimStep
<1>8. ASSUME NEW id \in Stored, NEW who \in Accounts, NEW amount \in Amounts,
             round_deposit(who, id, amount)
      PROVE  RoundInv' /\ FrozenStep
  BY <1>8, DepositStep
<1>9. ASSUME NEW id \in Stored, NEW participants \in PruneLists,
             prune_round(id, participants)
      PROVE  RoundInv' /\ FrozenStep
  BY <1>9, PruneStep
<1> QED BY <1>1, <1>2, <1>3, <1>4, <1>5, <1>6, <1>7, <1>8, <1>9 DEF RoundsNext

-----------------------------------------------------------------------------
\* The invariant of all the proofs above holds of every behaviour.
THEOREM RoundInvariant == RoundsSpec => []RoundInv
<1>1. RoundInv /\ [RoundsNext]_roundVars => RoundInv'
  BY NextInv
<1> QED BY InitInv, <1>1, PTL DEF RoundsSpec

\* Every variable of the rounds keeps its type, for any sets of participants
\* and amounts.
THEOREM RoundTypes == RoundsSpec => []RoundsTypeOK
<1>1. RoundInv => RoundsTypeOK
  BY DEF RoundInv
<1> QED BY RoundInvariant, <1>1, PTL

\* round_claim, settle_round and finalize_round: what a round has paid never
\* exceeds its settled total, and an unsettled round has none.
THEOREM RoundsPayWithinTotal == RoundsSpec => []NoOverDistribution
<1>1. RoundInv => NoOverDistribution
  BY DEF RoundInv
<1> QED BY RoundInvariant, <1>1, PTL

\* lock_round's snapshot and the settled outcome are final, statuses only
\* move forward and pruned ids never come back.
THEOREM RoundsAreFrozen == RoundsSpec => RoundsFrozen
<1>1. RoundInv /\ [RoundsNext]_roundVars => [FrozenStep]_roundVars
  BY NextInv
<1> QED BY RoundInvariant, <1>1, PTL DEF RoundsSpec, RoundsFrozen

-----------------------------------------------------------------------------
\* No deposit is recorded under an id that was not opened yet, so a new round
\* starts from a sum of 0.
Untouched == \A who \in Accounts, id \in Ids : id >= nonce => deposits[who][id] = 0

\* The sums are exact while a round collects, and what they are shared out
\* by at settlement; the claims that follow only move a share from what is
\* due to what is claimed.
SumsInv == RoundInv /\ SnapshotIsSum /\ EveryShareCovered /\ Untouched

\* What SumsInv says of one round and the deposits in it.
Books(r, held) ==
    /\ r.status # "Settled" => r.principal_snapshot = SumFunction(held)
    /\ r.status = "Settled" => r.claimed + SumFunction(Dues(r, held)) <= Total(r)

\* The deposits in a round are naturals.
LEMMA HeldType ==
    ASSUME RoundInv, NEW id \in Ids
    PROVE  Held(id) \in [Accounts -> Nat] /\ \A who \in Accounts : Held(id)[who] = deposits[who][id]
<1>1. deposits \in [Accounts -> [Ids -> Nat]]
  BY DEF RoundInv, RoundsTypeOK
<1>2. QED
  BY <1>1 DEF Held

\* SumsInv, round by round.
LEMMA SumsByRound ==
    ASSUME RoundInv
    PROVE  (SnapshotIsSum /\ EveryShareCovered) <=> \A id \in Stored : Books(rounds[id], Held(id))
BY DEF SnapshotIsSum, EveryShareCovered, Books

\* A step that leaves the other rounds and what is held in them alone has to
\* keep the books of one.
LEMMA OtherBooksStay ==
    ASSUME SumsInv, NEW id \in Stored, NEW r,
           rounds' = [rounds EXCEPT ![id] = r],
           \A j \in Stored \ {id} : Held(j)' = Held(j),
           Books(r, Held(id)')
    PROVE  (SnapshotIsSum /\ EveryShareCovered)'
<1>1. rounds \in [Stored -> Round] /\ Stored' = Stored
  BY DEF SumsInv, RoundInv, RoundsTypeOK, Stored
<1>2. \A j \in Stored : Books(rounds[j], Held(j))
  BY SumsByRound DEF SumsInv
<1>3. ASSUME NEW j \in Stored PROVE Books(rounds'[j], Held(j)')
  <2>1. CASE j = id
    <3>1. rounds'[j] = r
      BY <1>1, <2>1
    <3>2. QED
      BY <2>1, <3>1
  <2>2. CASE j # id
    <3>1. rounds'[j] = rounds[j] /\ Held(j)' = Held(j)
      BY <1>1, <2>2
    <3>2. QED
      BY <1>2, <3>1
  <2>3. QED
    BY <2>1, <2>2
<1>4. QED
  BY <1>1, <1>3 DEF SnapshotIsSum, EveryShareCovered, Books, Dues, Due, Share, Total


\* Writing one participant's entry changes what is held in that round, and
\* there by that entry only.
LEMMA HeldAfterWrite ==
    ASSUME RoundInv, NEW who \in Accounts, NEW id \in Stored, NEW n \in Nat,
           deposits' = [deposits EXCEPT ![who][id] = n]
    PROVE  /\ \A j \in Stored \ {id} : Held(j)' = Held(j)
           /\ Held(id)' \in [Accounts -> Nat] /\ Held(id)'[who] = n
           /\ \A x \in Accounts \ {who} : Held(id)'[x] = Held(id)[x]
<1>1. deposits \in [Accounts -> [Ids -> Nat]] /\ Stored \subseteq Ids
  BY StoredRound DEF RoundInv, RoundsTypeOK
<1>2. \A x \in Accounts, j \in Ids :
         deposits'[x][j] = IF x = who /\ j = id THEN n ELSE deposits[x][j]
  BY <1>1
<1>3. ASSUME NEW j \in Stored \ {id} PROVE Held(j)' = Held(j)
  <2>1. \A x \in Accounts : deposits'[x][j] = deposits[x][j]
    BY <1>1, <1>2
  <2>2. QED
    BY <2>1 DEF Held
<1>4. \A x \in Accounts : Held(id)'[x] = IF x = who THEN n ELSE deposits[x][id]
  BY <1>1, <1>2 DEF Held
<1>5. Held(id)' \in [Accounts -> Nat]
  BY <1>1, <1>4 DEF Held
<1>6. QED
  BY <1>3, <1>4, <1>5 DEF Held

\* round_deposit raises the snapshot by what it adds to one deposit.
LEMMA DepositAdds ==
    ASSUME SumsInv, NEW who \in Accounts, NEW id \in Stored, NEW amount \in Amounts,
           round_deposit(who, id, amount)
    PROVE  SnapshotIsSum' /\ EveryShareCovered' /\ Untouched'
<1> DEFINE r == rounds[id]
           s == [r EXCEPT !.principal_snapshot = @ + amount]
<1>1. RoundInv /\ r \in Round /\ id \in Ids /\ amount \in Nat
  BY StoredRound, RoundsAssumption DEF SumsInv
<1>2. r.status = "Open" /\ rounds' = [rounds EXCEPT ![id] = s] /\ nonce' = nonce
  BY DEF round_deposit, Update
<1>3. PICK d \in Nat : d = deposits[who][id]
  BY <1>1 DEF RoundInv, RoundsTypeOK
<1>4. PICK n \in Nat : n = d + amount
  BY <1>1
<1>5. deposits' = [deposits EXCEPT ![who][id] = n]
  BY <1>3, <1>4 DEF round_deposit, Added
<1>6. PICK f \in [Accounts -> Nat], g \in [Accounts -> Nat] : f = Held(id) /\ g = Held(id)'
  BY <1>1, <1>5, HeldType, HeldAfterWrite
<1>7. f[who] = d /\ g[who] = n /\ \A x \in Accounts \ {who} : g[x] = f[x]
  <2>1. Held(id)[who] = deposits[who][id]
    BY <1>1, HeldType
  <2>2. Held(id)'[who] = n /\ \A x \in Accounts \ {who} : Held(id)'[x] = Held(id)[x]
    BY <1>1, <1>5, HeldAfterWrite
  <2>3. QED
    BY <1>3, <1>6, <2>1, <2>2
<1>8. SumFunction(f) \in Int /\ SumFunction(g) = SumFunction(f) - d + n
  <2>1. f \in [Accounts -> Int] /\ g \in [Accounts -> Int] /\ IsFiniteSet(Accounts)
    BY RoundsAssumption
  <2>2. QED
    BY <1>7, <2>1, SumUpdate
<1>9. r.principal_snapshot = SumFunction(f)
  BY <1>2, <1>6 DEF SumsInv, SnapshotIsSum
<1>10. s.status = "Open" /\ s.principal_snapshot = r.principal_snapshot + amount
  BY <1>1, <1>2 DEF Round
<1>11. Books(s, g)
  BY <1>1, <1>4, <1>8, <1>9, <1>10 DEF Books
<1>12. SnapshotIsSum' /\ EveryShareCovered'
  <2>1. \A j \in Stored \ {id} : Held(j)' = Held(j)
    BY <1>1, <1>5, HeldAfterWrite
  <2>2. QED
    BY <1>2, <1>6, <1>11, <2>1, OtherBooksStay
<1>13. Untouched'
  <2>1. id < nonce /\ nonce \in Nat
    BY <1>1, RoundsAssumption DEF RoundInv, RoundsTypeOK
  <2>2. deposits \in [Accounts -> [Ids -> Nat]]
    BY <1>1 DEF RoundInv, RoundsTypeOK
  <2>3. \A x \in Accounts, j \in Ids : j >= nonce => deposits'[x][j] = deposits[x][j]
    BY <1>1, <1>5, <2>1, <2>2 DEF Ids
  <2>4. QED
    BY <1>2, <2>3 DEF SumsInv, Untouched
<1>14. QED
  BY <1>12, <1>13

\* Each share rounds down, so the shares of all deposits fit in the total.
LEMMA SharesFitTotal ==
    ASSUME NEW r \in Round, NEW held \in [Accounts -> Nat],
           r.principal_snapshot = SumFunction(held)
    PROVE  /\ Dues(r, held) \in [Accounts -> Nat]
           /\ SumFunction(Dues(r, held)) \in Nat
           /\ SumFunction(Dues(r, held)) <= Total(r)
<1>1. PICK s \in Nat, t \in Nat : s = r.principal_snapshot /\ t = Total(r)
  BY DEF Round, Total
<1>2. \A who \in Accounts : held[who] <= s
  BY <1>1, SumBounds, RoundsAssumption
<1>3. ASSUME NEW d \in Nat, d <= s PROVE Due(r, d) \in Nat /\ s * Due(r, d) <= t * d
  <2>1. CASE d = 0
    BY <2>1 DEF Due
  <2>2. CASE d # 0
    <3>1. s > 0
      BY <1>3, <2>2
    <3>2. PICK m \in Nat : m = t * d
      OBVIOUS
    <3>3. Due(r, d) = m \div s
      BY <1>1, <2>2, <3>2 DEF Due, Share
    <3>4. m \div s \in Nat /\ s * (m \div s) <= m
      BY ONLY <3>1, s \in Nat, m \in Nat
    <3>5. QED
      BY <3>2, <3>3, <3>4
  <2>3. QED
    BY <2>1, <2>2
<1>4. PICK g : g = Dues(r, held)
  OBVIOUS
<1>5. g \in [Accounts -> Nat] /\ \A who \in Accounts : s * g[who] <= t * held[who]
  <2>1. \A who \in Accounts : g[who] = Due(r, held[who])
    BY <1>4 DEF Dues
  <2>2. \A who \in Accounts : g[who] \in Nat /\ s * g[who] <= t * held[who]
    BY <1>2, <1>3, <2>1
  <2>3. QED
    BY <1>4, <2>2 DEF Dues
<1>6. PICK sum \in Nat : sum = SumFunction(g)
  BY <1>5, SumNatural, RoundsAssumption
<1>7. s * sum <= t * s
  BY <1>1, <1>5, <1>6, SumProportion, RoundsAssumption
<1>8. sum <= t
  <2>1. CASE s = 0
    <3>1. \A who \in Accounts : held[who] = 0
      BY <1>2, <2>1
    <3>2. \A who \in Accounts : g[who] = 0
      BY <1>4, <3>1 DEF Dues, Due
    <3>3. sum = 0
      BY <1>5, <1>6, <3>2, SumNatural, RoundsAssumption
    <3>4. QED
      BY <3>3
  <2>2. CASE s # 0
    <3>1. s > 0 /\ s * sum <= s * t
      BY <1>7, <2>2
    <3>2. \A x \in Nat, y \in Nat, z \in Nat : x > 0 /\ x * y <= x * z => y <= z
      OBVIOUS
    <3>3. QED
      BY <3>1, <3>2
  <2>3. QED
    BY <2>1, <2>2
<1>9. QED
  BY <1>1, <1>4, <1>5, <1>6, <1>8

\* settle_round and finalize_round turn an exact snapshot into shares that fit.
LEMMA SettleShares ==
    ASSUME SumsInv, NEW id \in Stored, NEW yield \in Nat, NEW prize \in Nat,
           Update(id, "Locked", [rounds[id] EXCEPT !.status = "Settled",
                                   !.realized_yield = yield, !.prize_reserve = prize]),
           UNCHANGED deposits
    PROVE  SnapshotIsSum' /\ EveryShareCovered' /\ Untouched'
<1> DEFINE r == rounds[id]
           s == [r EXCEPT !.status = "Settled",
                          !.realized_yield = yield, !.prize_reserve = prize]
<1>1. RoundInv /\ r \in Round /\ Sound(r) /\ id \in Ids
  BY StoredRound DEF SumsInv
<1>2. r.status = "Locked" /\ rounds' = [rounds EXCEPT ![id] = s] /\ nonce' = nonce
  BY DEF Update
<1>3. s \in Round
  BY <1>1 DEF Round, Status
<1>4. s.status = "Settled" /\ s.claimed = r.claimed /\ s.principal_snapshot = r.principal_snapshot
  BY <1>1 DEF Round
<1>5. r.claimed = 0
  BY <1>1, <1>2 DEF Sound, Round
<1>6. s.principal_snapshot = SumFunction(Held(id))
  BY <1>2, <1>4 DEF SumsInv, SnapshotIsSum
<1>7. PICK due \in Nat : due = SumFunction(Dues(s, Held(id))) /\ due <= Total(s)
  <2>1. Held(id) \in [Accounts -> Nat]
    BY <1>1, HeldType
  <2>2. QED
    BY <1>3, <1>6, <2>1, SharesFitTotal
<1>8. \A j \in Stored : Held(j)' = Held(j)
  BY DEF Held
<1>9. Books(s, Held(id)')
  <2>1. Held(id)' = Held(id)
    BY <1>8
  <2>2. s.claimed + due <= Total(s)
    BY <1>4, <1>5, <1>7
  <2>3. QED
    BY <1>4, <1>7, <2>1, <2>2 DEF Books
<1>10. SnapshotIsSum' /\ EveryShareCovered'
  BY <1>2, <1>8, <1>9, OtherBooksStay
<1>11. Untouched'
  BY <1>2 DEF SumsInv, Untouched
<1>12. QED
  BY <1>10, <1>11

\* lock_round changes neither the snapshot nor what is held.
LEMMA LockBooks ==
    ASSUME SumsInv, NEW id \in Stored, lock_round(id)
    PROVE  SnapshotIsSum' /\ EveryShareCovered' /\ Untouched'
<1> DEFINE r == rounds[id]
           s == [r EXCEPT !.status = "Locked", !.locked_at = ledgerTime]
<1>1. r \in Round
  BY StoredRound DEF SumsInv
<1>2. r.status = "Open" /\ rounds' = [rounds EXCEPT ![id] = s] /\ nonce' = nonce /\ deposits' = deposits
  BY DEF lock_round, Update
<1>3. s.status = "Locked" /\ s.principal_snapshot = r.principal_snapshot
  BY <1>1 DEF Round
<1>4. \A j \in Stored : Held(j)' = Held(j)
  BY <1>2 DEF Held
<1>5. r.principal_snapshot = SumFunction(Held(id))
  BY <1>2 DEF SumsInv, SnapshotIsSum
<1>6. Books(s, Held(id)')
  <2>1. Held(id)' = Held(id)
    BY <1>4
  <2>2. QED
    BY <1>3, <1>5, <2>1 DEF Books
<1>7. SnapshotIsSum' /\ EveryShareCovered'
  BY <1>2, <1>4, <1>6, OtherBooksStay
<1>8. Untouched'
  BY <1>2 DEF SumsInv, Untouched
<1>9. QED
  BY <1>7, <1>8

\* In a settled round what is due is typed as long as someone's deposit can be
\* divided by the snapshot.
LEMMA DueType ==
    ASSUME NEW r \in Round, NEW d \in Nat, d > 0 => r.principal_snapshot > 0
    PROVE  Due(r, d) \in Nat
<1>1. CASE d = 0
  BY <1>1 DEF Due
<1>2. CASE d # 0
  BY <1>2, ShareType DEF Due
<1>3. QED
  BY <1>1, <1>2

\* round_claim moves a share from what is due to what is claimed.
LEMMA ClaimMoves ==
    ASSUME SumsInv, NEW who \in Accounts, NEW id \in Stored, round_claim(who, id)
    PROVE  SnapshotIsSum' /\ EveryShareCovered' /\ Untouched'
<1> DEFINE r == rounds[id]
           d == deposits[who][id]
           s == [r EXCEPT !.claimed = @ + Share(r, d)]
<1>1. RoundInv /\ r \in Round /\ id \in Ids
  BY StoredRound DEF SumsInv
<1>2. /\ r.status = "Settled" /\ rounds' = [rounds EXCEPT ![id] = s] /\ nonce' = nonce
      /\ r.principal_snapshot > 0 /\ d > 0
      /\ deposits' = [deposits EXCEPT ![who][id] = 0]
  BY DEF round_claim, Update, Spent
<1>3. d \in Nat
  BY <1>1 DEF RoundInv, RoundsTypeOK
<1>4. PICK share \in Nat : share = Share(r, d)
  BY <1>1, <1>2, <1>3, ShareType
<1>5. /\ s.status = "Settled" /\ s.claimed = r.claimed + share
      /\ s.principal_snapshot = r.principal_snapshot /\ Total(s) = Total(r)
  BY <1>1, <1>2, <1>4 DEF Round, Total
<1>6. PICK f \in [Accounts -> Nat], g \in [Accounts -> Nat] : f = Held(id) /\ g = Held(id)'
  BY <1>1, <1>2, HeldType, HeldAfterWrite
<1>7. f[who] = d /\ g[who] = 0 /\ \A x \in Accounts \ {who} : g[x] = f[x]
  <2>1. Held(id)[who] = d
    BY <1>1, HeldType
  <2>2. Held(id)'[who] = 0 /\ \A x \in Accounts \ {who} : Held(id)'[x] = Held(id)[x]
    BY <1>1, <1>2, HeldAfterWrite
  <2>3. QED
    BY <1>6, <2>1, <2>2
<1>8. ASSUME NEW n \in Nat PROVE Due(s, n) = Due(r, n) /\ Due(r, n) \in Nat
  <2>1. Due(s, n) = Due(r, n)
    BY <1>5 DEF Due, Share
  <2>2. Due(r, n) \in Nat
    BY <1>1, <1>2, DueType
  <2>3. QED
    BY <2>1, <2>2
<1>9. PICK before, after : before = Dues(r, f) /\ after = Dues(s, g)
  OBVIOUS
<1>10. /\ before \in [Accounts -> Nat] /\ after \in [Accounts -> Nat]
       /\ before[who] = share /\ after[who] = 0
       /\ \A x \in Accounts \ {who} : after[x] = before[x]
  <2>1. \A x \in Accounts : before[x] = Due(r, f[x]) /\ after[x] = Due(s, g[x])
    BY <1>9 DEF Dues
  <2>2. \A x \in Accounts : f[x] \in Nat /\ g[x] \in Nat
    OBVIOUS
  <2>3. \A x \in Accounts : before[x] \in Nat /\ after[x] \in Nat
    BY <1>8, <2>1, <2>2
  <2>4. before \in [Accounts -> Nat] /\ after \in [Accounts -> Nat]
    BY <1>9, <2>3 DEF Dues
  <2>5. before[who] = share /\ after[who] = 0
    BY <1>2, <1>4, <1>7, <2>1 DEF Due
  <2>6. ASSUME NEW x \in Accounts \ {who} PROVE after[x] = before[x]
    <3>1. g[x] = f[x] /\ f[x] \in Nat
      BY <1>7, <2>2
    <3>2. QED
      BY <1>8, <2>1, <3>1
  <2>7. QED
    BY <2>4, <2>5, <2>6
<1>11. SumFunction(before) \in Int /\ SumFunction(after) = SumFunction(before) - share
  <2>1. before \in [Accounts -> Int] /\ after \in [Accounts -> Int] /\ IsFiniteSet(Accounts)
    BY <1>10, RoundsAssumption
  <2>2. SumFunction(before) \in Int /\ SumFunction(after) = SumFunction(before) - before[who] + after[who]
    BY <1>10, <2>1, SumUpdate
  <2>3. QED
    BY <1>10, <2>2
<1>12. r.claimed + SumFunction(before) <= Total(r)
  BY <1>2, <1>6, <1>9 DEF SumsInv, EveryShareCovered
<1>13. Books(s, g)
  <2>1. s.claimed + SumFunction(after) = r.claimed + SumFunction(before)
    BY <1>1, <1>5, <1>11 DEF Round
  <2>2. QED
    BY <1>5, <1>9, <1>12, <2>1 DEF Books
<1>14. SnapshotIsSum' /\ EveryShareCovered'
  <2>1. \A j \in Stored \ {id} : Held(j)' = Held(j)
    BY <1>1, <1>2, HeldAfterWrite
  <2>2. QED
    BY <1>2, <1>6, <1>13, <2>1, OtherBooksStay
<1>15. Untouched'
  <2>1. deposits \in [Accounts -> [Ids -> Nat]]
    BY <1>1 DEF RoundInv, RoundsTypeOK
  <2>2. \A x \in Accounts, j \in Ids : deposits[x][j] = 0 => deposits'[x][j] = 0
    BY <1>1, <1>2, <2>1
  <2>3. QED
    BY <1>2, <2>2 DEF SumsInv, Untouched
<1>16. QED
  BY <1>14, <1>15

\* open_round: nothing is held yet under the id it takes.
LEMMA OpenBooks ==
    ASSUME SumsInv, open_round
    PROVE  SnapshotIsSum' /\ EveryShareCovered' /\ Untouched'
<1> DEFINE fresh == [status |-> "Open", locked_at |-> 0, principal_snapshot |-> 0,
                     realized_yield |-> 0, prize_reserve |-> 0, claimed |-> 0]
<1>1. RoundInv /\ nonce \in Ids /\ nonce \notin Stored /\ nonce \in Nat
  BY RoundsAssumption DEF SumsInv, RoundInv, RoundsTypeOK, open_round, Ids
<1>2. /\ Stored' = Stored \cup {nonce} /\ nonce' = nonce + 1 /\ deposits' = deposits
      /\ \A i \in Stored' : rounds'[i] = IF i = nonce THEN fresh ELSE rounds[i]
  BY DEF open_round, NextNonce, Stored
<1>3. \A j \in Ids : Held(j)' = Held(j)
  BY <1>2 DEF Held
<1>4. SumFunction(Held(nonce)) = 0
  <2>1. PICK f \in [Accounts -> Nat] : f = Held(nonce) /\ \A who \in Accounts : f[who] = deposits[who][nonce]
    BY <1>1, HeldType
  <2>2. \A who \in Accounts : f[who] = 0
    BY <1>1, <2>1 DEF SumsInv, Untouched
  <2>3. QED
    BY <2>1, <2>2, SumNatural, RoundsAssumption
<1>5. Books(fresh, Held(nonce))
  BY <1>4 DEF Books
<1>6. ASSUME NEW j \in Stored' PROVE Books(rounds'[j], Held(j)')
  <2>1. CASE j = nonce
    <3>1. rounds'[j] = fresh /\ Held(j)' = Held(nonce)
      BY <1>1, <1>2, <1>3, <2>1
    <3>2. QED
      BY <1>5, <3>1
  <2>2. CASE j # nonce
    <3>1. j \in Stored /\ j \in Ids
      BY <1>1, <1>2, <2>2, StoredRound
    <3>2. rounds'[j] = rounds[j] /\ Held(j)' = Held(j)
      BY <1>2, <1>3, <2>2, <3>1
    <3>3. Books(rounds[j], Held(j))
      BY <1>1, <3>1, SumsByRound DEF SumsInv
    <3>4. QED
      BY <3>2, <3>3
  <2>3. QED
    BY <2>1, <2>2
<1>7. SnapshotIsSum' /\ EveryShareCovered'
  BY <1>6 DEF SnapshotIsSum, EveryShareCovered, Books, Dues, Due, Share, Total
<1>8. Untouched'
  BY <1>1, <1>2 DEF SumsInv, Untouched, Ids
<1>9. QED
  BY <1>7, <1>8

\* prune_round takes a round away and leaves the others alone.
LEMMA PruneBooks ==
    ASSUME SumsInv, NEW id \in Stored, NEW participants, prune_round(id, participants)
    PROVE  SnapshotIsSum' /\ EveryShareCovered' /\ Untouched'
<1>1. /\ Stored' = Stored \ {id} /\ deposits' = deposits /\ nonce' = nonce
      /\ \A j \in Stored' : rounds'[j] = rounds[j]
  BY DEF prune_round, Stored
<1>2. \A j \in Stored' : Held(j)' = Held(j)
  BY <1>1 DEF Held
<1>3. \A j \in Stored' : Books(rounds'[j], Held(j)')
  <2>1. \A j \in Stored : Books(rounds[j], Held(j))
    BY SumsByRound DEF SumsInv
  <2>2. QED
    BY <1>1, <1>2, <2>1
<1>4. SnapshotIsSum' /\ EveryShareCovered'
  BY <1>3 DEF SnapshotIsSum, EveryShareCovered, Books, Dues, Due, Share, Total
<1>5. Untouched'
  BY <1>1 DEF SumsInv, Untouched
<1>6. QED
  BY <1>4, <1>5

\* Every step keeps the sums.
LEMMA SumsStep ==
    ASSUME SumsInv, [RoundsNext]_roundVars
    PROVE  SumsInv'
<1>1. RoundInv'
  BY NextInv DEF SumsInv
<1> SUFFICES SnapshotIsSum' /\ EveryShareCovered' /\ Untouched'
  BY <1>1 DEF SumsInv
<1>2. ASSUME UNCHANGED <<rounds, deposits, nonce>>
      PROVE  SnapshotIsSum' /\ EveryShareCovered' /\ Untouched'
  BY <1>2 DEF SumsInv, SnapshotIsSum, EveryShareCovered, Untouched, Stored, Held, Dues, Due, Share, Total
<1>3. CASE UNCHANGED roundVars
  BY <1>2, <1>3 DEF roundVars
<1>4. CASE open_round
  BY <1>4, OpenBooks
<1>5. CASE AdvanceLedger
  BY <1>2, <1>5 DEF AdvanceLedger
<1>6. ASSUME NEW id \in Stored, lock_round(id)
      PROVE  SnapshotIsSum' /\ EveryShareCovered' /\ Untouched'
  BY <1>6, LockBooks
<1>7. ASSUME NEW id \in Stored, finalize_round(id)
      PROVE  SnapshotIsSum' /\ EveryShareCovered' /\ Untouched'
  BY <1>7, SettleShares, 0 \in Nat DEF finalize_round
<1>8. ASSUME NEW id \in Stored, NEW yield \in Outcomes, NEW prize \in Outcomes,
             settle_round(id, yield, prize)
      PROVE  SnapshotIsSum' /\ EveryShareCovered' /\ Untouched'
  BY <1>8, SettleShares, RoundsAssumption DEF settle_round
<1>9. ASSUME NEW id \in Stored, NEW who \in Accounts, round_claim(who, id)
      PROVE  SnapshotIsSum' /\ EveryShareCovered' /\ Untouched'
  BY <1>9, ClaimMoves
<1>10. ASSUME NEW id \in Stored, NEW who \in Accounts, NEW amount \in Amounts,
              round_deposit(who, id, amount)
       PROVE  SnapshotIsSum' /\ EveryShareCovered' /\ Untouched'
  BY <1>10, DepositAdds
<1>11. ASSUME NEW id \in Stored, NEW participants \in PruneLists,
              prune_round(id, participants)
       PROVE  SnapshotIsSum' /\ EveryShareCovered' /\ Untouched'
  BY <1>11, PruneBooks
<1>12. QED
  BY <1>3, <1>4, <1>5, <1>6, <1>7, <1>8, <1>9, <1>10, <1>11 DEF RoundsNext

\* Nothing is stored or held at first.
LEMMA SumsStart == RoundsInit => SumsInv
<1>1. RoundsInit => RoundInv
  BY InitInv
<1>2. RoundsInit => SnapshotIsSum /\ EveryShareCovered /\ Untouched
  BY DEF RoundsInit, SnapshotIsSum, EveryShareCovered, Untouched, Stored
<1>3. QED
  BY <1>1, <1>2 DEF SumsInv

\* A step takes a round whose deposits are not all claimed away only if the
\* list passed to prune_round leaves a depositor out.
LEMMA OutstandingStep ==
    ASSUME RoundInv, OutstandingKept, [RoundsNext]_roundVars, \A list \in PruneLists : list = Accounts
    PROVE  OutstandingKept'
<1>1. deposits \in [Accounts -> [Ids -> Nat]] /\ Stored \subseteq Ids
  BY StoredRound DEF RoundInv, RoundsTypeOK
<1>2. ASSUME Stored \subseteq Stored',
             \A who \in Accounts, id \in Ids : id \notin Stored => deposits'[who][id] = deposits[who][id]
      PROVE  OutstandingKept'
  BY <1>2 DEF OutstandingKept
<1>3. ASSUME NEW id \in Stored, NEW who \in Accounts, NEW n,
             deposits' = [deposits EXCEPT ![who][id] = n]
      PROVE  \A x \in Accounts, j \in Ids : j \notin Stored => deposits'[x][j] = deposits[x][j]
  BY <1>1, <1>3
<1>4. ASSUME NEW id \in Stored, NEW status, NEW r, Update(id, status, r) PROVE Stored' = Stored
  BY <1>4 DEF Update, Stored
<1>5. CASE UNCHANGED roundVars
  BY <1>2, <1>5 DEF roundVars, Stored
<1>6. CASE open_round
  BY <1>2, <1>6 DEF open_round, Stored
<1>7. CASE AdvanceLedger
  BY <1>2, <1>7 DEF AdvanceLedger, Stored
<1>8. ASSUME NEW id \in Stored, lock_round(id) PROVE OutstandingKept'
  BY <1>2, <1>4, <1>8 DEF lock_round
<1>9. ASSUME NEW id \in Stored, finalize_round(id) PROVE OutstandingKept'
  BY <1>2, <1>4, <1>9 DEF finalize_round
<1>10. ASSUME NEW id \in Stored, NEW yield \in Outcomes, NEW prize \in Outcomes,
              settle_round(id, yield, prize)
       PROVE  OutstandingKept'
  BY <1>2, <1>4, <1>10 DEF settle_round
<1>11. ASSUME NEW id \in Stored, NEW who \in Accounts, round_claim(who, id) PROVE OutstandingKept'
  <2>1. Stored' = Stored
    BY <1>4, <1>11 DEF round_claim
  <2>2. deposits' = [deposits EXCEPT ![who][id] = 0]
    BY <1>11 DEF round_claim, Spent
  <2>3. QED
    BY <1>2, <1>3, <2>1, <2>2
<1>12. ASSUME NEW id \in Stored, NEW who \in Accounts, NEW amount \in Amounts,
              round_deposit(who, id, amount)
       PROVE  OutstandingKept'
  <2>1. Stored' = Stored
    BY <1>4, <1>12 DEF round_deposit
  <2>2. deposits' = [deposits EXCEPT ![who][id] = deposits[who][id] + amount]
    BY <1>12 DEF round_deposit, Added
  <2>3. QED
    BY <1>2, <1>3, <2>1, <2>2
<1>13. ASSUME NEW id \in Stored, NEW participants \in PruneLists, prune_round(id, participants)
       PROVE  OutstandingKept'
  <2>1. participants = Accounts /\ deposits' = deposits /\ Stored' = Stored \ {id}
    BY <1>13 DEF prune_round, Stored
  <2>2. \A who \in Accounts : deposits[who][id] = 0
    BY <1>13, <2>1 DEF prune_round, NoneOutstanding
  <2>3. QED
    BY <2>1, <2>2 DEF OutstandingKept
<1>14. QED
  BY <1>5, <1>6, <1>7, <1>8, <1>9, <1>10, <1>11, <1>12, <1>13 DEF RoundsNext

\* Snapshots are the sums of the deposits and the shares not yet claimed fit in
\* what is left, for any participants, amounts and outcomes and whatever lists
\* signers prune with.
THEOREM RoundsAddUp == RoundsSpec => [](SnapshotIsSum /\ EveryShareCovered)
<1>1. SumsInv /\ [RoundsNext]_roundVars => SumsInv'
  BY SumsStep
<1>2. SumsInv => SnapshotIsSum /\ EveryShareCovered
  BY DEF SumsInv
<1>3. QED
  BY <1>1, <1>2, SumsStart, PTL DEF RoundsSpec

\* All of RoundsConsistent where signers prune with the full list of
\* participants; prune_round checks the deposits of those it is given only.
THEOREM RoundsStayConsistent ==
    ASSUME \A list \in PruneLists : list = Accounts
    PROVE  RoundsSpec => []RoundsConsistent
<1>1. SumsInv /\ OutstandingKept /\ [RoundsNext]_roundVars => (SumsInv /\ OutstandingKept)'
  <2> SUFFICES ASSUME SumsInv, OutstandingKept, [RoundsNext]_roundVars PROVE SumsInv' /\ OutstandingKept'
    OBVIOUS
  <2>1. SumsInv'
    BY SumsStep
  <2>2. OutstandingKept'
    BY OutstandingStep DEF SumsInv
  <2>3. QED
    BY <2>1, <2>2
<1>2. RoundsInit => OutstandingKept
  BY DEF RoundsInit, OutstandingKept
<1>3. SumsInv /\ OutstandingKept => RoundsConsistent
  BY DEF SumsInv, RoundInv, RoundsConsistent
<1>4. QED
  BY <1>1, <1>2, <1>3, SumsStart, PTL DEF RoundsSpec

-----------------------------------------------------------------------------
\* A deposit is part of its round's snapshot, also after settlement, so that
\* round_claim never divides a deposit by 0.
Divisible ==
    \A id \in Stored, who \in Accounts : deposits[who][id] <= rounds[id].principal_snapshot

\* The check of round_claim that returns RoundAccountingViolation passes.
ClaimsFit ==
    \A id \in Stored, who \in Accounts :
        rounds[id].status = "Settled" /\ deposits[who][id] > 0 =>
            /\ rounds[id].principal_snapshot > 0
            /\ rounds[id].claimed + Share(rounds[id], deposits[who][id]) <= Total(rounds[id])

\* Deposits and snapshot grow together, and claims only lower a deposit.
LEMMA DivisibleStep ==
    ASSUME SumsInv, Divisible, [RoundsNext]_roundVars
    PROVE  Divisible'
<1>1. RoundInv /\ deposits \in [Accounts -> [Ids -> Nat]] /\ Stored \subseteq Ids
  BY StoredRound DEF SumsInv, RoundInv, RoundsTypeOK
<1>2. rounds \in [Stored -> Round]
  BY DEF SumsInv, RoundInv, RoundsTypeOK
<1>3. ASSUME Stored' \subseteq Stored, deposits' = deposits,
             \A j \in Stored' : rounds'[j].principal_snapshot = rounds[j].principal_snapshot
      PROVE  Divisible'
  BY <1>3 DEF Divisible
<1>4. ASSUME NEW id \in Stored, NEW status, NEW r \in Round, Update(id, status, r), deposits' = deposits,
             r.principal_snapshot = rounds[id].principal_snapshot
      PROVE  Divisible'
  <2>1. Stored' = Stored
    BY <1>4 DEF Update, Stored
  <2>2. \A j \in Stored : rounds'[j] = IF j = id THEN r ELSE rounds[j]
    BY <1>2, <1>4 DEF Update
  <2>3. QED
    BY <1>3, <1>4, <2>1, <2>2
<1>5. CASE UNCHANGED roundVars
  BY <1>3, <1>5 DEF roundVars, Stored
<1>6. CASE open_round
  <2>1. nonce \in Ids /\ nonce \notin Stored /\ nonce \in Nat
    BY <1>6, RoundsAssumption DEF SumsInv, RoundInv, RoundsTypeOK, open_round, Ids
  <2>2. /\ Stored' = Stored \cup {nonce} /\ deposits' = deposits
        /\ rounds'[nonce].principal_snapshot = 0
        /\ \A j \in Stored : rounds'[j] = rounds[j]
    BY <1>6, <2>1 DEF open_round, Stored
  <2>3. \A who \in Accounts : deposits[who][nonce] = 0
    BY <2>1 DEF SumsInv, Untouched
  <2>4. QED
    BY <2>2, <2>3 DEF Divisible
<1>7. CASE AdvanceLedger
  BY <1>3, <1>7 DEF AdvanceLedger, Stored
<1>8. ASSUME NEW id \in Stored, lock_round(id) PROVE Divisible'
  <2> DEFINE s == [rounds[id] EXCEPT !.status = "Locked", !.locked_at = ledgerTime]
  <2>1. s \in Round /\ s.principal_snapshot = rounds[id].principal_snapshot
    BY <1>2 DEF Round, Status, SumsInv, RoundInv, RoundsTypeOK
  <2>2. Update(id, "Open", s) /\ deposits' = deposits
    BY <1>8 DEF lock_round
  <2>3. QED
    BY <1>4, <2>1, <2>2
<1>9. ASSUME NEW id \in Stored, NEW yield \in Nat, NEW prize \in Nat,
             Update(id, "Locked", [rounds[id] EXCEPT !.status = "Settled",
                                     !.realized_yield = yield, !.prize_reserve = prize]),
             UNCHANGED deposits
      PROVE  Divisible'
  <2> DEFINE s == [rounds[id] EXCEPT !.status = "Settled",
                                     !.realized_yield = yield, !.prize_reserve = prize]
  <2>1. s \in Round /\ s.principal_snapshot = rounds[id].principal_snapshot
    BY <1>2 DEF Round, Status
  <2>2. QED
    BY <1>4, <1>9, <2>1
<1>10. ASSUME NEW id \in Stored, finalize_round(id) PROVE Divisible'
  BY <1>9, <1>10, 0 \in Nat DEF finalize_round
<1>11. ASSUME NEW id \in Stored, NEW yield \in Outcomes, NEW prize \in Outcomes,
              settle_round(id, yield, prize)
       PROVE  Divisible'
  BY <1>9, <1>11, RoundsAssumption DEF settle_round
<1>12. ASSUME NEW id \in Stored, NEW who \in Accounts, round_claim(who, id) PROVE Divisible'
  <2> DEFINE s == [rounds[id] EXCEPT !.claimed = @ + Share(rounds[id], deposits[who][id])]
  <2>1. /\ rounds' = [rounds EXCEPT ![id] = s] /\ Stored' = Stored
        /\ deposits' = [deposits EXCEPT ![who][id] = 0]
    BY <1>12 DEF round_claim, Update, Spent, Stored
  <2>2. rounds[id] \in Round
    BY <1>2
  <2>3. s.principal_snapshot = rounds[id].principal_snapshot
    BY <2>2 DEF Round
  <2>4. \A j \in Stored : rounds'[j].principal_snapshot = rounds[j].principal_snapshot
    BY <1>2, <2>1, <2>3
  <2>5. \A x \in Accounts, j \in Stored :
           deposits[x][j] \in Nat /\ (deposits'[x][j] = deposits[x][j] \/ deposits'[x][j] = 0)
    BY <1>1, <2>1
  <2>6. \A j \in Stored : rounds[j].principal_snapshot \in Nat
    BY <1>2 DEF Round
  <2>7. QED
    BY <2>1, <2>4, <2>5, <2>6 DEF Divisible
<1>13. ASSUME NEW id \in Stored, NEW who \in Accounts, NEW amount \in Amounts,
              round_deposit(who, id, amount)
       PROVE  Divisible'
  <2> DEFINE s == [rounds[id] EXCEPT !.principal_snapshot = @ + amount]
  <2>1. /\ rounds' = [rounds EXCEPT ![id] = s] /\ Stored' = Stored
        /\ deposits' = [deposits EXCEPT ![who][id] = deposits[who][id] + amount]
    BY <1>13 DEF round_deposit, Update, Added, Stored
  <2>2. rounds[id] \in Round /\ amount \in Nat
    BY <1>2, RoundsAssumption
  <2>3. s.principal_snapshot = rounds[id].principal_snapshot + amount
    BY <2>2 DEF Round
  <2>4. \A j \in Stored : rounds[j].principal_snapshot \in Nat
    BY <1>2 DEF Round
  <2>5. \A j \in Stored : rounds'[j].principal_snapshot =
           IF j = id THEN rounds[j].principal_snapshot + amount ELSE rounds[j].principal_snapshot
    BY <1>2, <2>1, <2>3
  <2>6. \A x \in Accounts, j \in Stored :
           /\ deposits[x][j] \in Nat
           /\ deposits'[x][j] = IF x = who /\ j = id THEN deposits[x][j] + amount ELSE deposits[x][j]
    BY <1>1, <2>1
  <2>7. QED
    BY <2>1, <2>2, <2>4, <2>5, <2>6 DEF Divisible
<1>14. ASSUME NEW id \in Stored, NEW participants \in PruneLists, prune_round(id, participants)
       PROVE  Divisible'
  BY <1>3, <1>14 DEF prune_round, Stored
<1>15. QED
  BY <1>5, <1>6, <1>7, <1>8, <1>10, <1>11, <1>12, <1>13, <1>14 DEF RoundsNext

\* The share of one participant is among those that fit.
LEMMA ShareFits ==
    ASSUME SumsInv, Divisible
    PROVE  ClaimsFit
<1> SUFFICES ASSUME NEW id \in Stored, NEW who \in Accounts,
                    rounds[id].status = "Settled", deposits[who][id] > 0
             PROVE  /\ rounds[id].principal_snapshot > 0
                    /\ rounds[id].claimed + Share(rounds[id], deposits[who][id]) <= Total(rounds[id])
  BY DEF ClaimsFit
<1>1. RoundInv /\ rounds[id] \in Round /\ id \in Ids
  BY StoredRound DEF SumsInv
<1>2. PICK held \in [Accounts -> Nat] : held = Held(id) /\ \A x \in Accounts : held[x] = deposits[x][id]
  BY <1>1, HeldType
<1>3. PICK s \in Nat, c \in Nat, t \in Nat :
         s = rounds[id].principal_snapshot /\ c = rounds[id].claimed /\ t = Total(rounds[id])
  BY <1>1 DEF Round, Total
<1>4. s > 0
  BY <1>2, <1>3 DEF Divisible
<1>5. PICK due : due = Dues(rounds[id], held)
  OBVIOUS
<1>6. due \in [Accounts -> Nat] /\ due[who] = Share(rounds[id], deposits[who][id])
  <2>1. \A x \in Accounts : due[x] = Due(rounds[id], held[x])
    BY <1>5 DEF Dues
  <2>2. \A x \in Accounts : due[x] \in Nat
    BY <1>1, <1>3, <1>4, <2>1, DueType
  <2>3. due[who] = Share(rounds[id], deposits[who][id])
    BY <1>2, <2>1 DEF Due
  <2>4. QED
    BY <1>5, <2>2, <2>3 DEF Dues
<1>7. due[who] <= SumFunction(due) /\ SumFunction(due) \in Nat
  BY <1>6, SumBounds, SumNatural, RoundsAssumption
<1>8. c + SumFunction(due) <= t
  BY <1>2, <1>3, <1>5 DEF SumsInv, EveryShareCovered
<1>9. QED
  BY <1>3, <1>4, <1>6, <1>7, <1>8

\* Whoever holds a deposit in a settled round can claim its share: round_claim
\* neither divides by 0 nor answers RoundAccountingViolation, however many
\* participants claim, in whatever order.
THEOREM NoClaimIsRefused == RoundsSpec => []ClaimsFit
<1>1. SumsInv /\ Divisible /\ [RoundsNext]_roundVars => (SumsInv /\ Divisible)'
  BY SumsStep, DivisibleStep
<1>2. RoundsInit => Divisible
  BY DEF RoundsInit, Divisible, Stored
<1>3. SumsInv /\ Divisible => ClaimsFit
  BY ShareFits
<1>4. QED
  BY <1>1, <1>2, <1>3, SumsStart, PTL DEF RoundsSpec
=============================================================================
