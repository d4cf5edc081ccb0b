------------------------ MODULE PoolAccountingProofs ------------------------
(***************************************************************************)
(* The pool's money for any accounts, amounts, queue and bounds: the types, *)
(* the withdrawal queue and the order it is paid in, and solvency.         *)
(***************************************************************************)
EXTENDS PoolAccounting, SumProofs, SequenceTheorems

-----------------------------------------------------------------------------
(* The loop of fulfill_withdrawal_queue.                                     *)

Records == UNION {[D -> Participant] : D \in SUBSET Accounts}

LoopState ==
  [queue : Seq(Request), head : Nat, pending : [Accounts -> Nat], part : Records,
   custody : Nat, processed : Nat, done : BOOLEAN, failed : BOOLEAN]

\* A turn that touches no storage: the loop is over, ends or fails.
Stays(s, t) ==
  /\ t.queue = s.queue /\ t.head = s.head /\ t.pending = s.pending
  /\ t.part = s.part /\ t.custody = s.custody /\ (s.done => t.done)

\* A turn that passes over a settled request.
Skips(s, t) ==
  /\ ~s.done /\ s.head \in 1 .. Len(s.queue) /\ s.queue[s.head].status # "Pending"
  /\ t.queue = s.queue /\ t.head = s.head + 1 /\ t.pending = s.pending
  /\ t.part = s.part /\ t.custody = s.custody

\* A turn that changes the pending request at the head to w, and pays n of it.
Turns(s, t, w, n) ==
  LET r == s.queue[s.head]
  IN  /\ ~s.done /\ s.head \in 1 .. Len(s.queue) /\ r.status = "Pending"
      /\ w \in Request /\ w.who = r.who /\ n <= r.amount /\ w.amount = r.amount - n
      /\ t.queue = [s.queue EXCEPT ![s.head] = w]
      /\ \/ /\ w.status # "Pending" /\ t.head = s.head + 1
            /\ t.pending = [s.pending EXCEPT ![r.who] = 0]
         \/ w.status = "Pending" /\ t.head = s.head /\ t.pending = s.pending /\ t.done
      /\ \/ n = 0 /\ t.part = s.part /\ t.custody = s.custody
         \/ /\ has_participant(r.who) /\ n <= s.custody /\ t.custody = s.custody - n
            /\ t.part = With(s.part, r.who, Paid(QueuedRecord(s, r.who), n))

Turned(s, t) ==
  t \in LoopState /\ (Stays(s, t) \/ Skips(s, t) \/ \E w \in Request, n \in Nat : Turns(s, t, w, n))

\* A request settled: its row, the guard, the head and the count.
Settled(s, t, who, k) ==
  /\ t \in LoopState /\ t.head = s.head + 1 /\ t.pending = [s.pending EXCEPT ![who] = 0]
  /\ t.queue = [s.queue EXCEPT ![s.head] = [s.queue[s.head] EXCEPT !.status = k]]
  /\ t.part = s.part /\ t.custody = s.custody

\* What Settle does.
LEMMA SettleFields ==
    ASSUME NEW s \in LoopState, s.head \in 1 .. Len(s.queue), NEW who \in Accounts,
           NEW k \in {"Fulfilled", "Expired"}
    PROVE  Settled(s, Settle(s, who, k), who, k)
<1> DEFINE t == Settle(s, who, k)
<1>1. PICK q : q = [s.queue EXCEPT ![s.head] = [s.queue[s.head] EXCEPT !.status = k]]
  OBVIOUS
<1>2. PICK p : p = [s.pending EXCEPT ![who] = 0]
  OBVIOUS
<1>3. PICK h \in Nat, c \in Nat : h = s.head + 1 /\ c = s.processed + 1
  BY DEF LoopState
<1>4. t = [s EXCEPT !.queue = q, !.pending = p, !.head = h, !.processed = c]
  BY <1>1, <1>2, <1>3 DEF Settle, LoopState
<1>5. p \in [Accounts -> Nat]
  BY <1>2 DEF LoopState
<1>6. q \in Seq(Request)
  <2>1. s.queue \in Seq(Request) /\ s.queue[s.head] \in Request
    BY DEF LoopState
  <2>2. PICK r \in Request : r = s.queue[s.head]
    BY <2>1
  <2>3. [r EXCEPT !.status = k] \in Request
    BY DEF Request
  <2>4. QED
    BY <1>1, <2>1, <2>2, <2>3
<1>7. /\ t \in LoopState
      /\ t.queue = q /\ t.pending = p /\ t.head = h /\ t.part = s.part /\ t.custody = s.custody
  BY <1>4, <1>5, <1>6 DEF LoopState
<1>8. QED
  BY <1>1, <1>2, <1>3, <1>7 DEF Settled

\* Writing one record of a table of records.
LEMMA RecordWritten ==
    ASSUME NEW P \in Records, NEW a \in Accounts, NEW p \in Participant
    PROVE  /\ With(P, a, p) \in Records /\ DOMAIN With(P, a, p) = DOMAIN P \cup {a}
           /\ With(P, a, p)[a] = p /\ \A b \in DOMAIN P \ {a} : With(P, a, p)[b] = P[b]
<1>1. PICK D \in SUBSET Accounts : P \in [D -> Participant]
  BY DEF Records
<1>2. With(P, a, p) \in [D \cup {a} -> Participant]
  BY <1>1 DEF With
<1>3. D \cup {a} \in SUBSET Accounts
  OBVIOUS
<1>4. QED
  BY <1>1, <1>2, <1>3 DEF Records, With

\* A payment of principal recorded.
LEMMA PaidFields ==
    ASSUME NEW p \in Participant, NEW n \in Int
    PROVE  /\ Paid(p, n) \in Participant /\ Paid(p, n).withdrawn = p.withdrawn + n
           /\ Paid(p, n).deposited = p.deposited /\ Paid(p, n).locked_until = p.locked_until
           /\ Paid(p, n).yield = p.yield /\ Paid(p, n).prize = p.prize /\ Paid(p, n).claimed = p.claimed
<1>1. PICK w \in Int : w = p.withdrawn + n
  BY DEF Participant
<1>2. Paid(p, n) = [p EXCEPT !.withdrawn = w]
  BY <1>1 DEF Paid
<1>3. QED
  BY <1>1, <1>2 DEF Participant

\* The request at the head, paid as far as the idle tokens go.
LEMMA PayHeadFields ==
    ASSUME NEW s \in LoopState, s.head \in 1 .. Len(s.queue), ~s.done, s.queue[s.head].status = "Pending",
           legacy \in Records, DOMAIN part \subseteq DOMAIN s.part
    PROVE  Turned(s, PayHead(s))
<1> DEFINE r == s.queue[s.head]
           t == PayHead(s)
<1> SUFFICES t \in LoopState /\ (Stays(s, t) \/ \E w \in Request, n \in Nat : Turns(s, t, w, n))
  BY DEF Turned
<1>1. r \in Request /\ r.amount \in Nat /\ s.custody \in Nat /\ r.who \in Accounts
  <2>1. r \in Request /\ s.custody \in Nat
    BY DEF LoopState
  <2>2. QED
    BY <2>1 DEF Request
<1>2. CASE ~has_participant(r.who)
  <2>1. t = [s EXCEPT !.failed = TRUE]
    BY <1>2 DEF PayHead
  <2>2. t \in LoopState
    BY <2>1 DEF LoopState
  <2>3. Stays(s, t)
    BY <2>1 DEF LoopState, Stays
  <2>4. QED
    BY <2>2, <2>3
<1>3. CASE has_participant(r.who)
  <2>1. PICK n \in Nat : n = Min({r.amount, s.custody}) /\ n <= r.amount /\ n <= s.custody
    BY <1>1, MinOfTwo, Zenon
  <2>2. PICK u \in Participant : u = QueuedRecord(s, r.who)
    <3>1. r.who \in DOMAIN s.part \cup DOMAIN legacy
      BY <1>3 DEF has_participant
    <3>2. s.part \in Records
      BY DEF LoopState
    <3>3. QED
      BY <3>1, <3>2 DEF QueuedRecord, Records
  <2>3. PICK P \in Records : P = With(s.part, r.who, Paid(u, n))
    <3>1. Paid(u, n) \in Participant
      BY PaidFields
    <3>2. s.part \in Records
      BY DEF LoopState
    <3>3. QED
      BY <1>1, <3>1, <3>2, RecordWritten
  <2>4. PICK c \in Nat, m \in Nat : c = s.custody - n /\ m = r.amount - n
    BY <1>1, <2>1
  <2>5. PICK v : v = [r EXCEPT !.amount = m]
    OBVIOUS
  <2>6. v \in Request /\ v.who = r.who /\ v.amount = m /\ v.status = "Pending"
    BY <1>1, <2>5 DEF Request
  <2>7. PICK q : q = [s.queue EXCEPT ![s.head] = v]
    OBVIOUS
  <2>8. q \in Seq(Request) /\ Len(q) = Len(s.queue) /\ q[s.head] = v
    BY <2>6, <2>7 DEF LoopState
  <2>9. PICK x : x = [s EXCEPT !.custody = c, !.queue = q, !.part = P]
    OBVIOUS
  <2>10. /\ x \in LoopState /\ x.custody = c /\ x.queue = q /\ x.part = P
         /\ x.head = s.head /\ x.pending = s.pending
    BY <2>8, <2>9 DEF LoopState
  <2>11. PayRequest(s, n) = x
    BY <2>2, <2>3, <2>4, <2>5, <2>7, <2>9 DEF PayRequest, Remaining, LoopState
  <2>12. t = IF n = r.amount THEN Settle(x, r.who, "Fulfilled") ELSE Short(s, x)
    <3>1. PayHead(s) = IF n = r.amount THEN Settle(PayRequest(s, n), r.who, "Fulfilled")
                       ELSE Short(s, PayRequest(s, n))
      BY <1>3, <2>1, Zenon DEF PayHead
    <3>2. QED
      BY <2>11, <3>1
  <2>13. CASE n = r.amount
    <3>1. t = Settle(x, r.who, "Fulfilled")
      BY <2>12, <2>13
    <3>2. PICK w : w = [v EXCEPT !.status = "Fulfilled"]
      OBVIOUS
    <3>3. w \in Request /\ w.who = r.who /\ w.amount = r.amount - n /\ w.status = "Fulfilled"
      BY <2>4, <2>6, <3>2 DEF Request
    <3>4. /\ t \in LoopState /\ t.head = s.head + 1 /\ t.pending = [s.pending EXCEPT ![r.who] = 0]
          /\ t.queue = [q EXCEPT ![s.head] = w] /\ t.part = P /\ t.custody = c
      <4>1. x.head \in 1 .. Len(x.queue) /\ x.queue[x.head] = v
        BY <2>8, <2>10
      <4>2. Settled(x, t, r.who, "Fulfilled")
        BY <1>1, <2>10, <3>1, <4>1, SettleFields, Zenon
      <4>3. w = [x.queue[x.head] EXCEPT !.status = "Fulfilled"]
        BY <3>2, <4>1
      <4>4. QED
        BY <2>10, <4>2, <4>3 DEF Settled
    <3>5. [q EXCEPT ![s.head] = w] = [s.queue EXCEPT ![s.head] = w]
      BY <2>7 DEF LoopState
    <3>6. Turns(s, t, w, n)
      BY <1>3, <2>1, <2>2, <2>3, <2>4, <3>3, <3>4, <3>5 DEF Turns
    <3>7. QED
      BY <3>3, <3>4, <3>6
  <2>14. CASE n # r.amount
    <3>1. t = [x EXCEPT !.done = TRUE]
      BY <2>12, <2>14 DEF Short
    <3>2. /\ t \in LoopState /\ t.head = s.head /\ t.pending = s.pending /\ t.queue = q
          /\ t.part = P /\ t.custody = c /\ t.done
      BY <2>10, <3>1 DEF LoopState
    <3>3. Turns(s, t, v, n)
      BY <1>3, <2>1, <2>2, <2>3, <2>4, <2>6, <2>7, <3>2 DEF Turns
    <3>4. QED
      BY <2>6, <3>2, <3>3
  <2>15. QED
    BY <2>13, <2>14
<1>4. QED
  BY <1>2, <1>3

\* One turn of the loop.
LEMMA TurnOutcome ==
    ASSUME NEW s \in LoopState, s.head # 0, legacy \in Records, DOMAIN part \subseteq DOMAIN s.part, NEW max
    PROVE  Turned(s, FulfillNext(s, max))
<1> DEFINE r == s.queue[s.head]
           t == FulfillNext(s, max)
<1>1. CASE s.done \/ s.failed \/ s.head > Len(s.queue) \/ s.processed >= max
  <2>1. t = s
    BY <1>1 DEF FulfillNext
  <2>2. QED
    BY <2>1 DEF Turned, Stays
<1>2. CASE ~(s.done \/ s.failed \/ s.head > Len(s.queue) \/ s.processed >= max)
  <2>1. /\ s.queue \in Seq(Request) /\ Len(s.queue) \in Nat /\ s.head \in 1 .. Len(s.queue)
        /\ r \in Request /\ ~s.done
    BY <1>2 DEF LoopState
  <2>2. CASE r.status # "Pending"
    <3>1. t = [s EXCEPT !.head = s.head + 1]
      BY <1>2, <2>2, Zenon DEF FulfillNext, Skip
    <3>2. PICK h \in Nat : h = s.head + 1
      BY <2>1
    <3>3. t = [s EXCEPT !.head = h]
      BY <3>1, <3>2
    <3>4. /\ t \in LoopState /\ t.head = h /\ t.queue = s.queue /\ t.pending = s.pending
          /\ t.part = s.part /\ t.custody = s.custody
      BY <3>3 DEF LoopState
    <3>5. Skips(s, t)
      BY <2>1, <2>2, <3>2, <3>4 DEF Skips
    <3>6. QED
      BY <3>4, <3>5 DEF Turned
  <2>3. CASE r.status = "Pending" /\ ledger > r.expires_at
    <3>1. t = Settle(s, r.who, "Expired")
      BY <1>2, <2>3 DEF FulfillNext
    <3>2. r.who \in Accounts /\ r.amount \in Nat
      BY <2>1 DEF Request
    <3>3. Settled(s, t, r.who, "Expired")
      BY <2>1, <3>1, <3>2, SettleFields
    <3>4. PICK w : w = [r EXCEPT !.status = "Expired"]
      OBVIOUS
    <3>5. w \in Request /\ w.who = r.who /\ w.amount = r.amount - 0 /\ w.status = "Expired"
      BY <2>1, <3>2, <3>4 DEF Request
    <3>6. Turns(s, t, w, 0)
      BY <2>1, <2>3, <3>2, <3>3, <3>4, <3>5 DEF Turns, Settled
    <3>7. QED
      BY <3>3, <3>5, <3>6 DEF Turned, Settled
  <2>4. CASE r.status = "Pending" /\ ~(ledger > r.expires_at) /\ s.custody <= 0
    <3>1. t = [s EXCEPT !.done = TRUE]
      BY <1>2, <2>4 DEF FulfillNext
    <3>2. t \in LoopState /\ Stays(s, t)
      BY <3>1 DEF LoopState, Stays
    <3>3. QED
      BY <3>2 DEF Turned
  <2>5. CASE r.status = "Pending" /\ ~(ledger > r.expires_at) /\ ~(s.custody <= 0)
    <3>1. t = PayHead(s)
      BY <1>2, <2>5 DEF FulfillNext
    <3>2. QED
      BY <2>1, <2>5, <3>1, PayHeadFields
  <2>6. QED
    BY <2>2, <2>3, <2>4, <2>5
<1>3. QED
  BY <1>1, <1>2

\* The loop can be run for any number of turns.
LEMMA LoopRuns ==
    ASSUME NEW max, NEW m \in Nat
    PROVE  \E g : g = [n \in 0 .. m |-> IF n = 0 THEN FulfillStart ELSE FulfillNext(g[n - 1], max)]
<1> DEFINE N == {k \in Nat : \E g : g = [n \in 0 .. k |-> IF n = 0 THEN FulfillStart
                                                          ELSE FulfillNext(g[n - 1], max)]}
<1>1. 0 \in N
  <2>1. PICK g : g = [n \in 0 .. 0 |-> FulfillStart]
    OBVIOUS
  <2>2. g = [n \in 0 .. 0 |-> IF n = 0 THEN FulfillStart ELSE FulfillNext(g[n - 1], max)]
    BY <2>1
  <2>3. QED
    BY <2>2
<1>2. ASSUME NEW k \in N PROVE k + 1 \in N
  <2>1. PICK g : g = [n \in 0 .. k |-> IF n = 0 THEN FulfillStart ELSE FulfillNext(g[n - 1], max)]
    OBVIOUS
  <2>2. PICK h : h = [n \in 0 .. (k + 1) |-> IF n = 0 THEN FulfillStart ELSE FulfillNext(g[n - 1], max)]
    OBVIOUS
  <2>3. \A n \in 0 .. k : h[n] = g[n]
    BY <2>1, <2>2
  <2>4. \A n \in 0 .. (k + 1) : n # 0 => h[n - 1] = g[n - 1]
    BY <2>3
  <2>5. h = [n \in 0 .. (k + 1) |-> IF n = 0 THEN FulfillStart ELSE FulfillNext(h[n - 1], max)]
    BY <2>2, <2>4
  <2>6. QED
    BY <2>5
<1>3. N = Nat
  <2> HIDE DEF N
  <2>1. N \in SUBSET Nat
    BY DEF N
  <2>2. QED
    BY <1>1, <1>2, <2>1, NaturalsByInduction
<1>4. QED
  BY <1>3

\* What holds at the start of the loop and is kept by a turn holds at its end.
LEMMA LoopByInduction ==
    ASSUME NEW max, NEW J, FulfillStart \in J, \A s \in J : FulfillNext(s, max) \in J, Len(queue) \in Nat
    PROVE  FulfillLoop(max) \in J
<1> DEFINE after == CHOOSE g : g = [n \in 0 .. Len(queue) |-> IF n = 0 THEN FulfillStart
                                                             ELSE FulfillNext(g[n - 1], max)]
<1>1. FulfillLoop(max) = after[Len(queue)]
  BY Zenon DEF FulfillLoop
<1>2. \E g : g = [n \in 0 .. Len(queue) |-> IF n = 0 THEN FulfillStart ELSE FulfillNext(g[n - 1], max)]
  BY LoopRuns
<1>3. after = [n \in 0 .. Len(queue) |-> IF n = 0 THEN FulfillStart ELSE FulfillNext(after[n - 1], max)]
  BY <1>2, Zenon
<1> HIDE DEF after
<1> DEFINE N == {n \in Nat : n \in 0 .. Len(queue) => after[n] \in J}
<1>4. 0 \in N
  BY <1>3
<1>5. ASSUME NEW n \in N PROVE n + 1 \in N
  BY <1>3
<1>6. N = Nat
  <2> HIDE DEF N
  <2>1. N \in SUBSET Nat
    BY DEF N
  <2>2. QED
    BY <1>4, <1>5, <2>1, NaturalsByInduction
<1>7. QED
  BY <1>1, <1>6

-----------------------------------------------------------------------------
(* Types.                                                                    *)

RecordTypes == part \in Records /\ legacy \in Records /\ DOMAIN legacy \subseteq LegacyUsers

QueueTypes ==
  /\ queue \in Seq(Request) /\ head \in 1 .. (Len(queue) + 1)
  /\ pending \in [Accounts -> 0 .. Len(queue)]

MoneyTypes == pool \in Pool /\ custody \in Nat /\ ledger \in Nat

\* TypeOK, by what it is about.
LEMMA TypeParts == TypeOK <=> RecordTypes /\ QueueTypes /\ MoneyTypes
<1>1. part \in Records <=> DOMAIN part \subseteq Accounts /\ part \in [DOMAIN part -> Participant]
  BY DEF Records
<1>2. LegacyUsers \subseteq Accounts
  BY AccountingAssumption
<1>3. legacy \in Records /\ DOMAIN legacy \subseteq LegacyUsers
      <=> DOMAIN legacy \subseteq LegacyUsers /\ legacy \in [DOMAIN legacy -> Participant]
  BY <1>2 DEF Records
<1>4. QED
  BY <1>1, <1>3 DEF TypeOK, RecordTypes, QueueTypes, MoneyTypes

\* The record an account has.
LEMMA LoadedRecord ==
    ASSUME RecordTypes, NEW a \in Accounts, has_participant(a)
    PROVE  load_participant(a) \in Participant
BY DEF RecordTypes, Records, has_participant, load_participant

\* The record an account starts with.
LEMMA NewRecord ==
    ASSUME MoneyTypes
    PROVE  /\ NewParticipant \in Participant /\ unwithdrawn(NewParticipant) = 0 /\ unclaimed(NewParticipant) = 0
           /\ NewParticipant.withdrawn = 0 /\ NewParticipant.deposited = 0
           /\ NewParticipant.yield = 0 /\ NewParticipant.prize = 0 /\ NewParticipant.claimed = 0
<1>1. PICK u \in Nat : u = ledger + Lockup
  BY AccountingAssumption DEF MoneyTypes
<1>2. PICK p : p = NewParticipant /\ p = [deposited |-> 0, withdrawn |-> 0, locked_until |-> u,
                                           yield |-> 0, prize |-> 0, claimed |-> 0]
  BY <1>1 DEF NewParticipant
<1>3. /\ p \in Participant
      /\ p.withdrawn = 0 /\ p.deposited = 0 /\ p.yield = 0 /\ p.prize = 0 /\ p.claimed = 0
  BY <1>2 DEF Participant
<1>4. QED
  BY <1>2, <1>3 DEF unwithdrawn, unclaimed

\* A record saved: the tables keep their type and the other records.
LEMMA RecordSaved ==
    ASSUME RecordTypes, NEW who \in Accounts, NEW p \in Participant, save_participant(who, p)
    PROVE  /\ RecordTypes' /\ who \in DOMAIN part' /\ part'[who] = p
           /\ \A a \in DOMAIN part \ {who} : a \in DOMAIN part' /\ part'[a] = part[a]
           /\ has_participant(who)' /\ load_participant(who)' = p
           /\ \A a \in Accounts \ {who} :
                 /\ has_participant(a)' <=> has_participant(a)
                 /\ has_participant(a) => load_participant(a)' = load_participant(a)
<1>1. /\ part' \in Records /\ DOMAIN part' = DOMAIN part \cup {who} /\ part'[who] = p
      /\ \A b \in DOMAIN part \ {who} : part'[b] = part[b]
  <2>1. part \in Records /\ part' = With(part, who, p)
    BY DEF RecordTypes, save_participant
  <2>2. part \in Records /\ who \in Accounts /\ p \in Participant
    BY <2>1
  <2>3. /\ With(part, who, p) \in Records /\ DOMAIN With(part, who, p) = DOMAIN part \cup {who}
        /\ With(part, who, p)[who] = p /\ \A b \in DOMAIN part \ {who} : With(part, who, p)[b] = part[b]
    BY ONLY <2>2, RecordWritten
  <2>4. PICK W : W = With(part, who, p)
    OBVIOUS
  <2>5. W \in Records /\ DOMAIN W = DOMAIN part \cup {who} /\ W[who] = p /\ \A b \in DOMAIN part \ {who} : W[b] = part[b]
    BY ONLY <2>3, <2>4
  <2>6. part' = W
    BY <2>1, <2>4
  <2>7. QED
    BY ONLY <2>5, <2>6
<1>2. DOMAIN legacy' = DOMAIN legacy \ {who} /\ \A b \in DOMAIN legacy \ {who} : legacy'[b] = legacy[b]
  BY DEF save_participant, Without
<1>3. legacy' \in Records
  BY DEF save_participant, Without, RecordTypes, Records
<1>4. RecordTypes'
  BY <1>1, <1>2, <1>3 DEF RecordTypes
<1>5. has_participant(who)' /\ load_participant(who)' = p
  BY <1>1 DEF has_participant, load_participant
<1>6. ASSUME NEW a \in Accounts \ {who}
      PROVE  /\ has_participant(a)' <=> has_participant(a)
             /\ has_participant(a) => load_participant(a)' = load_participant(a)
  <2>1. (a \in DOMAIN part' <=> a \in DOMAIN part) /\ (a \in DOMAIN legacy' <=> a \in DOMAIN legacy)
    BY <1>1, <1>2
  <2>2. has_participant(a)' <=> has_participant(a)
    BY <2>1 DEF has_participant
  <2>3. CASE a \in DOMAIN part
    <3>1. load_participant(a)' = part'[a] /\ load_participant(a) = part[a]
      BY <2>1, <2>3 DEF load_participant
    <3>2. QED
      BY <1>1, <2>2, <2>3, <3>1
  <2>4. CASE a \in DOMAIN legacy /\ a \notin DOMAIN part
    <3>1. load_participant(a)' = legacy'[a] /\ load_participant(a) = legacy[a]
      BY <2>1, <2>4 DEF load_participant
    <3>2. QED
      BY <1>2, <2>2, <2>4, <3>1
  <2>5. QED
    BY <2>2, <2>3, <2>4 DEF has_participant
<1>7. QED
  BY <1>1, <1>4, <1>5, <1>6

-----------------------------------------------------------------------------
(* What the operations on one account's record do to it and to the pool.     *)

\* The tokens and the principal deployed, beyond the yield set aside.
Free == custody + pool.principal_in_strategy - pool.distributable_yield

\* The record an operation starts from: the one on file or a new one.
Starts(who, q) ==
  /\ who \in DOMAIN part => q = part[who]
  /\ who \notin DOMAIN part => q = NewParticipant \/ (has_participant(who) /\ q = load_participant(who))

\* Deposits, payments of principal, credits and claims recorded.
Shifts(q, p, d, w, r, c) ==
  /\ p.deposited = q.deposited + d /\ p.withdrawn = q.withdrawn + w
  /\ p.yield + p.prize = q.yield + q.prize + r /\ p.claimed = q.claimed + c

\* A record changes from q to p, d tokens are deposited and n leave, and Free
\* changes by f.
Changes(who, q, p, f) ==
  /\ save_participant(who, p) /\ Starts(who, q)
  /\ MoneyTypes' /\ Free' = Free + f /\ ledger' = ledger

\* The pool's numbers are of their types.
LEMMA PoolFields ==
    ASSUME pool \in Pool
    PROVE  /\ pool.total_deposited \in Int /\ pool.distributable_yield \in Nat /\ pool.claim_deadline \in Nat
           /\ pool.emergency_assets \in Int /\ pool.principal_in_strategy \in Nat
BY DEF Pool

\* An operation starts from a participant's record.
LEMMA StartsFrom ==
    ASSUME RecordTypes, MoneyTypes, NEW who \in Accounts,
           NEW q, q = NewParticipant \/ (has_participant(who) /\ q = load_participant(who)),
           who \in DOMAIN part => q = part[who]
    PROVE  Starts(who, q) /\ q \in Participant
<1>1. Starts(who, q)
  BY DEF Starts
<1>2. q \in Participant
  BY NewRecord, LoadedRecord
<1>3. QED
  BY <1>1, <1>2

\* deposit and deposit_with_duration.
LEMMA DepositEffect ==
    ASSUME RecordTypes, MoneyTypes, NEW who \in Accounts, NEW amount \in Nat,
           deposit(who, amount) \/ \E ledgers \in Lockups : deposit_with_duration(who, amount, ledgers)
    PROVE  \E q \in Participant, p \in Participant :
             /\ Changes(who, q, p, amount) /\ Shifts(q, p, amount, 0, 0, 0)
             /\ custody' = custody + amount /\ pool'.is_emergency = pool.is_emergency
<1>1. /\ custody' = custody + amount /\ ledger' = ledger
      /\ pool' = [pool EXCEPT !.total_deposited = pool.total_deposited + amount]
  BY DEF deposit, deposit_with_duration, Receive
<1>2. pool \in Pool /\ pool.total_deposited \in Int /\ custody \in Nat
  BY PoolFields DEF MoneyTypes
<1>3. PICK v \in Int : v = pool.total_deposited + amount
  BY <1>2
<1>4. /\ pool' \in Pool /\ pool'.principal_in_strategy = pool.principal_in_strategy
      /\ pool'.distributable_yield = pool.distributable_yield /\ pool'.is_emergency = pool.is_emergency
  BY <1>1, <1>2, <1>3 DEF Pool
<1>5. MoneyTypes' /\ Free' = Free + amount
  BY <1>1, <1>2, <1>4, PoolFields DEF MoneyTypes, Free
<1>6. CASE deposit(who, amount)
  <2>1. PICK q : q = IF who \in DOMAIN part THEN part[who] ELSE NewParticipant
    OBVIOUS
  <2>2. Starts(who, q) /\ q \in Participant
    BY <2>1, StartsFrom DEF has_participant, load_participant
  <2>3. PICK d \in Nat : d = q.deposited + amount
    BY <2>2 DEF Participant
  <2>4. PICK p : p = [q EXCEPT !.deposited = d]
    OBVIOUS
  <2>5. p \in Participant /\ Shifts(q, p, amount, 0, 0, 0)
    BY <2>2, <2>3, <2>4 DEF Participant, Shifts
  <2>6. save_participant(who, p)
    BY <1>6, <2>1, <2>3, <2>4 DEF deposit
  <2>7. QED
    BY <1>1, <1>4, <1>5, <2>2, <2>5, <2>6 DEF Changes
<1>7. ASSUME NEW ledgers \in Lockups, deposit_with_duration(who, amount, ledgers)
      PROVE  \E q \in Participant, p \in Participant : Changes(who, q, p, amount) /\ Shifts(q, p, amount, 0, 0, 0)
  <2>1. PICK q : q = load_participant(who) /\ has_participant(who)
    BY <1>7 DEF deposit_with_duration
  <2>2. Starts(who, q) /\ q \in Participant
    BY <2>1, StartsFrom DEF load_participant
  <2>3. PICK d \in Nat, u \in Nat : d = q.deposited + amount /\ u = ledger + ledgers
    <3>1. ledger \in Nat /\ ledgers \in Nat /\ q.deposited \in Nat
      BY <2>2, AccountingAssumption DEF Participant, MoneyTypes
    <3>2. QED
      BY <3>1
  <2>4. PICK p : p = [q EXCEPT !.deposited = d, !.locked_until = u]
    OBVIOUS
  <2>5. p \in Participant /\ Shifts(q, p, amount, 0, 0, 0)
    <3>1. /\ p \in Participant /\ p.deposited = d /\ p.withdrawn = q.withdrawn /\ p.yield = q.yield
          /\ p.prize = q.prize /\ p.claimed = q.claimed
      BY <2>2, <2>4 DEF Participant
    <3>2. q.withdrawn \in Int /\ q.yield \in Nat /\ q.prize \in Nat /\ q.claimed \in Nat
      BY <2>2 DEF Participant
    <3>3. QED
      BY <2>3, <3>1, <3>2 DEF Shifts
  <2>6. save_participant(who, p)
    BY <1>7, <2>1, <2>3, <2>4 DEF deposit_with_duration
  <2>7. QED
    BY <1>1, <1>5, <2>2, <2>5, <2>6 DEF Changes
<1>8. QED
  BY <1>1, <1>4, <1>6, <1>7

\* The other calls that leave the pool's record and the queue alone: join, and
\* draw_winner, whose prize comes from nowhere.
LEMMA JoinEffect ==
    ASSUME RecordTypes, MoneyTypes, NEW who \in Accounts, join(who)
    PROVE  \E q \in Participant, p \in Participant :
             Changes(who, q, p, 0) /\ Shifts(q, p, 0, 0, 0, 0) /\ UNCHANGED <<custody, pool>>
<1>1. PICK q : q = NewParticipant
  OBVIOUS
<1>2. Starts(who, q) /\ q \in Participant
  BY <1>1, StartsFrom DEF join, has_participant
<1>3. UNCHANGED <<pool, custody, ledger>> /\ save_participant(who, q)
  BY <1>1 DEF join
<1>4. MoneyTypes' /\ Free' = Free + 0
  BY <1>3, PoolFields DEF MoneyTypes, Free
<1>5. Shifts(q, q, 0, 0, 0, 0)
  BY <1>2 DEF Shifts, Participant
<1>6. QED
  BY <1>2, <1>3, <1>4, <1>5 DEF Changes

\* draw_winner.
LEMMA DrawEffect ==
    ASSUME RecordTypes, MoneyTypes, NEW prize \in Nat, draw_winner(prize)
    PROVE  \E q \in Participant, p \in Participant :
             Changes(Admin, q, p, 0) /\ Shifts(q, p, 0, 0, prize, 0) /\ UNCHANGED <<custody, pool>>
<1>1. PICK q : q = IF has_participant(Admin) THEN load_participant(Admin) ELSE NewParticipant
  OBVIOUS
<1>2. Admin \in Accounts
  BY AccountingAssumption
<1>3. Starts(Admin, q) /\ q \in Participant
  BY <1>1, <1>2, StartsFrom DEF has_participant, load_participant
<1>4. PICK v \in Nat : v = q.prize + prize
  BY <1>3 DEF Participant
<1>5. PICK p : p = [q EXCEPT !.prize = v]
  OBVIOUS
<1>6. p \in Participant /\ Shifts(q, p, 0, 0, prize, 0)
  BY <1>3, <1>4, <1>5 DEF Participant, Shifts
<1>7. UNCHANGED <<pool, custody, ledger>> /\ save_participant(Admin, p)
  BY <1>1, <1>4, <1>5 DEF draw_winner
<1>8. MoneyTypes' /\ Free' = Free + 0
  BY <1>7, PoolFields DEF MoneyTypes, Free
<1>9. QED
  BY <1>3, <1>6, <1>7, <1>8 DEF Changes

\* credit_yield.
LEMMA CreditEffect ==
    ASSUME RecordTypes, MoneyTypes, NEW who \in Accounts, NEW amount \in Nat, credit_yield(who, amount)
    PROVE  \E q \in Participant, p \in Participant :
             /\ Changes(who, q, p, amount) /\ Shifts(q, p, 0, 0, amount, 0)
             /\ custody' = custody /\ pool'.is_emergency = pool.is_emergency
<1>1. PICK q : q = load_participant(who) /\ has_participant(who)
  BY DEF credit_yield
<1>2. Starts(who, q) /\ q \in Participant
  BY <1>1, StartsFrom DEF load_participant
<1>3. PICK v \in Nat : v = q.yield + amount
  BY <1>2 DEF Participant
<1>4. PICK p : p = [q EXCEPT !.yield = v]
  OBVIOUS
<1>5. p \in Participant /\ Shifts(q, p, 0, 0, amount, 0)
  BY <1>2, <1>3, <1>4 DEF Participant, Shifts
<1>6. PICK y \in Nat : y = pool.distributable_yield - amount
  BY PoolFields DEF MoneyTypes, credit_yield, Distributable
<1>7. /\ UNCHANGED <<custody, ledger>> /\ save_participant(who, p)
      /\ pool' = [pool EXCEPT !.distributable_yield = y]
  BY <1>1, <1>3, <1>4, <1>6 DEF credit_yield
<1>8. /\ pool' \in Pool /\ pool'.principal_in_strategy = pool.principal_in_strategy
      /\ pool'.distributable_yield = y /\ pool'.is_emergency = pool.is_emergency
  BY <1>7 DEF MoneyTypes, Pool
<1>9. MoneyTypes' /\ Free' = Free + amount
  BY <1>6, <1>7, <1>8, PoolFields DEF MoneyTypes, Free
<1>10. QED
  BY <1>2, <1>5, <1>7, <1>8, <1>9 DEF Changes

\* Two integers, the larger.
LEMMA MaxWithZero == ASSUME NEW n \in Int PROVE Max({n, 0}) = IF n > 0 THEN n ELSE 0
<1>1. \E x \in {n, 0} : \A y \in {n, 0} : x >= y
  <2>1. CASE n >= 0
    BY <2>1
  <2>2. CASE n < 0
    BY <2>2
  <2>3. QED
    BY <2>1, <2>2
<1>2. Max({n, 0}) \in {n, 0} /\ \A y \in {n, 0} : Max({n, 0}) >= y
  BY <1>1 DEF Max
<1>3. QED
  BY <1>2

\* claim_reward and sweep_unclaimed pay what is credited and not yet claimed.
LEMMA ClaimEffect ==
    ASSUME RecordTypes, MoneyTypes, NEW who \in Accounts, claim_reward(who) \/ sweep_unclaimed(who)
    PROVE  \E q \in Participant, p \in Participant, n \in Nat :
             /\ Changes(who, q, p, -n) /\ Shifts(q, p, 0, 0, 0, n)
             /\ n = (IF unclaimed(q) > 0 THEN unclaimed(q) ELSE 0)
             /\ custody' = custody - n /\ pool'.is_emergency = pool.is_emergency
<1>1. PayReward(who) /\ ledger' = ledger
  BY DEF claim_reward, sweep_unclaimed
<1>2. PICK q : q = load_participant(who) /\ has_participant(who)
  BY <1>1 DEF PayReward
<1>3. Starts(who, q) /\ q \in Participant
  BY <1>2, StartsFrom DEF load_participant
<1>4. unclaimed(q) \in Int
  BY <1>3 DEF unclaimed, Participant
<1>5. PICK n \in Nat : n = Max({unclaimed(q), 0}) /\ n = (IF unclaimed(q) > 0 THEN unclaimed(q) ELSE 0)
  BY <1>4, MaxWithZero
<1>6. PICK v \in Nat : v = q.claimed + n
  BY <1>3 DEF Participant
<1>7. PICK p : p = [q EXCEPT !.claimed = v]
  OBVIOUS
<1>8. p \in Participant /\ Shifts(q, p, 0, 0, 0, n)
  BY <1>3, <1>6, <1>7 DEF Participant, Shifts
<1>9. n <= custody /\ custody' = custody - n /\ save_participant(who, p)
  BY <1>1, <1>2, <1>5, <1>6, <1>7 DEF PayReward
<1>10. /\ pool' \in Pool /\ pool'.principal_in_strategy = pool.principal_in_strategy
       /\ pool'.distributable_yield = pool.distributable_yield /\ pool'.is_emergency = pool.is_emergency
  <2>1. CASE claim_reward(who)
    BY <2>1 DEF claim_reward, MoneyTypes
  <2>2. CASE sweep_unclaimed(who)
    <3>1. PICK b \in BOOLEAN : b = (pool.unclaimed_swept \/ custody' < custody)
      OBVIOUS
    <3>2. pool' = [pool EXCEPT !.unclaimed_swept = b]
      BY <2>2, <3>1 DEF sweep_unclaimed
    <3>3. QED
      BY <3>2 DEF MoneyTypes, Pool
  <2>3. QED
    BY <2>1, <2>2
<1>11. MoneyTypes' /\ Free' = Free + (-n)
  BY <1>1, <1>9, <1>10, PoolFields DEF MoneyTypes, Free
<1>12. QED
  BY <1>1, <1>3, <1>5, <1>8, <1>9, <1>10, <1>11 DEF Changes

\* withdraw pays all that is left of the principal and leaves the queue alone,
\* or queues it and leaves the record and the money alone.
LEMMA WithdrawEffect ==
    ASSUME RecordTypes, MoneyTypes, NEW who \in Accounts, withdraw(who)
    PROVE  \E q \in Participant, p \in Participant, n \in Nat :
             /\ Changes(who, q, p, -n) /\ Shifts(q, p, 0, n, 0, 0) /\ q = load_participant(who)
             /\ has_participant(who) /\ custody' = custody - n /\ pool' = pool
             /\ \/ n = unwithdrawn(q) /\ UNCHANGED queueVars
                \/ n = 0 /\ unwithdrawn(q) \in Nat /\ enqueue_withdrawal(who, unwithdrawn(q))
<1>1. PICK q : q = load_participant(who) /\ has_participant(who)
  BY DEF withdraw
<1>2. Starts(who, q) /\ q \in Participant
  BY <1>1, StartsFrom DEF load_participant
<1>3. PICK v \in Int : v = unwithdrawn(q)
  BY <1>2 DEF unwithdrawn, Participant
<1>4. UNCHANGED <<pool, ledger>>
  BY DEF withdraw
<1>5. CASE v > 0 /\ v > custody
  <2>1. enqueue_withdrawal(who, v) /\ save_participant(who, q) /\ custody' = custody
    BY <1>1, <1>3, <1>5 DEF withdraw
  <2>2. MoneyTypes' /\ Free' = Free + (-0) /\ custody' = custody - 0
    BY <1>4, <2>1, PoolFields DEF MoneyTypes, Free
  <2>3. Shifts(q, q, 0, 0, 0, 0)
    BY <1>2 DEF Shifts, Participant
  <2>4. Changes(who, q, q, -0)
    BY <1>2, <1>4, <2>1, <2>2 DEF Changes
  <2>5. v \in Nat
    BY <1>5
  <2>6. QED
    BY <1>1, <1>2, <1>3, <1>4, <2>1, <2>2, <2>3, <2>4, <2>5
<1>6. CASE ~(v > 0 /\ v > custody)
  <2>1. /\ v >= 0 /\ custody' = custody - v /\ UNCHANGED queueVars
        /\ save_participant(who, Paid(q, v))
    BY <1>1, <1>3, <1>6 DEF withdraw
  <2>2. v \in Nat /\ v <= custody
    BY <1>6, <2>1 DEF MoneyTypes
  <2>3. PICK p \in Participant : p = Paid(q, v) /\ Shifts(q, p, 0, v, 0, 0)
    <3>1. /\ Paid(q, v) \in Participant /\ Paid(q, v).withdrawn = q.withdrawn + v
          /\ Paid(q, v).deposited = q.deposited /\ Paid(q, v).yield = q.yield
          /\ Paid(q, v).prize = q.prize /\ Paid(q, v).claimed = q.claimed
      BY <1>2, PaidFields
    <3>2. q.deposited \in Nat /\ q.yield \in Nat /\ q.prize \in Nat /\ q.claimed \in Nat
      BY <1>2 DEF Participant
    <3>3. Shifts(q, Paid(q, v), 0, v, 0, 0)
      BY <3>1, <3>2 DEF Shifts
    <3>4. QED
      BY <3>1, <3>3
  <2>4. MoneyTypes' /\ Free' = Free + (-v)
    BY <1>4, <2>1, <2>2, PoolFields DEF MoneyTypes, Free
  <2>5. Changes(who, q, p, -v)
    BY <1>2, <1>4, <2>1, <2>3, <2>4 DEF Changes
  <2>6. QED
    BY <1>1, <1>2, <1>3, <1>4, <2>1, <2>2, <2>3, <2>5
<1>7. QED
  BY <1>5, <1>6

\* emergency_withdraw writes off all that is left of the principal and pays a
\* share of it.
LEMMA ExitEffect ==
    ASSUME RecordTypes, MoneyTypes, NEW who \in Accounts, emergency_withdraw(who)
    PROVE  \E q \in Participant, p \in Participant, f \in Int :
             /\ Changes(who, q, p, f) /\ Shifts(q, p, 0, unwithdrawn(q), 0, 0) /\ unwithdrawn(q) > 0
             /\ pool.is_emergency /\ pool'.is_emergency = pool.is_emergency
<1>1. PICK q : q = load_participant(who) /\ has_participant(who)
  BY DEF emergency_withdraw
<1>2. Starts(who, q) /\ q \in Participant
  BY <1>1, StartsFrom DEF load_participant
<1>3. PICK v \in Nat : v = unwithdrawn(q) /\ v > 0
  BY <1>1, <1>2 DEF emergency_withdraw, unwithdrawn, Participant
<1>4. PICK n \in Nat : n = emergency_payout(v)
  <2>1. v * pool.emergency_assets \in Int /\ pool.total_deposited \in Int /\ pool.emergency_assets \in Int
    BY <1>3, PoolFields DEF MoneyTypes
  <2>2. CASE pool.total_deposited > 0 /\ pool.emergency_assets > 0
    <3>1. PICK m \in Nat, d \in Nat \ {0} : m = v * pool.emergency_assets /\ d = pool.total_deposited
      BY <2>1, <2>2
    <3>2. m \div d \in Nat
      BY <3>1
    <3>3. QED
      BY <2>2, <3>1, <3>2 DEF emergency_payout
  <2>3. CASE ~(pool.total_deposited > 0 /\ pool.emergency_assets > 0)
    BY <2>3 DEF emergency_payout
  <2>4. QED
    BY <2>2, <2>3
<1>5. /\ n <= custody /\ custody' = custody - n /\ ledger' = ledger
      /\ save_participant(who, Paid(q, v)) /\ pool.is_emergency
  BY <1>1, <1>3, <1>4 DEF emergency_withdraw
<1>6. PICK x \in Int, y \in Int : x = pool.total_deposited - v /\ y = pool.emergency_assets - n
  BY <1>3, <1>4, PoolFields DEF MoneyTypes
<1>7. pool' = [pool EXCEPT !.total_deposited = x, !.emergency_assets = y]
  BY <1>1, <1>3, <1>4, <1>6 DEF emergency_withdraw
<1>8. /\ pool' \in Pool /\ pool'.principal_in_strategy = pool.principal_in_strategy
      /\ pool'.distributable_yield = pool.distributable_yield /\ pool'.is_emergency = pool.is_emergency
  BY <1>7 DEF MoneyTypes, Pool
<1>9. MoneyTypes' /\ Free' = Free + (-n)
  BY <1>4, <1>5, <1>8, PoolFields DEF MoneyTypes, Free
<1>10. PICK p \in Participant : p = Paid(q, v) /\ Shifts(q, p, 0, v, 0, 0)
  <2>1. /\ Paid(q, v) \in Participant /\ Paid(q, v).withdrawn = q.withdrawn + v
        /\ Paid(q, v).deposited = q.deposited /\ Paid(q, v).yield = q.yield
        /\ Paid(q, v).prize = q.prize /\ Paid(q, v).claimed = q.claimed
    BY <1>2, PaidFields
  <2>2. q.deposited \in Nat /\ q.yield \in Nat /\ q.prize \in Nat /\ q.claimed \in Nat
    BY <1>2 DEF Participant
  <2>3. Shifts(q, Paid(q, v), 0, v, 0, 0)
    BY <2>1, <2>2 DEF Shifts
  <2>4. QED
    BY <2>1, <2>3
<1>11. Changes(who, q, p, -n) /\ -n \in Int
  BY <1>2, <1>4, <1>5, <1>9, <1>10 DEF Changes
<1>12. QED
  BY <1>2, <1>3, <1>5, <1>8, <1>10, <1>11

-----------------------------------------------------------------------------
(* The queue.                                                                *)

\* Rows, head and guards are of their types and agree.
QueueGood(q, h, g) ==
  /\ q \in Seq(Request) /\ h \in 1 .. (Len(q) + 1) /\ g \in [Accounts -> 0 .. Len(q)]
  /\ \A i \in 1 .. Len(q) : q[i].status = "Pending" => i >= h /\ g[q[i].who] = i
  /\ \A a \in Accounts : g[a] # 0 => q[g[a]].who = a /\ q[g[a]].status = "Pending"

\* That is the queue's part of TypeOK, and QueueConsistent.
LEMMA QueueParts == QueueTypes /\ QueueConsistent <=> QueueGood(queue, head, pending)
BY DEF QueueTypes, QueueConsistent, QueueGood

\* A pending request is settled; the head stays or leaves it behind.
LEMMA RowSettled ==
    ASSUME NEW q, NEW h, NEW g, QueueGood(q, h, g), NEW i \in 1 .. Len(q), q[i].status = "Pending",
           NEW w \in Request, w.who = q[i].who, w.status # "Pending", NEW k, k = h \/ (i = h /\ k = h + 1)
    PROVE  QueueGood([q EXCEPT ![i] = w], k, [g EXCEPT ![q[i].who] = 0])
<1>1. PICK a \in Accounts : a = q[i].who
  BY DEF QueueGood, Request
<1>2. PICK r : r = [q EXCEPT ![i] = w]
  OBVIOUS
<1>3. PICK f : f = [g EXCEPT ![a] = 0]
  OBVIOUS
<1>4. q \in Seq(Request) /\ Len(q) \in Nat /\ h \in 1 .. (Len(q) + 1) /\ g \in [Accounts -> 0 .. Len(q)] /\ g[a] = i
  BY <1>1 DEF QueueGood
<1>5. r \in Seq(Request) /\ Len(r) = Len(q) /\ r[i] = w /\ \A j \in 1 .. Len(q) : j # i => r[j] = q[j]
  BY <1>2, <1>4
<1>6. f \in [Accounts -> 0 .. Len(q)] /\ f[a] = 0 /\ \A b \in Accounts : b # a => f[b] = g[b]
  BY <1>3, <1>4
<1>7. k \in 1 .. (Len(q) + 1)
  BY <1>4
<1>8. ASSUME NEW j \in 1 .. Len(q), r[j].status = "Pending" PROVE j >= k /\ f[r[j].who] = j
  <2>1. j # i /\ r[j] = q[j]
    BY <1>5, <1>8
  <2>2. j >= h /\ g[q[j].who] = j /\ q[j].who \in Accounts
    <3>1. q[j] \in Request /\ q[j].status = "Pending"
      BY <1>4, <1>8, <2>1
    <3>2. j >= h /\ g[q[j].who] = j
      BY <3>1 DEF QueueGood
    <3>3. QED
      BY <3>1, <3>2 DEF Request
  <2>3. q[j].who # a
    BY <1>4, <2>1, <2>2
  <2>4. j >= k
    BY <1>4, <2>1, <2>2
  <2>5. QED
    BY <1>6, <2>1, <2>2, <2>3, <2>4
<1>9. ASSUME NEW b \in Accounts, f[b] # 0 PROVE r[f[b]].who = b /\ r[f[b]].status = "Pending"
  <2>1. b # a /\ f[b] = g[b] /\ g[b] # 0
    BY <1>6, <1>9
  <2>2. g[b] \in 1 .. Len(q) /\ q[g[b]].who = b /\ q[g[b]].status = "Pending"
    BY <1>4, <2>1 DEF QueueGood
  <2>3. g[b] # i
    BY <1>1, <2>1, <2>2
  <2>4. QED
    BY <1>5, <2>1, <2>2, <2>3
<1>10. QueueGood(r, k, f)
  BY <1>5, <1>6, <1>7, <1>8, <1>9 DEF QueueGood
<1>11. QED
  BY <1>1, <1>2, <1>3, <1>10

\* A pending request is paid in part.
LEMMA RowPaid ==
    ASSUME NEW q, NEW h, NEW g, QueueGood(q, h, g), NEW i \in 1 .. Len(q), q[i].status = "Pending",
           NEW w \in Request, w.who = q[i].who, w.status = "Pending"
    PROVE  QueueGood([q EXCEPT ![i] = w], h, g)
<1>1. PICK r : r = [q EXCEPT ![i] = w]
  OBVIOUS
<1>2. q \in Seq(Request) /\ Len(q) \in Nat /\ h \in 1 .. (Len(q) + 1) /\ g \in [Accounts -> 0 .. Len(q)]
  BY DEF QueueGood
<1>3. /\ r \in Seq(Request) /\ Len(r) = Len(q)
      /\ \A j \in 1 .. Len(q) : r[j].who = q[j].who /\ r[j].status = q[j].status
  <2>1. r \in Seq(Request) /\ Len(r) = Len(q)
    BY <1>1, <1>2
  <2>2. \A j \in 1 .. Len(q) : r[j] = IF j = i THEN w ELSE q[j]
    BY <1>1, <1>2
  <2>3. QED
    BY <2>1, <2>2
<1>4. ASSUME NEW j \in 1 .. Len(q), r[j].status = "Pending" PROVE j >= h /\ g[r[j].who] = j
  <2>1. r[j].who = q[j].who /\ q[j].status = "Pending"
    BY <1>3, <1>4
  <2>2. j >= h /\ g[q[j].who] = j
    BY <2>1 DEF QueueGood
  <2>3. QED
    BY <2>1, <2>2
<1>5. ASSUME NEW b \in Accounts, g[b] # 0 PROVE r[g[b]].who = b /\ r[g[b]].status = "Pending"
  <2>1. g[b] \in 1 .. Len(q)
    BY <1>2, <1>5
  <2>2. q[g[b]].who = b /\ q[g[b]].status = "Pending"
    BY <1>5 DEF QueueGood
  <2>3. QED
    BY <1>3, <2>1, <2>2
<1>6. QueueGood(r, h, g)
  <2>1. h \in 1 .. (Len(r) + 1) /\ g \in [Accounts -> 0 .. Len(r)]
    BY <1>2, <1>3
  <2>2. QED
    BY <1>3, <1>4, <1>5, <2>1 DEF QueueGood
<1>7. QED
  BY <1>1, <1>6

\* A request joins the queue of an account that has none.
LEMMA RowAdded ==
    ASSUME NEW q, NEW h, NEW g, QueueGood(q, h, g), NEW w \in Request, w.status = "Pending", g[w.who] = 0
    PROVE  QueueGood(Append(q, w), h, [g EXCEPT ![w.who] = Len(q) + 1])
<1>1. PICK a \in Accounts : a = w.who
  BY DEF Request
<1>2. PICK r : r = Append(q, w)
  OBVIOUS
<1>3. PICK f : f = [g EXCEPT ![a] = Len(q) + 1]
  OBVIOUS
<1>4. q \in Seq(Request) /\ Len(q) \in Nat /\ h \in 1 .. (Len(q) + 1) /\ g \in [Accounts -> 0 .. Len(q)]
  BY DEF QueueGood
<1>5. /\ r \in Seq(Request) /\ Len(r) = Len(q) + 1 /\ r[Len(q) + 1] = w
      /\ \A j \in 1 .. Len(q) : r[j] = q[j]
  BY <1>2, <1>4
<1>6. f \in [Accounts -> 0 .. (Len(q) + 1)] /\ f[a] = Len(q) + 1 /\ \A b \in Accounts : b # a => f[b] = g[b]
  BY <1>3, <1>4
<1>7. h \in 1 .. (Len(r) + 1)
  BY <1>4, <1>5
<1>8. ASSUME NEW j \in 1 .. Len(r), r[j].status = "Pending" PROVE j >= h /\ f[r[j].who] = j
  <2>1. CASE j = Len(q) + 1
    BY <1>1, <1>4, <1>5, <1>6, <2>1
  <2>2. CASE j \in 1 .. Len(q)
    <3>1. r[j] = q[j] /\ j >= h /\ g[q[j].who] = j /\ q[j].who \in Accounts
      <4>1. r[j] = q[j] /\ q[j] \in Request /\ q[j].status = "Pending"
        BY <1>4, <1>5, <1>8, <2>2
      <4>2. j >= h /\ g[q[j].who] = j
        BY <2>2, <4>1 DEF QueueGood
      <4>3. QED
        BY <4>1, <4>2 DEF Request
    <3>2. q[j].who # a
      BY <1>1, <2>2, <3>1
    <3>3. QED
      BY <1>6, <3>1, <3>2
  <2>3. QED
    BY <1>4, <1>5, <2>1, <2>2
<1>9. ASSUME NEW b \in Accounts, f[b] # 0 PROVE r[f[b]].who = b /\ r[f[b]].status = "Pending"
  <2>1. CASE b = a
    BY <1>1, <1>5, <1>6, <2>1
  <2>2. CASE b # a
    <3>1. f[b] = g[b] /\ g[b] \in 1 .. Len(q) /\ q[g[b]].who = b /\ q[g[b]].status = "Pending"
      BY <1>4, <1>6, <1>9, <2>2 DEF QueueGood
    <3>2. QED
      BY <1>5, <3>1
  <2>3. QED
    BY <2>1, <2>2
<1>10. QueueGood(r, h, f)
  BY <1>5, <1>6, <1>7, <1>8, <1>9 DEF QueueGood
<1>11. QED
  BY <1>1, <1>2, <1>3, <1>10

\* What every turn of the loop keeps: the queue stays good, no record goes, and
\* what was paid lies behind the head or ended the loop at it.
FulfillSound(s) ==
  /\ QueueGood(s.queue, s.head, s.pending) /\ Len(s.queue) = Len(queue)
  /\ DOMAIN part \subseteq DOMAIN s.part
  /\ \A j \in 1 .. Len(queue) :
       s.queue[j].amount < queue[j].amount => j < s.head \/ (j = s.head /\ s.done)

\* A turn keeps the queue good.
LEMMA TurnKeepsQueue ==
    ASSUME NEW s \in LoopState, NEW t \in LoopState, NEW w \in Request, NEW n \in Nat, Turns(s, t, w, n),
           QueueGood(s.queue, s.head, s.pending)
    PROVE  QueueGood(t.queue, t.head, t.pending) /\ Len(t.queue) = Len(s.queue)
<1>1. PICK q, h, g : q = s.queue /\ h = s.head /\ g = s.pending
  OBVIOUS
<1>2. h \in 1 .. Len(q) /\ QueueGood(q, h, g)
  BY <1>1 DEF Turns
<1>3. q[h].status = "Pending" /\ w.who = q[h].who /\ t.queue = [q EXCEPT ![h] = w]
  BY <1>1 DEF Turns
<1> SUFFICES QueueGood(t.queue, t.head, t.pending)
  BY <1>1, <1>3 DEF LoopState
<1>4. CASE w.status # "Pending" /\ t.head = h + 1 /\ t.pending = [g EXCEPT ![q[h].who] = 0]
  <2>1. QueueGood([q EXCEPT ![h] = w], h + 1, [g EXCEPT ![q[h].who] = 0])
    BY ONLY <1>2, <1>3, <1>4, w \in Request, RowSettled, Zenon
  <2>2. QED
    BY <1>3, <1>4, <2>1
<1>5. CASE w.status = "Pending" /\ t.head = h /\ t.pending = g
  <2>1. QueueGood([q EXCEPT ![h] = w], h, g)
    BY ONLY <1>2, <1>3, <1>5, w \in Request, RowPaid, Zenon
  <2>2. QED
    BY <1>3, <1>5, <2>1
<1>6. QED
  BY <1>1, <1>4, <1>5 DEF Turns

\* A turn keeps what every turn keeps.
LEMMA TurnSound ==
    ASSUME NEW s \in LoopState, RecordTypes, QueueTypes, FulfillSound(s), NEW max
    PROVE  FulfillNext(s, max) \in LoopState /\ FulfillSound(FulfillNext(s, max))
<1> PICK t : t = FulfillNext(s, max)
  OBVIOUS
<1>1. Turned(s, t)
  <2>1. s.head # 0 /\ legacy \in Records /\ DOMAIN part \subseteq DOMAIN s.part
    BY DEF FulfillSound, QueueGood, RecordTypes
  <2>2. QED
    BY <2>1, TurnOutcome
<1>2. /\ t \in LoopState /\ Len(queue) \in Nat /\ Len(s.queue) = Len(queue)
      /\ s.head \in Nat /\ t.head \in Nat
  BY <1>1 DEF Turned, LoopState, QueueTypes, FulfillSound
<1> SUFFICES FulfillSound(t)
  BY <1>2
<1>3. CASE Stays(s, t)
  BY <1>3 DEF Stays, FulfillSound
<1>4. CASE Skips(s, t)
  <2>1. QueueGood(t.queue, t.head, t.pending)
    <3>1. /\ t.queue = s.queue /\ t.head = s.head + 1 /\ t.pending = s.pending /\ s.head \in 1 .. Len(s.queue)
          /\ s.queue[s.head].status # "Pending"
      BY <1>4 DEF Skips
    <3>2. QED
      BY <1>2, <3>1 DEF FulfillSound, QueueGood
  <2>2. QED
    BY <1>2, <1>4, <2>1 DEF Skips, FulfillSound
<1>5. ASSUME NEW w \in Request, NEW n \in Nat, Turns(s, t, w, n) PROVE FulfillSound(t)
  <2>1. QueueGood(t.queue, t.head, t.pending) /\ Len(t.queue) = Len(queue)
    BY <1>2, <1>5, TurnKeepsQueue DEF FulfillSound
  <2>2. DOMAIN part \subseteq DOMAIN t.part
    BY <1>5 DEF Turns, FulfillSound, With
  <2>3. ASSUME NEW j \in 1 .. Len(queue), t.queue[j].amount < queue[j].amount
        PROVE  j < t.head \/ (j = t.head /\ t.done)
    <3>1. CASE j = s.head
      BY <1>2, <1>5, <3>1 DEF Turns
    <3>2. CASE j # s.head
      <4>1. t.queue[j] = s.queue[j] /\ ~s.done /\ t.head \in {s.head, s.head + 1}
        BY <1>2, <1>5, <3>2 DEF Turns, LoopState
      <4>2. j < s.head
        BY <2>3, <4>1 DEF FulfillSound
      <4>3. QED
        BY <1>2, <4>1, <4>2
    <3>3. QED
      BY <3>1, <3>2
  <2>4. QED
    BY <2>1, <2>2, <2>3 DEF FulfillSound
<1>6. QED
  BY <1>1, <1>3, <1>4, <1>5 DEF Turned

\* The loop starts sound and ends sound.
LEMMA FulfillEnds ==
    ASSUME TypeOK, QueueConsistent, NEW max
    PROVE  /\ FulfillLoop(max) \in LoopState /\ FulfillSound(FulfillLoop(max))
           /\ FulfillStart \in LoopState /\ FulfillSound(FulfillStart)
<1> DEFINE J == {s \in LoopState : FulfillSound(s)}
<1>1. RecordTypes /\ QueueTypes /\ MoneyTypes /\ QueueGood(queue, head, pending)
  BY TypeParts, QueueParts
<1>2. PICK s : s = FulfillStart
  OBVIOUS
<1>3. /\ s.queue = queue /\ s.head = head /\ s.pending = pending /\ s.part = part /\ s.custody = custody
      /\ s.done = FALSE
  BY <1>2 DEF FulfillStart
<1>4. s \in LoopState
  <2>1. pending \in [Accounts -> Nat] /\ head \in Nat /\ queue \in Seq(Request) /\ part \in Records /\ custody \in Nat
    BY <1>1 DEF QueueTypes, RecordTypes, MoneyTypes
  <2>2. QED
    BY <1>2, <2>1 DEF FulfillStart, LoopState
<1>5. FulfillSound(s)
  <2>1. ASSUME NEW j \in 1 .. Len(queue) PROVE ~(queue[j].amount < queue[j].amount)
    <3>1. queue[j] \in Request
      BY <1>1 DEF QueueTypes
    <3>2. queue[j].amount \in Nat
      BY <3>1 DEF Request
    <3>3. QED
      BY <3>2
  <2>2. QED
    BY <1>1, <1>3, <2>1 DEF FulfillSound
<1>6. \A x \in J : FulfillNext(x, max) \in J
  BY <1>1, TurnSound
<1>7. FulfillLoop(max) \in J
  <2> HIDE DEF J
  <2>1. FulfillStart \in J
    BY <1>2, <1>4, <1>5 DEF J
  <2>2. Len(queue) \in Nat
    BY <1>1 DEF QueueTypes
  <2>3. QED
    BY <1>6, <2>1, <2>2, LoopByInduction
<1>8. QED
  BY <1>2, <1>4, <1>5, <1>7

-----------------------------------------------------------------------------
(* The operations that touch neither the records nor the queue.              *)

Quiet == UNCHANGED <<part, legacy, queueVars>> /\ MoneyTypes'

\* The tokens that are nobody's stay, and no emergency begins.
Gains == Free' >= Free /\ (pool'.is_emergency = TRUE => pool.is_emergency = TRUE)

QuietStep ==
  \/ Close
  \/ \E amount \in Yields : add_yield(amount)
  \/ \E deadline \in Deadlines : set_claim_deadline(deadline)
  \/ \E amount \in Injections : Recapitalize(amount)
  \/ ResumeNormal
  \/ \E cap \in Caps : set_max_wallet_deposit(cap) \/ set_max_pool_deposit(cap)
  \/ \E amount \in Reserves : set_min_idle_reserve(amount)
  \/ \E amount \in Moves : deploy_to_strategy(amount) \/ recall_from_strategy(amount)


\* None of them takes tokens away that are owed to somebody.
LEMMA QuietEffect ==
    ASSUME MoneyTypes, QuietStep
    PROVE  Quiet /\ Gains
<1>1. /\ pool \in Pool /\ custody \in Nat /\ ledger \in Nat /\ pool.total_deposited \in Int
      /\ pool.distributable_yield \in Nat /\ pool.principal_in_strategy \in Nat /\ pool.emergency_assets \in Int
  BY PoolFields DEF MoneyTypes
<1>2. CASE Close
  <2>1. /\ UNCHANGED <<pool, part, legacy, queueVars, custody>> /\ ledger' \in Nat
    BY <1>1, <1>2 DEF Close
  <2>2. QED
    BY <1>1, <2>1 DEF Quiet, Gains, MoneyTypes, Free
<1>3. ASSUME NEW amount \in Yields, add_yield(amount) PROVE Quiet /\ Gains
  <2>1. amount \in Nat
    BY AccountingAssumption
  <2>2. PICK y \in Nat : y = pool.distributable_yield + amount
    BY <1>1, <2>1
  <2>3. /\ UNCHANGED <<part, legacy, queueVars, ledger>> /\ custody' = custody + amount
        /\ pool' = [pool EXCEPT !.distributable_yield = y]
    BY <1>3, <2>2 DEF add_yield
  <2>4. /\ pool' \in Pool /\ pool'.distributable_yield = y /\ pool'.is_emergency = pool.is_emergency
        /\ pool'.principal_in_strategy = pool.principal_in_strategy
    BY <1>1, <2>3 DEF Pool
  <2>5. QED
    BY <1>1, <2>1, <2>2, <2>3, <2>4 DEF Quiet, Gains, MoneyTypes, Free
<1>4. ASSUME NEW deadline \in Deadlines, set_claim_deadline(deadline) PROVE Quiet /\ Gains
  <2>1. deadline \in Nat
    BY AccountingAssumption
  <2>2. UNCHANGED <<part, legacy, queueVars, ledger, custody>> /\ pool' = [pool EXCEPT !.claim_deadline = deadline]
    BY <1>4 DEF set_claim_deadline
  <2>3. /\ pool' \in Pool /\ pool'.distributable_yield = pool.distributable_yield
        /\ pool'.is_emergency = pool.is_emergency /\ pool'.principal_in_strategy = pool.principal_in_strategy
    BY <1>1, <2>1, <2>2 DEF Pool
  <2>4. QED
    BY <1>1, <2>2, <2>3 DEF Quiet, Gains, MoneyTypes, Free
<1>5. ASSUME NEW amount \in Injections, Recapitalize(amount) PROVE Quiet /\ Gains
  <2>1. amount \in Nat
    BY AccountingAssumption
  <2>2. PICK e \in Int : e = pool.emergency_assets + amount
    BY <1>1, <2>1
  <2>3. /\ UNCHANGED <<part, legacy, queueVars, ledger>> /\ custody' = custody + amount
        /\ pool' = [pool EXCEPT !.emergency_assets = e]
    BY <1>5, <2>2 DEF Recapitalize
  <2>4. /\ pool' \in Pool /\ pool'.distributable_yield = pool.distributable_yield
        /\ pool'.is_emergency = pool.is_emergency /\ pool'.principal_in_strategy = pool.principal_in_strategy
    BY <1>1, <2>3 DEF Pool
  <2>5. QED
    BY <1>1, <2>1, <2>3, <2>4 DEF Quiet, Gains, MoneyTypes, Free
<1>6. CASE ResumeNormal
  <2>1. UNCHANGED <<part, legacy, queueVars, ledger, custody>> /\ pool' = [pool EXCEPT !.is_emergency = FALSE]
    BY <1>6 DEF ResumeNormal
  <2>2. /\ pool' \in Pool /\ pool'.distributable_yield = pool.distributable_yield
        /\ pool'.is_emergency = FALSE /\ pool'.principal_in_strategy = pool.principal_in_strategy
    BY <1>1, <2>1 DEF Pool
  <2>3. QED
    BY <1>1, <2>1, <2>2 DEF Quiet, Gains, MoneyTypes, Free
<1>7. CASE \/ \E cap \in Caps : set_max_wallet_deposit(cap) \/ set_max_pool_deposit(cap)
           \/ \E amount \in Reserves : set_min_idle_reserve(amount)
  <2>1. UNCHANGED <<pool, part, legacy, queueVars, custody, ledger>>
    BY <1>7 DEF set_max_wallet_deposit, set_max_pool_deposit, set_min_idle_reserve
  <2>2. QED
    BY <1>1, <2>1 DEF Quiet, Gains, MoneyTypes, Free
<1>8. ASSUME NEW amount \in Moves, deploy_to_strategy(amount) PROVE Quiet /\ Gains
  <2>1. amount \in Nat /\ amount <= custody
    BY <1>8, AccountingAssumption DEF deploy_to_strategy
  <2>2. PICK s \in Nat : s = pool.principal_in_strategy + amount
    BY <1>1, <2>1
  <2>3. /\ UNCHANGED <<part, legacy, queueVars, ledger>> /\ custody' = custody - amount
        /\ pool' = [pool EXCEPT !.principal_in_strategy = s]
    BY <1>8, <2>2 DEF deploy_to_strategy
  <2>4. /\ pool' \in Pool /\ pool'.distributable_yield = pool.distributable_yield
        /\ pool'.is_emergency = pool.is_emergency /\ pool'.principal_in_strategy = s
    BY <1>1, <2>3 DEF Pool
  <2>5. QED
    BY <1>1, <2>1, <2>2, <2>3, <2>4 DEF Quiet, Gains, MoneyTypes, Free
<1>9. ASSUME NEW amount \in Moves, recall_from_strategy(amount) PROVE Quiet /\ Gains
  <2>1. amount \in Nat
    BY AccountingAssumption
  <2>2. PICK m \in Nat : m = Min({amount, pool.principal_in_strategy}) /\ m <= pool.principal_in_strategy
    BY <1>1, <2>1, MinOfTwo, Zenon
  <2>3. PICK r \in 1 .. m : /\ custody' = custody + r
                            /\ pool' = [pool EXCEPT !.principal_in_strategy = pool.principal_in_strategy - r]
    BY <1>9, <2>2, Zenon DEF recall_from_strategy
  <2>4. PICK s \in Nat : s = pool.principal_in_strategy - r
    BY <1>1, <2>2
  <2>5. UNCHANGED <<part, legacy, queueVars, ledger>>
    BY <1>9 DEF recall_from_strategy
  <2>6. /\ pool' \in Pool /\ pool'.distributable_yield = pool.distributable_yield
        /\ pool'.is_emergency = pool.is_emergency /\ pool'.principal_in_strategy = s
    BY <1>1, <2>3, <2>4 DEF Pool
  <2>7. QED
    BY <1>1, <2>3, <2>4, <2>5, <2>6 DEF Quiet, Gains, MoneyTypes, Free
<1>10. QED
  BY <1>2, <1>3, <1>4, <1>5, <1>6, <1>7, <1>8, <1>9 DEF QuietStep

\* TriggerEmergency and ReleaseEscrow keep the types, and nothing else is meant.
LEMMA EmergencyEffect ==
    ASSUME MoneyTypes, \/ \E assets \in Assets : TriggerEmergency(assets)
                       \/ \E amount \in Releases : ReleaseEscrow(amount)
    PROVE  Quiet
<1>1. pool \in Pool /\ custody \in Nat /\ ledger \in Nat /\ pool.total_deposited \in Int
  BY PoolFields DEF MoneyTypes
<1>2. ASSUME NEW assets \in Assets, TriggerEmergency(assets) PROVE Quiet
  <2>1. assets \in Int
    BY AccountingAssumption
  <2>2. /\ UNCHANGED <<part, legacy, queueVars, ledger, custody>>
        /\ pool' = [pool EXCEPT !.is_emergency = TRUE, !.emergency_assets = assets]
    BY <1>2 DEF TriggerEmergency
  <2>3. pool' \in Pool
    BY <1>1, <2>1, <2>2 DEF Pool
  <2>4. QED
    BY <1>1, <2>2, <2>3 DEF Quiet, MoneyTypes
<1>3. ASSUME NEW amount \in Releases, ReleaseEscrow(amount) PROVE Quiet
  <2>1. amount \in Nat /\ amount <= custody
    BY <1>3, AccountingAssumption DEF ReleaseEscrow
  <2>2. PICK v \in Int : v = pool.total_deposited - amount
    BY <1>1, <2>1
  <2>3. /\ UNCHANGED <<part, legacy, queueVars, ledger>> /\ custody' = custody - amount
        /\ pool' = [pool EXCEPT !.total_deposited = v]
    BY <1>3, <2>2 DEF ReleaseEscrow
  <2>4. pool' \in Pool
    BY <1>1, <2>3 DEF Pool
  <2>5. QED
    BY <1>1, <2>1, <2>3, <2>4 DEF Quiet, MoneyTypes
<1>4. QED
  BY <1>2, <1>3

-----------------------------------------------------------------------------
(* The types and the queue.                                                  *)

PoolInv == RecordTypes /\ MoneyTypes /\ QueueGood(queue, head, pending)

\* That is TypeOK and QueueConsistent.
LEMMA PoolInvParts == PoolInv <=> TypeOK /\ QueueConsistent
BY TypeParts, QueueParts DEF PoolInv

\* withdraw_locked deletes the record and pays what was ever deposited.
LEMMA LockedEffect ==
    ASSUME RecordTypes, MoneyTypes, NEW who \in Accounts, withdraw_locked(who)
    PROVE  /\ RecordTypes' /\ MoneyTypes' /\ UNCHANGED <<pool, queueVars>> /\ has_participant(who)
           /\ custody' = custody - load_participant(who).deposited
           /\ ~has_participant(who)' /\ DOMAIN part' \subseteq DOMAIN part
           /\ \A a \in Accounts \ {who} :
                 /\ has_participant(a)' <=> has_participant(a)
                 /\ has_participant(a) => load_participant(a)' = load_participant(a)
<1>1. has_participant(who) /\ UNCHANGED <<pool, queueVars, ledger>>
  BY DEF withdraw_locked
<1>2. PICK d \in Nat : d = load_participant(who).deposited
  <2>1. PICK q \in Participant : q = load_participant(who)
    BY <1>1, LoadedRecord
  <2>2. QED
    BY <2>1 DEF Participant
<1>3. d <= custody /\ custody' = custody - d /\ part' = Without(part, who) /\ legacy' = Without(legacy, who)
  BY <1>2 DEF withdraw_locked
<1>4. /\ DOMAIN part' = DOMAIN part \ {who} /\ \A b \in DOMAIN part \ {who} : part'[b] = part[b]
      /\ DOMAIN legacy' = DOMAIN legacy \ {who} /\ \A b \in DOMAIN legacy \ {who} : legacy'[b] = legacy[b]
  BY <1>3 DEF Without
<1>5. ASSUME NEW P \in Records PROVE Without(P, who) \in Records
  <2>1. PICK D \in SUBSET Accounts : P \in [D -> Participant]
    BY DEF Records
  <2>2. Without(P, who) \in [D \ {who} -> Participant] /\ D \ {who} \in SUBSET Accounts
    BY <2>1 DEF Without
  <2>3. QED
    BY <2>2 DEF Records
<1>6. RecordTypes' /\ MoneyTypes'
  BY <1>1, <1>2, <1>3, <1>4, <1>5 DEF RecordTypes, MoneyTypes
<1>7. ~has_participant(who)'
  BY <1>4 DEF has_participant
<1>8. ASSUME NEW a \in Accounts \ {who}
      PROVE  /\ has_participant(a)' <=> has_participant(a)
             /\ has_participant(a) => load_participant(a)' = load_participant(a)
  BY <1>4 DEF has_participant, load_participant
<1>9. QED
  BY <1>1, <1>2, <1>3, <1>4, <1>6, <1>7, <1>8

\* A request enters the queue.
LEMMA QueueJoined ==
    ASSUME PoolInv, NEW who \in Accounts, pending[who] = 0, NEW n \in Nat, enqueue_withdrawal(who, n)
    PROVE  QueueGood(queue, head, pending)'
<1>1. PICK w : w = [who |-> who, amount |-> n, expires_at |-> ledger + Expiry, status |-> "Pending"]
  OBVIOUS
<1>2. ledger + Expiry \in Nat
  BY AccountingAssumption DEF PoolInv, MoneyTypes
<1>3. w \in Request /\ w.who = who /\ w.status = "Pending"
  BY <1>1, <1>2 DEF Request
<1>4. queue' = Append(queue, w) /\ head' = head /\ pending' = [pending EXCEPT ![w.who] = Len(queue) + 1]
  BY <1>1, <1>3 DEF enqueue_withdrawal
<1>5. QueueGood(Append(queue, w), head, [pending EXCEPT ![w.who] = Len(queue) + 1])
  <2>1. QueueGood(queue, head, pending) /\ pending[w.who] = 0
    BY <1>3 DEF PoolInv
  <2>2. QED
    BY ONLY <1>3, <2>1, RowAdded, Zenon
<1>6. QED
  BY <1>4, <1>5

\* A request is cancelled.
LEMMA QueueLeft ==
    ASSUME PoolInv, NEW who \in Accounts, cancel_withdrawal_request(who)
    PROVE  /\ QueueGood(queue, head, pending)' /\ Len(queue') = Len(queue)
           /\ \A i \in 1 .. Len(queue) : /\ queue'[i].who = queue[i].who /\ queue'[i].amount = queue[i].amount
                                         /\ queue'[i].status = "Pending" => queue[i].status = "Pending"
<1>1. PICK i \in Nat : i = pending[who]
  BY DEF PoolInv, QueueGood
<1>2. i \in 1 .. Len(queue) /\ queue \in Seq(Request) /\ queue[i] \in Request
  BY <1>1 DEF PoolInv, QueueGood, cancel_withdrawal_request
<1>3. PICK r \in Request : r = queue[i] /\ r.who = who /\ r.status = "Pending"
  BY <1>1, <1>2 DEF cancel_withdrawal_request
<1>4. PICK w : w = [r EXCEPT !.status = "Cancelled"]
  OBVIOUS
<1>5. w \in Request /\ w.who = r.who /\ w.status = "Cancelled" /\ w.amount = r.amount
  BY <1>3, <1>4 DEF Request
<1>6. queue' = [queue EXCEPT ![i] = w] /\ pending' = [pending EXCEPT ![queue[i].who] = 0] /\ head' = head
  BY <1>1, <1>2, <1>3, <1>4 DEF cancel_withdrawal_request, Unguard
<1>7. QueueGood([queue EXCEPT ![i] = w], head, [pending EXCEPT ![queue[i].who] = 0])
  <2>1. QueueGood(queue, head, pending) /\ queue[i].status = "Pending" /\ w.who = queue[i].who
        /\ w.status # "Pending"
    BY <1>3, <1>5 DEF PoolInv
  <2>2. QED
    BY ONLY <1>2, <1>5, <2>1, RowSettled, Zenon
<1>8. Len(queue') = Len(queue) /\ queue'[i] = w /\ \A j \in 1 .. Len(queue) : j # i => queue'[j] = queue[j]
  BY <1>2, <1>6
<1>9. QED
  BY <1>3, <1>5, <1>6, <1>7, <1>8

\* A fulfilment.
LEMMA QueueServed ==
    ASSUME PoolInv, NEW max, fulfill_withdrawal_queue(max)
    PROVE  PoolInv' /\ UNCHANGED <<pool, ledger>> /\ Len(queue') = Len(queue)
<1>1. PICK e \in LoopState : e = FulfillLoop(max) /\ FulfillSound(e)
  BY PoolInvParts, FulfillEnds
<1>2. /\ queue' = e.queue /\ head' = e.head /\ pending' = e.pending /\ part' = e.part /\ custody' = e.custody
      /\ legacy' = [a \in DOMAIN legacy \ DOMAIN e.part |-> legacy[a]] /\ UNCHANGED <<pool, ledger>>
  BY <1>1 DEF fulfill_withdrawal_queue
<1>3. e.part \in Records /\ e.custody \in Nat
  BY DEF LoopState
<1>4. legacy' \in Records /\ DOMAIN legacy' \subseteq LegacyUsers
  BY <1>2 DEF PoolInv, RecordTypes, Records
<1>5. RecordTypes' /\ MoneyTypes'
  BY <1>2, <1>3, <1>4 DEF PoolInv, RecordTypes, MoneyTypes
<1>6. QueueGood(queue, head, pending)' /\ Len(queue') = Len(queue)
  BY <1>1, <1>2 DEF FulfillSound
<1>7. QED
  BY <1>2, <1>5, <1>6 DEF PoolInv

\* The operations that change one record and leave the queue alone.
RecordStep(who) ==
  \/ join(who)
  \/ \E amount \in Amounts : deposit(who, amount)
  \/ \E amount \in Amounts, ledgers \in Lockups : deposit_with_duration(who, amount, ledgers)
  \/ claim_reward(who)
  \/ emergency_withdraw(who)
  \/ sweep_unclaimed(who)
  \/ \E amount \in Yields : credit_yield(who, amount)

\* They keep the types.
LEMMA RecordStepTypes ==
    ASSUME RecordTypes, MoneyTypes, NEW who \in Accounts, RecordStep(who)
    PROVE  RecordTypes' /\ MoneyTypes' /\ UNCHANGED queueVars
<1>1. Amounts \subseteq Nat /\ Yields \subseteq Nat
  BY AccountingAssumption
<1>2. \E q \in Participant, p \in Participant, f \in Int : Changes(who, q, p, f)
  <2>1. CASE join(who)
    BY <2>1, JoinEffect
  <2>2. CASE \/ \E amount \in Amounts : deposit(who, amount)
             \/ \E amount \in Amounts, ledgers \in Lockups : deposit_with_duration(who, amount, ledgers)
    <3>1. PICK amount \in Nat : \/ deposit(who, amount)
                                \/ \E ledgers \in Lockups : deposit_with_duration(who, amount, ledgers)
      BY <1>1, <2>2
    <3>2. PICK q \in Participant, p \in Participant : Changes(who, q, p, amount)
      BY <3>1, DepositEffect, Zenon
    <3>3. QED
      BY <3>2
  <2>3. CASE claim_reward(who) \/ sweep_unclaimed(who)
    <3>1. PICK q \in Participant, p \in Participant, n \in Nat : Changes(who, q, p, -n)
      BY <2>3, ClaimEffect
    <3>2. QED
      BY <3>1
  <2>4. CASE emergency_withdraw(who)
    BY <2>4, ExitEffect
  <2>5. CASE \E amount \in Yields : credit_yield(who, amount)
    BY <1>1, <2>5, CreditEffect
  <2>6. QED
    BY <2>1, <2>2, <2>3, <2>4, <2>5 DEF RecordStep
<1>3. RecordTypes' /\ MoneyTypes'
  BY <1>2, RecordSaved DEF Changes
<1>4. UNCHANGED queueVars
  BY DEF RecordStep, join, deposit, deposit_with_duration, claim_reward, emergency_withdraw, sweep_unclaimed,
     credit_yield
<1>5. QED
  BY <1>3, <1>4

\* The kinds of step there are.
LEMMA StepKinds ==
    ASSUME Next
    PROVE  \/ QuietStep
           \/ \E assets \in Assets : TriggerEmergency(assets)
           \/ \E amount \in Releases : ReleaseEscrow(amount)
           \/ \E prize \in Prizes : draw_winner(prize)
           \/ \E max \in Batches : fulfill_withdrawal_queue(max)
           \/ \E who \in Accounts : \/ RecordStep(who) \/ cancel_withdrawal_request(who)
                                    \/ who \in WithdrawUsers /\ withdraw(who)
                                    \/ who \in LockedUsers /\ withdraw_locked(who)
BY DEF Next, AccountStep, GovernedStep, QuietStep, RecordStep

\* The pool's invariant is inductive.
LEMMA PoolStep ==
    ASSUME PoolInv, [Next]_vars
    PROVE  PoolInv'
<1>1. RecordTypes /\ MoneyTypes /\ QueueGood(queue, head, pending)
  BY DEF PoolInv
<1>2. ASSUME Quiet PROVE PoolInv'
  BY <1>1, <1>2 DEF Quiet, PoolInv, RecordTypes, queueVars
<1>3. CASE QuietStep
  BY <1>1, <1>2, <1>3, QuietEffect
<1>4. CASE (\E assets \in Assets : TriggerEmergency(assets)) \/ (\E amount \in Releases : ReleaseEscrow(amount))
  BY <1>1, <1>2, <1>4, EmergencyEffect
<1>5. ASSUME NEW prize \in Prizes, draw_winner(prize) PROVE PoolInv'
  <2>1. prize \in Nat /\ Admin \in Accounts
    BY AccountingAssumption
  <2>2. PICK q \in Participant, p \in Participant : Changes(Admin, q, p, 0)
    BY <1>1, <1>5, <2>1, DrawEffect
  <2>3. RecordTypes' /\ MoneyTypes'
    BY <1>1, <2>1, <2>2, RecordSaved DEF Changes
  <2>4. UNCHANGED queueVars
    BY <1>5 DEF draw_winner
  <2>5. QED
    BY <1>1, <2>3, <2>4 DEF PoolInv, queueVars
<1>6. ASSUME NEW max \in Batches, fulfill_withdrawal_queue(max) PROVE PoolInv'
  BY <1>6, QueueServed
<1>7. ASSUME NEW who \in Accounts, RecordStep(who) PROVE PoolInv'
  <2>1. RecordTypes' /\ MoneyTypes' /\ UNCHANGED queueVars
    BY <1>1, <1>7, RecordStepTypes
  <2>2. QED
    BY <1>1, <2>1 DEF PoolInv, queueVars
<1>8. ASSUME NEW who \in Accounts, cancel_withdrawal_request(who) PROVE PoolInv'
  <2>1. UNCHANGED <<part, legacy, pool, custody, ledger>>
    BY <1>8 DEF cancel_withdrawal_request
  <2>2. QueueGood(queue, head, pending)'
    BY <1>8, QueueLeft
  <2>3. QED
    BY <1>1, <2>1, <2>2 DEF PoolInv, RecordTypes, MoneyTypes
<1>9. ASSUME NEW who \in Accounts, withdraw(who) PROVE PoolInv'
  <2>1. PICK q \in Participant, p \in Participant, n \in Nat :
          /\ Changes(who, q, p, -n)
          /\ UNCHANGED queueVars \/ (unwithdrawn(q) \in Nat /\ enqueue_withdrawal(who, unwithdrawn(q)))
    BY <1>1, <1>9, WithdrawEffect
  <2>2. RecordTypes' /\ MoneyTypes'
    BY <1>1, <2>1, RecordSaved DEF Changes
  <2>3. pending[who] = 0
    BY <1>9 DEF withdraw, NotQueued
  <2>4. QueueGood(queue, head, pending)'
    <3>1. CASE UNCHANGED queueVars
      BY <1>1, <3>1 DEF queueVars
    <3>2. CASE unwithdrawn(q) \in Nat /\ enqueue_withdrawal(who, unwithdrawn(q))
      BY <2>3, <3>2, QueueJoined
    <3>3. QED
      BY <2>1, <3>1, <3>2
  <2>5. QED
    BY <2>2, <2>4 DEF PoolInv
<1>10. ASSUME NEW who \in Accounts, withdraw_locked(who) PROVE PoolInv'
  <2>1. RecordTypes' /\ MoneyTypes' /\ UNCHANGED queueVars
    BY <1>1, <1>10, LockedEffect
  <2>2. QED
    BY <1>1, <2>1 DEF PoolInv, queueVars
<1>11. CASE UNCHANGED vars
  BY <1>1, <1>11 DEF vars, queueVars, PoolInv, RecordTypes, MoneyTypes
<1>12. QED
  <2>1. CASE Next
    BY <2>1, <1>3, <1>4, <1>5, <1>6, <1>7, <1>8, <1>9, <1>10, StepKinds
  <2>2. QED
    BY <2>1, <1>11

\* The pool's invariant holds initially.
LEMMA PoolStart ==
    ASSUME Init
    PROVE  PoolInv
<1>1. PICK n \in Nat : n = LegacyPrincipal * Cardinality(LegacyUsers)
  <2>1. IsFiniteSet(LegacyUsers)
    BY AccountingAssumption, FS_Subset
  <2>2. Cardinality(LegacyUsers) \in Nat
    BY <2>1, FS_CardinalityType
  <2>3. QED
    BY <2>2 DEF LegacyPrincipal
<1>2. pool \in Pool
  BY <1>1 DEF Init, Pool
<1>3. custody \in Nat /\ ledger \in Nat
  BY <1>1 DEF Init
<1>4. part \in Records
  <2>1. part \in [{} -> Participant] /\ {} \in SUBSET Accounts
    BY DEF Init
  <2>2. QED
    BY <2>1 DEF Records
<1>5. legacy \in Records /\ DOMAIN legacy \subseteq LegacyUsers
  <2>1. PICK p : p = [deposited |-> LegacyPrincipal, withdrawn |-> 0, locked_until |-> 0,
                      yield |-> 0, prize |-> 0, claimed |-> 0]
    OBVIOUS
  <2>2. p \in Participant
    BY <2>1 DEF Participant, LegacyPrincipal
  <2>3. legacy = [a \in LegacyUsers |-> p] /\ LegacyUsers \in SUBSET Accounts
    BY <2>1, AccountingAssumption DEF Init
  <2>4. QED
    BY <2>2, <2>3 DEF Records
<1>6. QueueGood(queue, head, pending)
  BY DEF Init, QueueGood
<1>7. QED
  BY <1>2, <1>3, <1>4, <1>5, <1>6 DEF PoolInv, RecordTypes, MoneyTypes

\* At every moment the records, the queue and the balances are of their types,
\* and a participant's duplicate guard points to the one request of his that is
\* pending, which the head has not passed.
THEOREM QueueStaysConsistent == Spec => [](TypeOK /\ QueueConsistent)
<1>1. Spec => []PoolInv
  BY PoolStart, PoolStep, PTL DEF Spec
<1>2. QED
  BY <1>1, PoolInvParts, PTL

\* A step pays a request only if it settles every earlier one.
PaysInOrder ==
  \A j \in 1 .. Len(queue) :
    queue'[j].amount < queue[j].amount => \A i \in 1 .. (j - 1) : queue'[i].status # "Pending"

\* Every step pays in order.
LEMMA StepPaysInOrder ==
    ASSUME PoolInv, [Next]_vars
    PROVE  PaysInOrder
<1>1. RecordTypes /\ MoneyTypes /\ QueueGood(queue, head, pending) /\ queue \in Seq(Request) /\ Len(queue) \in Nat
  BY DEF PoolInv, QueueGood
<1>2. \A j \in 1 .. Len(queue) : queue[j].amount \in Nat
  <2>1. \A j \in 1 .. Len(queue) : queue[j] \in Request
    BY <1>1
  <2>2. QED
    BY <2>1 DEF Request
<1>3. ASSUME \A j \in 1 .. Len(queue) : queue'[j].amount = queue[j].amount PROVE PaysInOrder
  BY <1>2, <1>3 DEF PaysInOrder
<1>4. CASE UNCHANGED queue
  BY <1>3, <1>4
<1>5. ASSUME NEW max \in Batches, fulfill_withdrawal_queue(max) PROVE PaysInOrder
  <2>1. PICK e \in LoopState : e = FulfillLoop(max) /\ FulfillSound(e)
    BY PoolInvParts, FulfillEnds
  <2>2. queue' = e.queue
    BY <1>5, <2>1 DEF fulfill_withdrawal_queue
  <2>3. ASSUME NEW j \in 1 .. Len(queue), e.queue[j].amount < queue[j].amount, NEW i \in 1 .. (j - 1)
        PROVE  e.queue[i].status # "Pending"
    <3>1. j <= e.head /\ e.head \in Nat
      BY <2>1, <2>3 DEF FulfillSound, LoopState
    <3>2. i \in 1 .. Len(e.queue) /\ ~(i >= e.head)
      BY <1>1, <2>1, <3>1 DEF FulfillSound
    <3>3. QED
      BY <2>1, <3>2 DEF FulfillSound, QueueGood
  <2>4. QED
    BY <2>2, <2>3 DEF PaysInOrder
<1>6. ASSUME NEW who \in Accounts, withdraw(who) PROVE PaysInOrder
  <2>1. CASE UNCHANGED queueVars
    BY <1>4, <2>1 DEF queueVars
  <2>2. CASE \E w : queue' = Append(queue, w)
    BY <1>1, <1>3, <2>2
  <2>3. QED
    BY <1>6, <2>1, <2>2 DEF withdraw, enqueue_withdrawal
<1>7. ASSUME NEW who \in Accounts, cancel_withdrawal_request(who) PROVE PaysInOrder
  BY <1>3, <1>7, QueueLeft
<1>8. CASE QuietStep
  BY <1>1, <1>4, <1>8, QuietEffect DEF Quiet, queueVars
<1>9. CASE (\E assets \in Assets : TriggerEmergency(assets)) \/ (\E amount \in Releases : ReleaseEscrow(amount))
  BY <1>1, <1>4, <1>9, EmergencyEffect DEF Quiet, queueVars
<1>10. CASE \E prize \in Prizes : draw_winner(prize)
  BY <1>4, <1>10 DEF draw_winner, queueVars
<1>11. ASSUME NEW who \in Accounts, RecordStep(who) PROVE PaysInOrder
  BY <1>1, <1>4, <1>11, RecordStepTypes DEF queueVars
<1>12. ASSUME NEW who \in Accounts, withdraw_locked(who) PROVE PaysInOrder
  BY <1>4, <1>12 DEF withdraw_locked, queueVars
<1>13. CASE UNCHANGED vars
  BY <1>4, <1>13 DEF vars, queueVars
<1>14. QED
  <2>1. CASE Next
    BY <2>1, <1>5, <1>6, <1>7, <1>8, <1>9, <1>10, <1>11, <1>12, StepKinds
  <2>2. QED
    BY <2>1, <1>13

\* fulfill_withdrawal_queue serves first come, first served: the step that pays
\* a request leaves no earlier request pending, whatever the batch, the idle
\* balance, cancellations and expiries.
THEOREM QueueIsServedInOrder == Spec => QueueFIFO
<1>1. PoolInv /\ [Next]_vars => [PaysInOrder]_vars
  BY StepPaysInOrder
<1>2. Spec => [][PaysInOrder]_vars
  BY <1>1, PoolStart, PoolStep, PTL DEF Spec
<1>3. QED
  BY <1>2 DEF QueueFIFO, PaysInOrder

-----------------------------------------------------------------------------
(* The rate of the emergency exit.                                           *)

\* A share rounded down is not more than the share.
LEMMA ShareRoundsDown ==
    ASSUME NEW m \in Nat, NEW d \in Nat, d # 0
    PROVE  m \div d \in Nat /\ (m \div d) * d <= m
<1>1. m \in Int /\ d \in Int /\ d > 0
  OBVIOUS
<1>2. m \div d \in Int /\ m \div d >= 0
  BY <1>1
<1>3. (m \div d) * d <= m
  BY <1>1
<1>4. QED
  BY <1>2, <1>3

\* O of the T deposited units leave with P of the assets A, P no more than
\* their share: the rate of the rest does not fall.
LEMMA RateKept ==
    ASSUME NEW A \in Int, NEW T \in Int, NEW O \in Int, NEW P \in Int, P * T <= O * A
    PROVE  (A - P) * T >= A * (T - O)
<1>1. PICK x \in Int, y \in Int, z \in Int : x = A * T /\ y = P * T /\ z = O * A
  OBVIOUS
<1>2. (A - P) * T = x - y /\ A * (T - O) = x - z
  BY <1>1
<1>3. QED
  BY <1>1, <1>2

ExitKeepsRate ==
  (/\ pool.is_emergency /\ pool.emergency_assets >= 0
   /\ pool'.total_deposited < pool.total_deposited)
     => pool'.emergency_assets * pool.total_deposited >= pool.emergency_assets * pool'.total_deposited

\* The total falls only by an exit and by a release.
LEMMA TotalFalls ==
    ASSUME PoolInv, [Next]_vars, pool'.total_deposited < pool.total_deposited
    PROVE  (\E who \in Accounts : emergency_withdraw(who)) \/ (\E amount \in Releases : ReleaseEscrow(amount))
<1>1. RecordTypes /\ MoneyTypes /\ pool \in Pool /\ pool.total_deposited \in Int
  BY PoolFields DEF PoolInv, MoneyTypes
<1>2. ASSUME pool'.total_deposited = pool.total_deposited PROVE FALSE
  BY <1>1, <1>2
<1>3. ASSUME UNCHANGED pool PROVE FALSE
  BY <1>2, <1>3
<1>4. CASE QuietStep
  <2>1. \/ UNCHANGED pool
        \/ \E y : pool' = [pool EXCEPT !.distributable_yield = y]
        \/ \E y : pool' = [pool EXCEPT !.claim_deadline = y]
        \/ \E y : pool' = [pool EXCEPT !.emergency_assets = y]
        \/ \E y : pool' = [pool EXCEPT !.is_emergency = y]
        \/ \E y : pool' = [pool EXCEPT !.principal_in_strategy = y]
    BY <1>4, Zenon DEF QuietStep, Close, add_yield, set_claim_deadline, Recapitalize, ResumeNormal, set_max_wallet_deposit,
       set_max_pool_deposit, set_min_idle_reserve, deploy_to_strategy, recall_from_strategy
  <2>2. pool'.total_deposited = pool.total_deposited
    BY <1>1, <2>1 DEF Pool
  <2>3. QED
    BY <1>2, <2>2
<1>5. ASSUME NEW assets \in Assets, TriggerEmergency(assets) PROVE FALSE
  BY <1>1, <1>2, <1>5 DEF TriggerEmergency, Pool
<1>6. ASSUME NEW who \in Accounts, NEW amount \in Amounts,
             deposit(who, amount) \/ \E ledgers \in Lockups : deposit_with_duration(who, amount, ledgers)
      PROVE  FALSE
  <2>1. PICK v : v = pool.total_deposited + amount
    OBVIOUS
  <2>2. pool' = [pool EXCEPT !.total_deposited = v]
    BY <1>6, <2>1 DEF deposit, deposit_with_duration, Receive
  <2>3. pool'.total_deposited = v /\ amount \in Nat
    BY <1>1, <2>2, AccountingAssumption DEF Pool
  <2>4. QED
    BY <1>1, <2>1, <2>3
<1>7. ASSUME NEW who \in Accounts, sweep_unclaimed(who) \/ \E amount \in Yields : credit_yield(who, amount) PROVE FALSE
  <2>1. (\E y : pool' = [pool EXCEPT !.unclaimed_swept = y]) \/ (\E y : pool' = [pool EXCEPT !.distributable_yield = y])
    BY <1>7, Zenon DEF sweep_unclaimed, credit_yield
  <2>2. QED
    BY <1>1, <1>2, <2>1 DEF Pool
<1>8. ASSUME NEW who \in Accounts, \/ join(who) \/ claim_reward(who) \/ withdraw(who) \/ withdraw_locked(who)
                                   \/ cancel_withdrawal_request(who)
      PROVE  FALSE
  BY <1>3, <1>8 DEF join, claim_reward, withdraw, withdraw_locked, cancel_withdrawal_request
<1>9. CASE (\E prize \in Prizes : draw_winner(prize)) \/ (\E max \in Batches : fulfill_withdrawal_queue(max))
  BY <1>3, <1>9 DEF draw_winner, fulfill_withdrawal_queue
<1>10. CASE UNCHANGED vars
  BY <1>3, <1>10 DEF vars
<1>11. CASE Next
  <2>1. ASSUME NEW who \in Accounts, RecordStep(who) PROVE emergency_withdraw(who)
    BY <1>6, <1>7, <1>8, <2>1 DEF RecordStep
  <2>2. QED
    BY <1>4, <1>5, <1>8, <1>9, <1>11, <2>1, StepKinds
<1>12. QED
  BY <1>10, <1>11

\* Every step keeps the rate.
LEMMA StepKeepsRate ==
    ASSUME PoolInv, [Next]_vars
    PROVE  ExitKeepsRate
<1> SUFFICES ASSUME pool.is_emergency, pool.emergency_assets >= 0, pool'.total_deposited < pool.total_deposited
             PROVE  pool'.emergency_assets * pool.total_deposited >= pool.emergency_assets * pool'.total_deposited
  BY DEF ExitKeepsRate
<1>1. RecordTypes /\ MoneyTypes /\ pool \in Pool
  BY DEF PoolInv, MoneyTypes
<1>2. PICK A \in Int, T \in Int : A = pool.emergency_assets /\ T = pool.total_deposited
  BY <1>1, PoolFields
<1>3. ASSUME NEW O \in Int, NEW P \in Int, P * T <= O * A,
             pool'.total_deposited = T - O, pool'.emergency_assets = A - P
      PROVE  pool'.emergency_assets * T >= A * pool'.total_deposited
  BY <1>3, RateKept
<1>4. ASSUME NEW who \in Accounts, emergency_withdraw(who)
      PROVE  pool'.emergency_assets * T >= A * pool'.total_deposited
  <2>1. PICK q \in Participant : q = load_participant(who)
    BY <1>1, <1>4, LoadedRecord DEF emergency_withdraw
  <2>2. PICK O \in Nat : O = unwithdrawn(q)
    BY <1>4, <2>1 DEF emergency_withdraw, unwithdrawn, Participant
  <2>3. PICK P \in Nat : P = emergency_payout(O) /\ P * T <= O * A
    <3>1. CASE T > 0 /\ A > 0
      <4>1. PICK m \in Nat : m = O * A
        BY <3>1
      <4>2. m \div T \in Nat /\ (m \div T) * T <= m
        BY <3>1, ShareRoundsDown
      <4>3. QED
        BY <1>2, <3>1, <4>1, <4>2 DEF emergency_payout
    <3>2. CASE ~(T > 0 /\ A > 0)
      <4>1. emergency_payout(O) = 0
        BY <1>2, <3>2 DEF emergency_payout
      <4>2. A \in Nat
        BY <1>2
      <4>3. 0 * T = 0 /\ O * A >= 0
        BY <4>2
      <4>4. QED
        BY <4>1, <4>3
    <3>3. QED
      BY <3>1, <3>2
  <2>4. PICK x \in Int, y \in Int : x = T - O /\ y = A - P
    OBVIOUS
  <2>5. pool' = [pool EXCEPT !.total_deposited = x, !.emergency_assets = y]
    BY <1>2, <1>4, <2>1, <2>2, <2>3, <2>4 DEF emergency_withdraw
  <2>6. pool'.total_deposited = x /\ pool'.emergency_assets = y
    BY <1>1, <2>5 DEF Pool
  <2>7. QED
    BY <1>3, <2>3, <2>4, <2>6
<1>5. ASSUME NEW amount \in Releases, ReleaseEscrow(amount)
      PROVE  pool'.emergency_assets * T >= A * pool'.total_deposited
  <2>1. amount \in Nat
    BY AccountingAssumption
  <2>2. PICK x \in Int : x = T - amount
    BY <2>1
  <2>3. pool' = [pool EXCEPT !.total_deposited = x]
    BY <1>2, <1>5, <2>2 DEF ReleaseEscrow
  <2>4. pool'.total_deposited = x /\ pool'.emergency_assets = A
    BY <1>1, <1>2, <2>3 DEF Pool
  <2>5. 0 * T <= amount * A
    <3>1. A \in Nat
      BY <1>2
    <3>2. QED
      BY <2>1, <3>1
  <2>6. QED
    BY <1>3, <2>1, <2>2, <2>4, <2>5
<1>6. QED
  BY <1>2, <1>4, <1>5, TotalFalls

\* An emergency exit never worsens the rate at which the others exit, whatever
\* the deposits, the assets and the order of the exits.
THEOREM ExitsKeepTheRate == Spec => EmergencyRateKept
<1>1. PoolInv /\ [Next]_vars => [ExitKeepsRate]_vars
  BY StepKeepsRate
<1>2. Spec => [][ExitKeepsRate]_vars
  BY <1>1, PoolStart, PoolStep, PTL DEF Spec
<1>3. QED
  BY <1>2 DEF EmergencyRateKept, ExitKeepsRate

-----------------------------------------------------------------------------
(* The books: what two tables of records, migrated and legacy, say is owed.  *)

Held(P, L) == DOMAIN P \cup DOMAIN L

RecordIn(P, L, a) == IF a \in DOMAIN P THEN P[a] ELSE L[a]

OwedIn(P, L, a) == IF a \in Held(P, L) THEN unwithdrawn(RecordIn(P, L, a)) ELSE 0

UnclaimedIn(P, L, a) == IF a \in Held(P, L) THEN unclaimed(RecordIn(P, L, a)) ELSE 0

Books(P, L) ==
  SumFunction([a \in Accounts |-> OwedIn(P, L, a)]) + SumFunction([a \in Accounts |-> UnclaimedIn(P, L, a)])

\* The tables differ in a's record only.
OthersSame(P, L, Q, M, a) ==
  \A b \in Accounts \ {a} : /\ b \in Held(Q, M) <=> b \in Held(P, L)
                            /\ b \in Held(P, L) => RecordIn(Q, M, b) = RecordIn(P, L, b)

\* The sums are of numbers.
LEMMA DuesAreNumbers ==
    ASSUME NEW P \in Records, NEW L \in Records, NEW a \in Accounts
    PROVE  /\ OwedIn(P, L, a) \in Int /\ UnclaimedIn(P, L, a) \in Int
           /\ a \in Held(P, L) => RecordIn(P, L, a) \in Participant
<1>1. a \in Held(P, L) => RecordIn(P, L, a) \in Participant
  BY DEF Held, RecordIn, Records
<1>2. ASSUME NEW p \in Participant PROVE unwithdrawn(p) \in Int /\ unclaimed(p) \in Int
  BY DEF Participant, unwithdrawn, unclaimed
<1>3. QED
  BY <1>1, <1>2 DEF OwedIn, UnclaimedIn

\* One record changes: the books change by what it is owed.
LEMMA BookWritten ==
    ASSUME NEW P \in Records, NEW L \in Records, NEW Q \in Records, NEW M \in Records, NEW a \in Accounts,
           OthersSame(P, L, Q, M, a)
    PROVE  /\ Books(P, L) \in Int
           /\ Books(Q, M) = Books(P, L) - OwedIn(P, L, a) - UnclaimedIn(P, L, a)
                            + OwedIn(Q, M, a) + UnclaimedIn(Q, M, a)
<1>1. IsFiniteSet(Accounts)
  BY AccountingAssumption
<1>2. PICK f, g : f = [x \in Accounts |-> OwedIn(P, L, x)] /\ g = [x \in Accounts |-> OwedIn(Q, M, x)]
  OBVIOUS
<1>3. PICK u, v : u = [x \in Accounts |-> UnclaimedIn(P, L, x)] /\ v = [x \in Accounts |-> UnclaimedIn(Q, M, x)]
  OBVIOUS
<1>4. f \in [Accounts -> Int] /\ g \in [Accounts -> Int] /\ u \in [Accounts -> Int] /\ v \in [Accounts -> Int]
  BY <1>2, <1>3, DuesAreNumbers
<1>5. \A x \in Accounts \ {a} : g[x] = f[x] /\ v[x] = u[x]
  BY <1>2, <1>3 DEF OthersSame, OwedIn, UnclaimedIn
<1>6. SumFunction(f) \in Int /\ SumFunction(g) = SumFunction(f) - f[a] + g[a]
  BY <1>1, <1>4, <1>5, SumUpdate
<1>7. SumFunction(u) \in Int /\ SumFunction(v) = SumFunction(u) - u[a] + v[a]
  BY <1>1, <1>4, <1>5, SumUpdate
<1>8. Books(P, L) = SumFunction(f) + SumFunction(u) /\ Books(Q, M) = SumFunction(g) + SumFunction(v)
  BY <1>2, <1>3 DEF Books
<1>9. f[a] = OwedIn(P, L, a) /\ g[a] = OwedIn(Q, M, a) /\ u[a] = UnclaimedIn(P, L, a) /\ v[a] = UnclaimedIn(Q, M, a)
  BY <1>2, <1>3
<1>10. f[a] \in Int /\ g[a] \in Int /\ u[a] \in Int /\ v[a] \in Int
  BY <1>4
<1>11. Books(P, L) \in Int
       /\ Books(Q, M) = Books(P, L) - f[a] - u[a] + g[a] + v[a]
  BY <1>6, <1>7, <1>8, <1>10
<1>12. QED
  BY <1>9, <1>11

\* The tables in force.
LEMMA BooksInForce ==
    /\ Books(part, legacy) = Principal + Rewards
    /\ \A a : (a \in Held(part, legacy) <=> has_participant(a)) /\ RecordIn(part, legacy, a) = load_participant(a)
    /\ \A a : OwedIn(part, legacy, a) = Owed(a)
<1>1. \A a : OwedIn(part, legacy, a) = Owed(a) /\ UnclaimedIn(part, legacy, a) = Unclaimed(a)
  BY DEF OwedIn, UnclaimedIn, Owed, Unclaimed, Held, RecordIn, has_participant, load_participant
<1>2. Books(part, legacy) = Principal + Rewards
  BY <1>1 DEF Books, Principal, Rewards
<1>3. QED
  BY <1>1, <1>2 DEF Held, RecordIn, has_participant, load_participant

\* Nobody was paid more than is theirs, and who does not withdraw was not paid.
FairFor(a, p) ==
  /\ 0 <= p.withdrawn /\ p.withdrawn <= p.deposited /\ p.claimed <= p.yield + p.prize
  /\ a \notin WithdrawUsers => p.withdrawn = 0

FairTables(P, L) == \A a \in Held(P, L) : FairFor(a, RecordIn(P, L, a))

\* What is owed under fair tables is never negative.
LEMMA FairDues ==
    ASSUME NEW P \in Records, NEW L \in Records, FairTables(P, L), NEW a \in Accounts
    PROVE  OwedIn(P, L, a) >= 0 /\ UnclaimedIn(P, L, a) >= 0
<1>1. ASSUME NEW p \in Participant, FairFor(a, p) PROVE unwithdrawn(p) >= 0 /\ unclaimed(p) >= 0
  BY <1>1 DEF Participant, FairFor, unwithdrawn, unclaimed
<1>2. QED
  BY <1>1, DuesAreNumbers DEF FairTables, OwedIn, UnclaimedIn

\* A fair record stays fair when no more is paid than is owed.
LEMMA FairShift ==
    ASSUME NEW a, NEW q \in Participant, NEW p \in Participant, FairFor(a, q),
           NEW d \in Nat, NEW w \in Nat, NEW r \in Nat, NEW c \in Nat, Shifts(q, p, d, w, r, c),
           w <= unwithdrawn(q) + d, c <= unclaimed(q) + r, a \in WithdrawUsers \/ w = 0
    PROVE  /\ FairFor(a, p) /\ unwithdrawn(p) = unwithdrawn(q) + d - w /\ unclaimed(p) = unclaimed(q) + r - c
           /\ unwithdrawn(q) \in Int /\ unclaimed(q) \in Int
<1>1. /\ q.deposited \in Nat /\ q.withdrawn \in Int /\ q.yield \in Nat /\ q.prize \in Nat /\ q.claimed \in Nat
      /\ p.deposited \in Nat /\ p.withdrawn \in Int /\ p.yield \in Nat /\ p.prize \in Nat /\ p.claimed \in Nat
  BY DEF Participant
<1>2. QED
  BY <1>1 DEF FairFor, Shifts, unwithdrawn, unclaimed

-----------------------------------------------------------------------------
(* Solvency, when nobody uses both ways to withdraw, no unfunded prize is    *)
(* drawn, and no emergency or escrow release is governed.                    *)

\* Pending requests are of accounts that withdraw, on file, and no larger than
\* what is left of their principal.
RowsBacked(q, P) ==
  \A i \in 1 .. Len(q) : q[i].status = "Pending" =>
    /\ q[i].who \in DOMAIN P /\ q[i].who \in WithdrawUsers
    /\ q[i].amount <= unwithdrawn(P[q[i].who])

Covered ==
  /\ pool.is_emergency = FALSE /\ FairTables(part, legacy) /\ RowsBacked(queue, part)
  /\ Books(part, legacy) <= Free

BackedInv == PoolInv /\ Covered

\* The record an operation starts from is fair, and no more is owed on it than
\* on the record on file.
LEMMA StartsFair ==
    ASSUME RecordTypes, MoneyTypes, FairTables(part, legacy), NEW who \in Accounts, NEW q \in Participant, Starts(who, q)
    PROVE  /\ FairFor(who, q)
           /\ unwithdrawn(q) <= OwedIn(part, legacy, who) /\ unclaimed(q) <= UnclaimedIn(part, legacy, who)
<1>1. part \in Records /\ legacy \in Records
  BY DEF RecordTypes
<1>2. unwithdrawn(q) \in Int /\ unclaimed(q) \in Int
  BY DEF Participant, unwithdrawn, unclaimed
<1>3. CASE who \in Held(part, legacy) /\ q = RecordIn(part, legacy, who)
  <2>1. unwithdrawn(q) = OwedIn(part, legacy, who) /\ unclaimed(q) = UnclaimedIn(part, legacy, who)
    BY <1>3 DEF OwedIn, UnclaimedIn
  <2>2. QED
    BY <1>2, <1>3, <2>1 DEF FairTables
<1>4. CASE q = NewParticipant
  <2>1. FairFor(who, q) /\ unwithdrawn(q) = 0 /\ unclaimed(q) = 0
    BY <1>4, NewRecord DEF FairFor
  <2>2. OwedIn(part, legacy, who) >= 0 /\ UnclaimedIn(part, legacy, who) >= 0
    BY <1>1, FairDues
  <2>3. QED
    BY <2>1, <2>2
<1>5. QED
  BY <1>3, <1>4 DEF Starts, Held, RecordIn, has_participant, load_participant

\* An operation on one record that takes no more from the pool than it takes
\* off the books keeps the books fair and covered.
LEMMA ChangeKeepsBooks ==
    ASSUME RecordTypes, MoneyTypes, FairTables(part, legacy), Books(part, legacy) <= Free,
           NEW who \in Accounts, NEW q \in Participant, NEW p \in Participant, NEW f \in Int, Changes(who, q, p, f),
           NEW d \in Nat, NEW w \in Nat, NEW r \in Nat, NEW c \in Nat, Shifts(q, p, d, w, r, c),
           w <= unwithdrawn(q) + d, c <= unclaimed(q) + r, who \in WithdrawUsers \/ w = 0, d + r - w - c <= f
    PROVE  FairTables(part', legacy') /\ Books(part', legacy') <= Free'
<1>1. part \in Records /\ legacy \in Records /\ part' \in Records /\ legacy' \in Records
  BY RecordSaved DEF RecordTypes, Changes
<1>2. Starts(who, q) /\ save_participant(who, p) /\ Free' = Free + f
  BY DEF Changes
<1>3. /\ FairFor(who, q)
      /\ unwithdrawn(q) <= OwedIn(part, legacy, who) /\ unclaimed(q) <= UnclaimedIn(part, legacy, who)
  BY <1>2, StartsFair
<1>4. /\ FairFor(who, p) /\ unwithdrawn(p) = unwithdrawn(q) + d - w /\ unclaimed(p) = unclaimed(q) + r - c
      /\ unwithdrawn(q) \in Int /\ unclaimed(q) \in Int
  BY <1>3, FairShift
<1>5. /\ who \in Held(part', legacy') /\ RecordIn(part', legacy', who) = p
      /\ OthersSame(part, legacy, part', legacy', who)
  BY <1>2, RecordSaved DEF Held, RecordIn, OthersSame, has_participant, load_participant
<1>6. OwedIn(part', legacy', who) = unwithdrawn(p) /\ UnclaimedIn(part', legacy', who) = unclaimed(p)
  BY <1>5 DEF OwedIn, UnclaimedIn
<1>7. /\ Books(part, legacy) \in Int
      /\ Books(part', legacy') = Books(part, legacy) - OwedIn(part, legacy, who) - UnclaimedIn(part, legacy, who)
                                 + OwedIn(part', legacy', who) + UnclaimedIn(part', legacy', who)
  BY <1>1, <1>5, BookWritten
<1>8. OwedIn(part, legacy, who) \in Int /\ UnclaimedIn(part, legacy, who) \in Int /\ Free \in Int
  BY <1>1, DuesAreNumbers, PoolFields DEF MoneyTypes, Free
<1>9. Books(part', legacy') <= Free'
  BY <1>2, <1>3, <1>4, <1>6, <1>7, <1>8
<1>10. FairTables(part', legacy')
  <2>1. ASSUME NEW a \in Held(part', legacy') PROVE FairFor(a, RecordIn(part', legacy', a))
    <3>1. a \in Accounts
      BY <1>1 DEF Held, Records
    <3>2. CASE a = who
      BY <1>4, <1>5, <3>2
    <3>3. CASE a # who
      BY <1>5, <2>1, <3>1, <3>3 DEF OthersSame, FairTables
    <3>4. QED
      BY <3>2, <3>3
  <2>2. QED
    BY <2>1 DEF FairTables
<1>11. QED
  BY <1>9, <1>10

\* The requests stay backed when their owners' principal does not fall.
LEMMA RowsStayBacked ==
    ASSUME PoolInv, RowsBacked(queue, part), NEW who \in Accounts, NEW p \in Participant, save_participant(who, p),
           \/ pending[who] = 0
           \/ who \in DOMAIN part => unwithdrawn(part[who]) <= unwithdrawn(p)
    PROVE  RowsBacked(queue, part')
<1> SUFFICES ASSUME NEW i \in 1 .. Len(queue), queue[i].status = "Pending"
             PROVE  /\ queue[i].who \in DOMAIN part' /\ queue[i].who \in WithdrawUsers
                    /\ queue[i].amount <= unwithdrawn(part'[queue[i].who])
  BY DEF RowsBacked
<1>1. PICK r \in Request : r = queue[i]
  BY DEF PoolInv, QueueGood
<1>2. r.amount \in Nat
  BY DEF Request
<1>3. r.who \in DOMAIN part /\ r.who \in WithdrawUsers /\ r.amount <= unwithdrawn(part[r.who])
  BY <1>1 DEF RowsBacked
<1>4. pending[r.who] = i
  BY <1>1 DEF PoolInv, QueueGood
<1>5. /\ who \in DOMAIN part' /\ part'[who] = p
      /\ \A a \in DOMAIN part \ {who} : a \in DOMAIN part' /\ part'[a] = part[a]
  BY RecordSaved DEF PoolInv
<1>6. CASE r.who # who
  BY <1>1, <1>3, <1>5, <1>6
<1>7. CASE r.who = who
  <2>1. unwithdrawn(part[who]) <= unwithdrawn(p)
    BY <1>3, <1>4, <1>7
  <2>2. unwithdrawn(part[who]) \in Int /\ unwithdrawn(p) \in Int
    <3>1. ASSUME NEW u \in Participant PROVE unwithdrawn(u) \in Int
      BY DEF unwithdrawn, Participant
    <3>2. part[who] \in Participant
      BY <1>3, <1>7 DEF PoolInv, RecordTypes, Records
    <3>3. QED
      BY <3>1, <3>2
  <2>3. QED
    BY <1>1, <1>2, <1>3, <1>5, <1>7, <2>1, <2>2
<1>8. QED
  BY <1>6, <1>7

\* A deposit, a credit, a claim or a joining keeps the pool covered.
LEMMA RecordStepCovered ==
    ASSUME BackedInv, NEW who \in Accounts, RecordStep(who)
    PROVE  Covered'
<1>1. /\ RecordTypes /\ MoneyTypes /\ PoolInv /\ FairTables(part, legacy) /\ Books(part, legacy) <= Free
      /\ RowsBacked(queue, part) /\ pool.is_emergency = FALSE
  BY DEF BackedInv, Covered, PoolInv
<1>2. queue' = queue
  BY <1>1, RecordStepTypes DEF queueVars
<1>3. Amounts \subseteq Nat /\ Yields \subseteq Nat
  BY AccountingAssumption
<1>4. ASSUME NEW q \in Participant, NEW p \in Participant, NEW f \in Int, Changes(who, q, p, f),
             NEW d \in Nat, NEW r \in Nat, NEW c \in Nat, Shifts(q, p, d, 0, r, c),
             c <= unclaimed(q) + r, d + r - c <= f, pool'.is_emergency = pool.is_emergency
      PROVE  Covered'
  <2>1. Starts(who, q) /\ save_participant(who, p)
    BY <1>4 DEF Changes
  <2>2. FairFor(who, q)
    BY <1>1, <2>1, StartsFair
  <2>3. 0 <= unwithdrawn(q) + d
    BY <2>2 DEF FairFor, unwithdrawn, Participant
  <2>4. FairTables(part', legacy') /\ Books(part', legacy') <= Free'
    <3>1. 0 \in Nat /\ d + r - 0 - c <= f
      BY <1>4
    <3>2. QED
      BY <1>1, <1>4, <2>3, <3>1, ChangeKeepsBooks
  <2>5. unwithdrawn(p) = unwithdrawn(q) + d - 0 /\ unwithdrawn(q) \in Int
    <3>1. 0 <= unwithdrawn(q) + d /\ (who \in WithdrawUsers \/ 0 = 0) /\ 0 \in Nat
      BY <2>3
    <3>2. QED
      BY <1>4, <2>2, <3>1, FairShift
  <2>6. who \in DOMAIN part => unwithdrawn(part[who]) <= unwithdrawn(p)
    BY <2>1, <2>5 DEF Starts
  <2>7. RowsBacked(queue, part')
    BY <1>1, <2>1, <2>6, RowsStayBacked
  <2>8. QED
    BY <1>1, <1>2, <1>4, <2>4, <2>7 DEF Covered
<1>5. ASSUME NEW q \in Participant, NEW p \in Participant, Starts(who, q)
      PROVE  0 <= unclaimed(q) /\ unclaimed(q) \in Int
  <2>1. FairFor(who, q)
    BY <1>1, <1>5, StartsFair
  <2>2. QED
    BY <2>1 DEF FairFor, unclaimed, Participant
<1>6. CASE join(who)
  <2>1. PICK q \in Participant, p \in Participant :
          Changes(who, q, p, 0) /\ Shifts(q, p, 0, 0, 0, 0) /\ UNCHANGED pool
    BY <1>1, <1>6, JoinEffect
  <2>2. 0 <= unclaimed(q) + 0
    BY <1>5, <2>1 DEF Changes
  <2>3. QED
    BY <1>4, <2>1, <2>2
<1>7. CASE \/ \E amount \in Amounts : deposit(who, amount)
           \/ \E amount \in Amounts, ledgers \in Lockups : deposit_with_duration(who, amount, ledgers)
  <2>1. PICK amount \in Nat : \/ deposit(who, amount)
                              \/ \E ledgers \in Lockups : deposit_with_duration(who, amount, ledgers)
    BY <1>3, <1>7
  <2>2. PICK q \in Participant, p \in Participant :
          /\ Changes(who, q, p, amount) /\ Shifts(q, p, amount, 0, 0, 0)
          /\ pool'.is_emergency = pool.is_emergency
    BY <1>1, <2>1, DepositEffect, Zenon
  <2>3. 0 <= unclaimed(q) + 0
    BY <1>5, <2>2 DEF Changes
  <2>4. QED
    BY <1>4, <2>2, <2>3
<1>8. CASE claim_reward(who) \/ sweep_unclaimed(who)
  <2>1. PICK q \in Participant, p \in Participant, n \in Nat :
          /\ Changes(who, q, p, -n) /\ Shifts(q, p, 0, 0, 0, n)
          /\ n = (IF unclaimed(q) > 0 THEN unclaimed(q) ELSE 0)
          /\ pool'.is_emergency = pool.is_emergency
    BY <1>1, <1>8, ClaimEffect
  <2>2. n <= unclaimed(q) + 0 /\ 0 + 0 - n <= -n /\ -n \in Int
    <3>1. 0 <= unclaimed(q) /\ unclaimed(q) \in Int
      BY <1>5, <2>1 DEF Changes
    <3>2. QED
      BY <2>1, <3>1
  <2>3. QED
    BY <1>4, <2>1, <2>2
<1>9. CASE emergency_withdraw(who)
  BY <1>1, <1>9 DEF emergency_withdraw
<1>10. CASE \E amount \in Yields : credit_yield(who, amount)
  <2>1. PICK amount \in Nat : credit_yield(who, amount)
    BY <1>3, <1>10
  <2>2. PICK q \in Participant, p \in Participant :
          /\ Changes(who, q, p, amount) /\ Shifts(q, p, 0, 0, amount, 0)
          /\ pool'.is_emergency = pool.is_emergency
    BY <1>1, <2>1, CreditEffect
  <2>3. 0 <= unclaimed(q) + amount /\ 0 + amount - 0 <= amount
    BY <1>5, <2>2 DEF Changes
  <2>4. QED
    BY <1>4, <2>2, <2>3
<1>11. QED
  BY <1>6, <1>7, <1>8, <1>9, <1>10 DEF RecordStep

\* withdraw keeps the pool covered, whether it pays or queues.
LEMMA WithdrawCovered ==
    ASSUME BackedInv, NEW who \in Accounts, who \in WithdrawUsers, withdraw(who)
    PROVE  Covered'
<1>1. /\ RecordTypes /\ MoneyTypes /\ PoolInv /\ FairTables(part, legacy) /\ Books(part, legacy) <= Free
      /\ RowsBacked(queue, part) /\ pool.is_emergency = FALSE
  BY DEF BackedInv, Covered, PoolInv
<1>2. pending[who] = 0
  BY DEF withdraw, NotQueued
<1>3. PICK q \in Participant, p \in Participant, n \in Nat :
        /\ Changes(who, q, p, -n) /\ Shifts(q, p, 0, n, 0, 0) /\ pool' = pool
        /\ \/ n = unwithdrawn(q) /\ UNCHANGED queueVars
           \/ n = 0 /\ unwithdrawn(q) \in Nat /\ enqueue_withdrawal(who, unwithdrawn(q))
  BY <1>1, WithdrawEffect
<1>4. Starts(who, q) /\ save_participant(who, p)
  BY <1>3 DEF Changes
<1>5. FairFor(who, q)
  BY <1>1, <1>4, StartsFair
<1>6. n <= unwithdrawn(q) + 0 /\ 0 <= unclaimed(q) + 0 /\ 0 + 0 - n - 0 <= -n /\ -n \in Int /\ 0 \in Nat
  BY <1>3, <1>5 DEF FairFor, unwithdrawn, unclaimed, Participant
<1>7. FairTables(part', legacy') /\ Books(part', legacy') <= Free'
  BY <1>1, <1>3, <1>6, ChangeKeepsBooks
<1>8. RowsBacked(queue, part')
  BY <1>1, <1>2, <1>4, RowsStayBacked
<1>9. RowsBacked(queue', part')
  <2>1. CASE UNCHANGED queueVars
    BY <1>8, <2>1 DEF queueVars
  <2>2. CASE n = 0 /\ unwithdrawn(q) \in Nat /\ enqueue_withdrawal(who, unwithdrawn(q))
    <3>1. PICK w : w = [who |-> who, amount |-> unwithdrawn(q), expires_at |-> ledger + Expiry, status |-> "Pending"]
      OBVIOUS
    <3>2. queue' = Append(queue, w) /\ w.who = who /\ w.amount = unwithdrawn(q)
      BY <2>2, <3>1 DEF enqueue_withdrawal
    <3>3. queue \in Seq(Request)
      BY <1>1 DEF PoolInv, QueueGood
    <3>4. /\ Len(queue) \in Nat /\ Len(queue') = Len(queue) + 1 /\ queue'[Len(queue) + 1] = w
          /\ \A i \in 1 .. Len(queue) : queue'[i] = queue[i]
      BY <3>2, <3>3
    <3>5. unwithdrawn(p) = unwithdrawn(q) + 0 - n
      BY <1>3, <1>5, <1>6, FairShift
    <3>6. part'[who] = p /\ who \in DOMAIN part'
      BY <1>1, <1>4, RecordSaved
    <3>7. w.amount <= unwithdrawn(part'[who])
      BY <2>2, <3>2, <3>5, <3>6
    <3>8. ASSUME NEW i \in 1 .. Len(queue'), queue'[i].status = "Pending"
          PROVE  /\ queue'[i].who \in DOMAIN part' /\ queue'[i].who \in WithdrawUsers
                 /\ queue'[i].amount <= unwithdrawn(part'[queue'[i].who])
      <4>1. CASE i = Len(queue) + 1
        BY <3>2, <3>4, <3>6, <3>7, <4>1
      <4>2. CASE i \in 1 .. Len(queue)
        BY <1>8, <3>4, <3>8, <4>2 DEF RowsBacked
      <4>3. QED
        BY <3>4, <4>1, <4>2
    <3>9. QED
      BY <3>8 DEF RowsBacked
  <2>3. QED
    BY <1>3, <2>1, <2>2
<1>10. QED
  BY <1>1, <1>3, <1>7, <1>9 DEF Covered

\* withdraw_locked keeps the pool covered: nothing was withdrawn before.
LEMMA LockedCovered ==
    ASSUME BackedInv, NEW who \in Accounts, who \notin WithdrawUsers, withdraw_locked(who)
    PROVE  Covered'
<1>1. /\ RecordTypes /\ MoneyTypes /\ PoolInv /\ FairTables(part, legacy) /\ Books(part, legacy) <= Free
      /\ RowsBacked(queue, part) /\ pool.is_emergency = FALSE
  BY DEF BackedInv, Covered, PoolInv
<1>2. /\ RecordTypes' /\ MoneyTypes' /\ UNCHANGED <<pool, queueVars>> /\ has_participant(who)
      /\ custody' = custody - load_participant(who).deposited /\ ~has_participant(who)'
      /\ \A a \in Accounts \ {who} :
            /\ has_participant(a)' <=> has_participant(a)
            /\ has_participant(a) => load_participant(a)' = load_participant(a)
  BY <1>1, LockedEffect
<1>3. part \in Records /\ legacy \in Records /\ part' \in Records /\ legacy' \in Records
  BY <1>1, <1>2 DEF RecordTypes
<1>4. /\ who \in Held(part, legacy) /\ who \notin Held(part', legacy')
      /\ OthersSame(part, legacy, part', legacy', who)
  BY <1>2 DEF Held, RecordIn, OthersSame, has_participant, load_participant
<1>5. PICK q \in Participant : q = load_participant(who) /\ q = RecordIn(part, legacy, who)
  BY <1>1, <1>2, LoadedRecord DEF load_participant, RecordIn
<1>6. FairFor(who, q)
  BY <1>1, <1>4, <1>5 DEF FairTables
<1>7. /\ OwedIn(part, legacy, who) = q.deposited /\ UnclaimedIn(part, legacy, who) = unclaimed(q)
      /\ q.deposited \in Nat /\ unclaimed(q) >= 0 /\ unclaimed(q) \in Int
      /\ OwedIn(part', legacy', who) = 0 /\ UnclaimedIn(part', legacy', who) = 0
  <2>1. q.withdrawn = 0 /\ q.deposited \in Nat
    BY <1>6 DEF FairFor, Participant
  <2>2. unclaimed(q) >= 0 /\ unclaimed(q) \in Int
    BY <1>6 DEF FairFor, unclaimed, Participant
  <2>3. unwithdrawn(q) = q.deposited
    BY <2>1 DEF unwithdrawn
  <2>4. QED
    BY <1>4, <1>5, <2>1, <2>2, <2>3 DEF OwedIn, UnclaimedIn
<1>8. /\ Books(part, legacy) \in Int
      /\ Books(part', legacy') = Books(part, legacy) - OwedIn(part, legacy, who) - UnclaimedIn(part, legacy, who)
                                 + OwedIn(part', legacy', who) + UnclaimedIn(part', legacy', who)
  BY <1>3, <1>4, BookWritten
<1>9. Free' = Free - q.deposited /\ Free \in Int
  BY <1>1, <1>2, <1>5, <1>7, PoolFields DEF Free, MoneyTypes
<1>10. Books(part', legacy') <= Free'
  BY <1>1, <1>7, <1>8, <1>9
<1>11. FairTables(part', legacy')
  <2>1. \A a \in Held(part', legacy') : a \in Accounts \ {who}
    BY <1>3, <1>4 DEF Held, Records
  <2>2. QED
    BY <1>1, <1>4, <2>1 DEF FairTables, OthersSame
<1>12. RowsBacked(queue', part')
  <2>1. queue' = queue /\ part' = Without(part, who)
    BY DEF withdraw_locked, queueVars
  <2>2. \A a \in DOMAIN part \ {who} : a \in DOMAIN part' /\ part'[a] = part[a]
    BY <2>1 DEF Without
  <2>3. ASSUME NEW i \in 1 .. Len(queue), queue[i].status = "Pending"
        PROVE  queue[i].who \in DOMAIN part \ {who}
    BY <1>1, <2>3 DEF RowsBacked
  <2>4. QED
    BY <1>1, <2>1, <2>2, <2>3 DEF RowsBacked
<1>13. QED
  BY <1>1, <1>2, <1>10, <1>11, <1>12 DEF Covered

\* What every turn of the loop keeps of the books.
LoopCovered(s) ==
  /\ FulfillSound(s) /\ FairTables(s.part, legacy) /\ RowsBacked(s.queue, s.part)
  /\ Books(s.part, legacy) <= s.custody + pool.principal_in_strategy - pool.distributable_yield

\* A payment from the queue takes the same off the custody and off the books.
LEMMA PaymentCovered ==
    ASSUME NEW P \in Records, NEW L \in Records, NEW a \in Accounts, a \in DOMAIN P, a \in WithdrawUsers,
           FairTables(P, L), NEW n \in Nat, n <= unwithdrawn(P[a]),
           NEW Q, Q = With(P, a, Paid(P[a], n))
    PROVE  /\ FairTables(Q, L) /\ Books(P, L) \in Int /\ Books(Q, L) = Books(P, L) - n
           /\ a \in DOMAIN Q /\ unwithdrawn(P[a]) \in Int /\ unwithdrawn(Q[a]) = unwithdrawn(P[a]) - n
           /\ \A b \in DOMAIN P \ {a} : b \in DOMAIN Q /\ Q[b] = P[b]
<1>1. PICK u \in Participant : u = P[a]
  BY DEF Records
<1>2. PICK v \in Participant : v = Paid(u, n) /\ Shifts(u, v, 0, n, 0, 0)
  <2>1. /\ Paid(u, n) \in Participant /\ Paid(u, n).withdrawn = u.withdrawn + n
        /\ Paid(u, n).deposited = u.deposited /\ Paid(u, n).yield = u.yield
        /\ Paid(u, n).prize = u.prize /\ Paid(u, n).claimed = u.claimed
    BY PaidFields
  <2>2. u.deposited \in Nat /\ u.yield \in Nat /\ u.prize \in Nat /\ u.claimed \in Nat
    BY DEF Participant
  <2>3. Shifts(u, Paid(u, n), 0, n, 0, 0)
    BY <2>1, <2>2 DEF Shifts
  <2>4. QED
    BY <2>1, <2>3
<1>3. FairFor(a, u)
  BY <1>1 DEF FairTables, Held, RecordIn
<1>4. /\ FairFor(a, v) /\ unwithdrawn(v) = unwithdrawn(u) + 0 - n /\ unclaimed(v) = unclaimed(u) + 0 - 0
      /\ unwithdrawn(u) \in Int /\ unclaimed(u) \in Int
  <2>1. n <= unwithdrawn(u) + 0 /\ 0 <= unclaimed(u) + 0 /\ 0 \in Nat
    BY <1>1, <1>3 DEF FairFor, unwithdrawn, unclaimed, Participant
  <2>2. QED
    BY <1>2, <1>3, <2>1, FairShift
<1>5. /\ Q \in Records /\ DOMAIN Q = DOMAIN P \cup {a} /\ Q[a] = v
      /\ \A b \in DOMAIN P \ {a} : Q[b] = P[b]
  <2>1. Q = With(P, a, v)
    BY <1>1, <1>2
  <2>2. /\ With(P, a, v) \in Records /\ DOMAIN With(P, a, v) = DOMAIN P \cup {a} /\ With(P, a, v)[a] = v
        /\ \A b \in DOMAIN P \ {a} : With(P, a, v)[b] = P[b]
    <3>1. P \in Records /\ a \in Accounts /\ v \in Participant
      OBVIOUS
    <3>2. QED
      BY ONLY <3>1, RecordWritten
  <2>3. QED
    BY <2>1, <2>2
<1>6. OthersSame(P, L, Q, L, a)
  BY <1>5 DEF OthersSame, Held, RecordIn
<1>7. /\ OwedIn(P, L, a) = unwithdrawn(u) /\ UnclaimedIn(P, L, a) = unclaimed(u)
      /\ OwedIn(Q, L, a) = unwithdrawn(v) /\ UnclaimedIn(Q, L, a) = unclaimed(v)
  BY <1>1, <1>5 DEF OwedIn, UnclaimedIn, Held, RecordIn
<1>8. /\ Books(P, L) \in Int
      /\ Books(Q, L) = Books(P, L) - OwedIn(P, L, a) - UnclaimedIn(P, L, a) + OwedIn(Q, L, a) + UnclaimedIn(Q, L, a)
  BY <1>5, <1>6, BookWritten
<1>9. Books(Q, L) = Books(P, L) - n
  BY <1>4, <1>7, <1>8
<1>10. FairTables(Q, L)
  <2>1. ASSUME NEW b \in Held(Q, L) PROVE FairFor(b, RecordIn(Q, L, b))
    <3>1. CASE b = a
      BY <1>4, <1>5, <3>1 DEF RecordIn
    <3>2. CASE b # a
      <4>1. b \in Held(P, L) /\ RecordIn(Q, L, b) = RecordIn(P, L, b)
        BY <1>5, <2>1, <3>2 DEF Held, RecordIn
      <4>2. QED
        BY <4>1 DEF FairTables
    <3>3. QED
      BY <3>1, <3>2
  <2>2. QED
    BY <2>1 DEF FairTables
<1>11. QED
  BY <1>1, <1>4, <1>5, <1>8, <1>9, <1>10

\* A turn of the loop keeps the pool covered.
LEMMA TurnCovered ==
    ASSUME NEW s \in LoopState, PoolInv, LoopCovered(s), NEW max
    PROVE  FulfillNext(s, max) \in LoopState /\ LoopCovered(FulfillNext(s, max))
<1> PICK t : t = FulfillNext(s, max)
  OBVIOUS
<1>1. t \in LoopState /\ FulfillSound(t)
  BY TurnSound, QueueParts DEF PoolInv, LoopCovered
<1>2. Turned(s, t)
  <2>1. s.head # 0 /\ legacy \in Records /\ DOMAIN part \subseteq DOMAIN s.part
    BY DEF LoopCovered, FulfillSound, QueueGood, RecordTypes, PoolInv
  <2>2. QED
    BY <2>1, TurnOutcome
<1> SUFFICES LoopCovered(t)
  BY <1>1
<1>3. CASE t.queue = s.queue /\ t.part = s.part /\ t.custody = s.custody
  BY <1>1, <1>3 DEF LoopCovered
<1>4. ASSUME NEW w \in Request, NEW n \in Nat, Turns(s, t, w, n) PROVE LoopCovered(t)
  <2>1. PICK q, h : q = s.queue /\ h = s.head
    OBVIOUS
  <2>2. h \in 1 .. Len(q) /\ q \in Seq(Request) /\ QueueGood(q, h, s.pending)
    BY <1>4, <2>1 DEF Turns, LoopState, LoopCovered, FulfillSound
  <2>3. PICK r \in Request : r = q[h]
    BY <2>2
  <2>4. /\ r.status = "Pending" /\ w.who = r.who /\ n <= r.amount /\ w.amount = r.amount - n
        /\ t.queue = [q EXCEPT ![h] = w]
    BY <1>4, <2>1, <2>3 DEF Turns
  <2>5. r.who \in Accounts /\ r.amount \in Nat
    BY DEF Request
  <2>6. r.who \in DOMAIN s.part /\ r.who \in WithdrawUsers /\ r.amount <= unwithdrawn(s.part[r.who])
    BY <2>1, <2>2, <2>3, <2>4 DEF LoopCovered, RowsBacked
  <2>7. s.part \in Records /\ s.custody \in Nat /\ legacy \in Records /\ unwithdrawn(s.part[r.who]) \in Int
    <3>1. s.part \in Records /\ s.custody \in Nat /\ legacy \in Records
      BY DEF LoopState, PoolInv, RecordTypes
    <3>2. PICK u \in Participant : u = s.part[r.who]
      BY <2>6, <3>1 DEF Records
    <3>3. QED
      BY <3>1, <3>2 DEF unwithdrawn, Participant
  <2>8. /\ FairTables(t.part, legacy) /\ Books(s.part, legacy) \in Int
        /\ Books(t.part, legacy) - t.custody <= Books(s.part, legacy) - s.custody /\ t.custody \in Nat
        /\ r.who \in DOMAIN t.part /\ w.amount <= unwithdrawn(t.part[r.who])
        /\ \A b \in DOMAIN s.part \ {r.who} : b \in DOMAIN t.part /\ t.part[b] = s.part[b]
    <3>1. FairTables(s.part, legacy) /\ t.custody \in Nat
      BY <1>1 DEF LoopCovered, LoopState
    <3>2. n <= unwithdrawn(s.part[r.who])
      BY <2>4, <2>5, <2>6, <2>7
    <3>3. CASE n = 0 /\ t.part = s.part /\ t.custody = s.custody
      <4>1. Books(s.part, legacy) \in Int
        BY <2>5, <2>7, BookWritten DEF OthersSame
      <4>2. QED
        BY <2>4, <2>5, <2>6, <2>7, <3>1, <3>3, <4>1
    <3>4. CASE t.custody = s.custody - n /\ t.part = With(s.part, r.who, Paid(s.part[r.who], n))
      <4>1. PICK x : x = s.part[r.who]
        OBVIOUS
      <4>2. /\ FairTables(t.part, legacy) /\ Books(s.part, legacy) \in Int
            /\ Books(t.part, legacy) = Books(s.part, legacy) - n
            /\ r.who \in DOMAIN t.part /\ unwithdrawn(t.part[r.who]) = unwithdrawn(s.part[r.who]) - n
            /\ \A b \in DOMAIN s.part \ {r.who} : b \in DOMAIN t.part /\ t.part[b] = s.part[b]
        BY <2>5, <2>6, <2>7, <3>1, <3>2, <3>4, PaymentCovered
      <4>3. QED
        BY <2>4, <2>5, <2>6, <2>7, <3>1, <3>4, <4>2
    <3>5. QED
      BY <1>4, <2>1, <2>3, <2>6, <3>3, <3>4 DEF Turns, QueuedRecord
  <2>9. RowsBacked(t.queue, t.part)
    <3>1. Len(t.queue) = Len(q) /\ t.queue[h] = w /\ \A i \in 1 .. Len(q) : i # h => t.queue[i] = q[i]
      BY <2>2, <2>4
    <3>2. ASSUME NEW i \in 1 .. Len(q), t.queue[i].status = "Pending"
          PROVE  /\ t.queue[i].who \in DOMAIN t.part /\ t.queue[i].who \in WithdrawUsers
                 /\ t.queue[i].amount <= unwithdrawn(t.part[t.queue[i].who])
      <4>1. CASE i = h
        BY <2>4, <2>6, <2>8, <3>1, <4>1
      <4>2. CASE i # h
        <5>1. t.queue[i] = q[i] /\ q[i].status = "Pending"
          BY <3>1, <3>2, <4>2
        <5>2. q[i].who # r.who
          BY <2>2, <2>3, <2>4, <4>2, <5>1 DEF QueueGood
        <5>3. q[i].who \in DOMAIN s.part /\ q[i].who \in WithdrawUsers /\ q[i].amount <= unwithdrawn(s.part[q[i].who])
          BY <2>1, <5>1 DEF LoopCovered, RowsBacked
        <5>4. QED
          BY <2>8, <5>1, <5>2, <5>3
      <4>3. QED
        BY <4>1, <4>2
    <3>3. QED
      BY <3>1, <3>2 DEF RowsBacked
  <2>10. Books(t.part, legacy) <= t.custody + pool.principal_in_strategy - pool.distributable_yield
    <3>1. Books(s.part, legacy) <= s.custody + pool.principal_in_strategy - pool.distributable_yield
      BY DEF LoopCovered
    <3>2. pool.principal_in_strategy \in Nat /\ pool.distributable_yield \in Nat
      BY PoolFields DEF PoolInv, MoneyTypes
    <3>3. Books(t.part, legacy) \in Int
      <4>1. t.part \in Records
        BY <1>1 DEF LoopState
      <4>2. QED
        BY <2>5, <2>7, <4>1, BookWritten DEF OthersSame
    <3>4. QED
      BY <2>7, <2>8, <3>1, <3>2, <3>3
  <2>11. QED
    BY <1>1, <2>8, <2>9, <2>10 DEF LoopCovered
<1>5. QED
  BY <1>2, <1>3, <1>4 DEF Turned, Stays, Skips

\* A fulfilment keeps the pool covered.
LEMMA FulfillCovered ==
    ASSUME BackedInv, NEW max, fulfill_withdrawal_queue(max)
    PROVE  Covered'
<1> DEFINE J == {s \in LoopState : LoopCovered(s)}
<1>1. PoolInv /\ Covered
  BY DEF BackedInv
<1>2. FulfillStart \in J
  <2>1. FulfillStart \in LoopState /\ FulfillSound(FulfillStart)
    BY <1>1, PoolInvParts, FulfillEnds
  <2>2. PICK s : s = FulfillStart
    OBVIOUS
  <2> s.part = part /\ s.queue = queue /\ s.custody = custody
    BY <2>2 DEF FulfillStart
  <2>3. LoopCovered(s)
    BY <1>1, <2>1, <2>2 DEF LoopCovered, Covered, Free
  <2>4. QED
    BY <2>1, <2>2, <2>3
<1>3. \A s \in J : FulfillNext(s, max) \in J
  BY <1>1, TurnCovered
<1>4. PICK e : e = FulfillLoop(max) /\ e \in J
  <2> HIDE DEF J
  <2>1. Len(queue) \in Nat
    BY <1>1 DEF PoolInv, QueueGood
  <2>2. QED
    BY <1>2, <1>3, <2>1, LoopByInduction
<1>5. /\ queue' = e.queue /\ part' = e.part /\ custody' = e.custody /\ UNCHANGED pool
      /\ legacy' = [a \in DOMAIN legacy \ DOMAIN e.part |-> legacy[a]]
  BY <1>4 DEF fulfill_withdrawal_queue
<1>6. \A a : /\ a \in Held(part', legacy') <=> a \in Held(e.part, legacy)
             /\ a \in Held(e.part, legacy) => RecordIn(part', legacy', a) = RecordIn(e.part, legacy, a)
  BY <1>5 DEF Held, RecordIn
<1>7. Books(part', legacy') = Books(e.part, legacy)
  BY <1>6 DEF Books, OwedIn, UnclaimedIn
<1>8. LoopCovered(e)
  BY <1>4
<1>9. FairTables(part', legacy')
  BY <1>6, <1>8 DEF LoopCovered, FairTables
<1>10. QED
  BY <1>1, <1>5, <1>7, <1>8, <1>9 DEF LoopCovered, Covered, Free

\* At the start the legacy principal is in custody.
LEMMA BackedStart ==
    ASSUME Init
    PROVE  BackedInv
<1>1. PoolInv
  BY PoolStart
<1>2. PICK p : p = [deposited |-> LegacyPrincipal, withdrawn |-> 0, locked_until |-> 0,
                    yield |-> 0, prize |-> 0, claimed |-> 0]
  OBVIOUS
<1>3. /\ Held(part, legacy) = LegacyUsers /\ \A a \in LegacyUsers : RecordIn(part, legacy, a) = p
      /\ queue = <<>> /\ pool.is_emergency = FALSE
  BY <1>2 DEF Init, Held, RecordIn
<1>4. p.deposited = 2 /\ p.withdrawn = 0 /\ p.yield = 0 /\ p.prize = 0 /\ p.claimed = 0
  BY <1>2 DEF LegacyPrincipal
<1>5. unwithdrawn(p) = 2 /\ unclaimed(p) = 0
  BY <1>4 DEF unwithdrawn, unclaimed
<1>6. FairTables(part, legacy)
  BY <1>3, <1>4 DEF FairTables, FairFor
<1>7. RowsBacked(queue, part)
  BY <1>3 DEF RowsBacked
<1>8. Books(part, legacy) <= Free
  <2>1. IsFiniteSet(Accounts) /\ LegacyUsers \in SUBSET Accounts
    BY AccountingAssumption
  <2>2. PICK k \in Nat : k = Cardinality(LegacyUsers)
    BY <2>1, FS_Subset, FS_CardinalityType
  <2>3. PICK f, g : /\ f = [a \in Accounts |-> OwedIn(part, legacy, a)]
                    /\ g = [a \in Accounts |-> UnclaimedIn(part, legacy, a)]
    OBVIOUS
  <2>4. /\ f \in [Accounts -> Nat] /\ \A a \in Accounts : f[a] = IF a \in LegacyUsers THEN 2 ELSE 0
        /\ g \in [Accounts -> Nat] /\ \A a \in Accounts : g[a] = 0
    BY <1>3, <1>5, <2>3 DEF OwedIn, UnclaimedIn
  <2>5. SumFunction(f) = 2 * k
    BY <2>1, <2>2, <2>4, SumEach
  <2>6. SumFunction(g) = 0
    BY <2>1, <2>4, SumNatural
  <2>7. Books(part, legacy) = 2 * k
    BY <2>3, <2>5, <2>6 DEF Books
  <2>8. Free = 2 * k
    BY <2>2 DEF Init, Free, LegacyPrincipal
  <2>9. QED
    BY <2>7, <2>8
<1>9. QED
  BY <1>1, <1>3, <1>6, <1>7, <1>8 DEF BackedInv, Covered

\* Every step keeps the pool covered.
LEMMA BackedStep ==
    ASSUME WithdrawUsers \cap LockedUsers = {}, Prizes = {}, Assets = {}, Releases = {}, BackedInv, [Next]_vars
    PROVE  BackedInv'
<1>1. PoolInv /\ Covered /\ MoneyTypes /\ RecordTypes
  BY DEF BackedInv, PoolInv
<1> SUFFICES Covered'
  BY <1>1, PoolStep DEF BackedInv
<1>2. CASE QuietStep
  <2>1. Quiet /\ Gains /\ MoneyTypes'
    BY <1>1, <1>2, QuietEffect DEF Quiet
  <2>2. part' = part /\ legacy' = legacy /\ queue' = queue /\ Free' >= Free
    BY <2>1 DEF Quiet, Gains, queueVars
  <2>3. pool'.is_emergency \in BOOLEAN /\ Free \in Int /\ Free' \in Int
    <3>1. pool' \in Pool
      BY <2>1 DEF MoneyTypes
    <3>2. pool'.is_emergency \in BOOLEAN
      BY <3>1 DEF Pool
    <3>3. pool'.principal_in_strategy \in Nat /\ pool'.distributable_yield \in Nat /\ custody' \in Nat
      BY <2>1, <3>1 DEF Pool, MoneyTypes
    <3>4. Free \in Int
      BY <1>1, PoolFields DEF MoneyTypes, Free
    <3>5. QED
      BY <3>2, <3>3, <3>4 DEF Free
  <2>4. pool'.is_emergency = FALSE
    BY <1>1, <2>1, <2>3 DEF Gains, Covered
  <2>5. Books(part, legacy) \in Int
    BY <1>1, AccountingAssumption, BookWritten DEF OthersSame, RecordTypes
  <2>6. Books(part', legacy') <= Free'
    BY <1>1, <2>2, <2>3, <2>5 DEF Covered
  <2>7. QED
    BY <1>1, <2>2, <2>4, <2>6 DEF Covered
<1>3. ASSUME NEW max \in Batches, fulfill_withdrawal_queue(max) PROVE Covered'
  BY <1>3, FulfillCovered
<1>4. ASSUME NEW who \in Accounts, RecordStep(who) PROVE Covered'
  BY <1>4, RecordStepCovered
<1>5. ASSUME NEW who \in Accounts, cancel_withdrawal_request(who) PROVE Covered'
  <2>1. UNCHANGED <<pool, part, legacy, custody>>
    BY <1>5 DEF cancel_withdrawal_request
  <2>2. /\ Len(queue') = Len(queue)
        /\ \A i \in 1 .. Len(queue) : /\ queue'[i].who = queue[i].who /\ queue'[i].amount = queue[i].amount
                                      /\ queue'[i].status = "Pending" => queue[i].status = "Pending"
    BY <1>1, <1>5, QueueLeft
  <2>3. RowsBacked(queue', part)
    BY <1>1, <2>2 DEF Covered, RowsBacked
  <2>4. QED
    BY <1>1, <2>1, <2>3 DEF Covered, Free
<1>6. ASSUME NEW who \in Accounts, who \in WithdrawUsers, withdraw(who) PROVE Covered'
  BY <1>6, WithdrawCovered
<1>7. ASSUME NEW who \in Accounts, who \in LockedUsers, withdraw_locked(who) PROVE Covered'
  BY <1>7, LockedCovered
<1>8. CASE UNCHANGED vars
  BY <1>1, <1>8 DEF vars, queueVars, Covered, Free
<1>9. QED
  <2>1. CASE Next
    BY <2>1, <1>2, <1>3, <1>4, <1>5, <1>6, <1>7, StepKinds
  <2>2. QED
    BY <2>1, <1>8

\* A covered pool is solvent, its queue is backed and nobody was overpaid.
LEMMA BackedMeans == BackedInv => AccountsBacked
<1> SUFFICES ASSUME BackedInv PROVE AccountsBacked
  OBVIOUS
<1>1. PoolInv /\ Covered /\ RecordTypes /\ MoneyTypes /\ part \in Records /\ legacy \in Records
  BY DEF BackedInv, PoolInv, RecordTypes
<1>2. TypeOK
  BY <1>1, PoolInvParts
<1>3. Solvent
  <2>1. PICK f, g : f = [a \in Accounts |-> Owed(a)] /\ g = [a \in Accounts |-> Unclaimed(a)]
    OBVIOUS
  <2>2. f \in [Accounts -> Int] /\ g \in [Accounts -> Int]
    <3>1. \A a \in Accounts : OwedIn(part, legacy, a) = Owed(a) /\ UnclaimedIn(part, legacy, a) = Unclaimed(a)
      BY DEF OwedIn, UnclaimedIn, Owed, Unclaimed, Held, RecordIn, has_participant, load_participant
    <3>2. \A a \in Accounts : Owed(a) \in Int /\ Unclaimed(a) \in Int
      BY <1>1, <3>1, DuesAreNumbers
    <3>3. QED
      BY <2>1, <3>2
  <2>3. IsFiniteSet(Accounts) /\ Admin \in Accounts
    BY AccountingAssumption
  <2>4. SumFunction(f) \in Int /\ SumFunction(g) \in Int
    BY <2>2, <2>3, SumUpdate
  <2>5. Principal \in Int /\ Rewards \in Int
    BY <2>1, <2>4 DEF Principal, Rewards
  <2>6. Principal + Rewards <= custody + pool.principal_in_strategy - pool.distributable_yield
    BY <1>1, BooksInForce DEF Covered, Free
  <2>7. custody \in Nat /\ pool.principal_in_strategy \in Nat /\ pool.distributable_yield \in Nat
    BY <1>1, PoolFields DEF MoneyTypes
  <2>8. QED
    BY <2>5, <2>6, <2>7 DEF Solvent
<1>4. QueueBacked
  BY <1>1 DEF QueueBacked, Covered, RowsBacked, has_participant, load_participant
<1>5. NeverOverpaid
  <2> SUFFICES ASSUME NEW a \in DOMAIN part
               PROVE  part[a].withdrawn \in 0 .. part[a].deposited /\ part[a].claimed <= part[a].yield + part[a].prize
    BY DEF NeverOverpaid
  <2>1. PICK p \in Participant : p = part[a]
    BY <1>1 DEF Records
  <2>2. FairFor(a, p)
    BY <1>1, <2>1 DEF Covered, FairTables, Held, RecordIn
  <2>3. p.withdrawn \in Int /\ p.deposited \in Nat
    BY DEF Participant
  <2>4. QED
    BY <2>1, <2>2, <2>3 DEF FairFor
<1>6. QED
  BY <1>2, <1>3, <1>4, <1>5 DEF AccountsBacked

\* The pool covers its principal, the yield set aside and every reward, queued
\* withdrawals are backed by their owners' principal, and nobody is overpaid,
\* for any accounts, amounts and batches, legacy records included: as long as
\* no account uses both withdraw and withdraw_locked, draw_winner credits no
\* unfunded prize, and governance declares no emergency and releases no escrow.
THEOREM PoolStaysBacked ==
    ASSUME WithdrawUsers \cap LockedUsers = {}, Prizes = {}, Assets = {}, Releases = {}
    PROVE  Spec => []AccountsBacked
<1>1. BackedInv /\ [Next]_vars => BackedInv'
  BY BackedStep
<1>2. Spec => []BackedInv
  BY <1>1, BackedStart, PTL DEF Spec
<1>3. QED
  BY <1>2, BackedMeans, PTL

-----------------------------------------------------------------------------
(* A participant's principal, when no V1 record is on file.                  *)

PaidInv == PoolInv /\ legacy = [a \in {} |-> {}] /\ \A a \in DOMAIN part : part[a].withdrawn >= 0

\* The principal owed to any account falls by at most n.
FallsBy(n) == \A a \in Accounts : Owed(a) - Owed(a)' <= n

KeepsPrincipal == ~pool.is_emergency => FallsBy(Max({custody - custody', 0}))

\* One record changes: what that does to what is owed.
LEMMA ChangeFalls ==
    ASSUME PaidInv, NEW who \in Accounts, NEW q \in Participant, NEW p \in Participant, NEW f, Changes(who, q, p, f),
           NEW d \in Nat, NEW w \in Nat, NEW r \in Nat, NEW c \in Nat, Shifts(q, p, d, w, r, c)
    PROVE  /\ legacy' = [a \in {} |-> {}] /\ \A a \in DOMAIN part' : part'[a].withdrawn >= 0
           /\ FallsBy(w)
<1>1. RecordTypes /\ MoneyTypes /\ Starts(who, q) /\ save_participant(who, p)
  BY DEF PaidInv, PoolInv, Changes
<1>2. DOMAIN legacy = {} /\ legacy' = [a \in {} |-> {}] /\ DOMAIN part' = DOMAIN part \cup {who}
  BY <1>1 DEF PaidInv, save_participant, Without, With
<1>3. /\ who \in DOMAIN part' /\ part'[who] = p
      /\ \A a \in DOMAIN part \ {who} : a \in DOMAIN part' /\ part'[a] = part[a]
      /\ has_participant(who)' /\ load_participant(who)' = p
      /\ \A a \in Accounts \ {who} : /\ has_participant(a)' <=> has_participant(a)
                                     /\ has_participant(a) => load_participant(a)' = load_participant(a)
  BY <1>1, RecordSaved
<1>4. q.withdrawn >= 0 /\ Owed(who) = unwithdrawn(q)
  <2>1. CASE who \in DOMAIN part
    BY <1>1, <2>1 DEF PaidInv, Starts, Owed, has_participant, load_participant
  <2>2. CASE who \notin DOMAIN part
    <3>1. q = NewParticipant /\ ~has_participant(who)
      BY <1>1, <1>2, <2>2 DEF Starts, has_participant
    <3>2. QED
      BY <1>1, <3>1, NewRecord DEF Owed
  <2>3. QED
    BY <2>1, <2>2
<1>5. /\ p.withdrawn = q.withdrawn + w /\ p.deposited = q.deposited + d
      /\ q.withdrawn \in Int /\ q.deposited \in Nat
  BY DEF Shifts, Participant
<1>6. p.withdrawn >= 0 /\ unwithdrawn(p) = unwithdrawn(q) + d - w /\ unwithdrawn(q) \in Int
  BY <1>4, <1>5 DEF unwithdrawn
<1>7. Owed(who)' = unwithdrawn(p)
  BY <1>3 DEF Owed, unwithdrawn
<1>8. Owed(who) - Owed(who)' <= w
  BY <1>4, <1>6, <1>7
<1>9. ASSUME NEW a \in Accounts PROVE Owed(a) - Owed(a)' <= w
  <2>1. CASE a = who
    BY <1>8, <2>1
  <2>2. CASE a # who
    <3>1. Owed(a)' = Owed(a)
      BY <1>3, <2>2 DEF Owed, unwithdrawn
    <3>2. Owed(a) \in Int
      BY <1>1, DuesAreNumbers, BooksInForce DEF RecordTypes
    <3>3. QED
      BY <3>1, <3>2
  <2>3. QED
    BY <2>1, <2>2
<1>10. \A a \in DOMAIN part' : part'[a].withdrawn >= 0
  <2>1. ASSUME NEW a \in DOMAIN part' PROVE part'[a].withdrawn >= 0
    <3>1. CASE a = who
      BY <1>3, <1>6, <3>1
    <3>2. CASE a # who
      BY <1>2, <1>3, <3>2 DEF PaidInv
    <3>3. QED
      BY <3>1, <3>2
  <2>2. QED
    BY <2>1
<1>11. QED
  BY <1>2, <1>9, <1>10 DEF FallsBy

\* What falls by no more than leaves the pool.
LEMMA FallsWithCustody ==
    ASSUME PoolInv, PoolInv', NEW n \in Nat, FallsBy(n), n <= custody - custody' \/ n = 0
    PROVE  FallsBy(Max({custody - custody', 0}))
<1>1. PICK m \in Int : m = custody - custody'
  <2>1. custody \in Nat
    BY DEF PoolInv, MoneyTypes
  <2>2. custody' \in Nat
    BY DEF PoolInv, MoneyTypes
  <2>3. custody - custody' \in Int
    BY ONLY <2>1, <2>2
  <2>4. QED
    BY ONLY <2>3
<1>2. Max({m, 0}) = IF m > 0 THEN m ELSE 0
  BY MaxWithZero
<1>3. PICK k \in Nat : k = Max({custody - custody', 0}) /\ n <= k
  BY <1>1, <1>2
<1>4. ASSUME NEW a \in Accounts PROVE Owed(a) - Owed(a)' <= k
  <2>1. PICK x \in Int : x = Owed(a)
    BY DuesAreNumbers, BooksInForce DEF PoolInv, RecordTypes
  <2>2. PICK y \in Int : y = Owed(a)'
    <3>1. Owed(a)' = OwedIn(part', legacy', a)
      BY DEF Owed, OwedIn, Held, RecordIn, has_participant, load_participant, unwithdrawn
    <3>2. part' \in Records /\ legacy' \in Records
      BY DEF PoolInv, RecordTypes
    <3>3. QED
      BY <3>1, <3>2, DuesAreNumbers
  <2>3. x - y <= n
    BY <2>1, <2>2 DEF FallsBy
  <2>4. QED
    BY <1>3, <2>1, <2>2, <2>3
<1>5. QED
  BY <1>3, <1>4 DEF FallsBy

\* What every turn of the loop keeps of the participants' principal.
LoopKept(s) ==
  /\ FulfillSound(s) /\ s.custody <= custody
  /\ \A a \in DOMAIN s.part : s.part[a].withdrawn >= 0
  /\ \A a \in Accounts : OwedIn(part, legacy, a) - OwedIn(s.part, legacy, a) <= custody - s.custody

\* A payment takes n off what its owner is owed.
LEMMA PaymentFalls ==
    ASSUME NEW P \in Records, NEW L \in Records, NEW a \in Accounts, a \in DOMAIN P, NEW n \in Nat,
           \A b \in DOMAIN P : P[b].withdrawn >= 0, NEW Q, Q = With(P, a, Paid(P[a], n))
    PROVE  /\ \A b \in DOMAIN Q : Q[b].withdrawn >= 0
           /\ \A b \in Accounts : OwedIn(P, L, b) \in Int /\ OwedIn(Q, L, b) \in Int
                                  /\ OwedIn(P, L, b) - OwedIn(Q, L, b) <= n
<1>1. PICK u \in Participant : u = P[a]
  BY DEF Records
<1>2. PICK v \in Participant : v = Paid(u, n) /\ v.withdrawn = u.withdrawn + n /\ v.deposited = u.deposited
  BY PaidFields
<1>3. u.withdrawn \in Int /\ u.deposited \in Nat /\ u.withdrawn >= 0
  BY <1>1 DEF Participant
<1>4. v.withdrawn >= 0 /\ unwithdrawn(v) = unwithdrawn(u) - n /\ unwithdrawn(u) \in Int
  BY <1>2, <1>3 DEF unwithdrawn
<1>5. /\ Q \in Records /\ DOMAIN Q = DOMAIN P \cup {a} /\ Q[a] = v
      /\ \A b \in DOMAIN P \ {a} : Q[b] = P[b]
  <2>1. Q = With(P, a, v)
    BY <1>1, <1>2
  <2>2. /\ With(P, a, v) \in Records /\ DOMAIN With(P, a, v) = DOMAIN P \cup {a} /\ With(P, a, v)[a] = v
        /\ \A b \in DOMAIN P \ {a} : With(P, a, v)[b] = P[b]
    <3>1. P \in Records /\ a \in Accounts /\ v \in Participant
      OBVIOUS
    <3>2. QED
      BY ONLY <3>1, RecordWritten
  <2>3. QED
    BY <2>1, <2>2
<1>6. ASSUME NEW b \in Accounts
      PROVE  OwedIn(P, L, b) \in Int /\ OwedIn(Q, L, b) \in Int /\ OwedIn(P, L, b) - OwedIn(Q, L, b) <= n
  <2>1. OwedIn(P, L, b) \in Int /\ OwedIn(Q, L, b) \in Int
    BY <1>5, DuesAreNumbers
  <2>2. CASE b = a
    <3>1. OwedIn(P, L, b) = unwithdrawn(u) /\ OwedIn(Q, L, b) = unwithdrawn(v)
      BY <1>1, <1>5, <2>2 DEF OwedIn, Held, RecordIn
    <3>2. QED
      BY <1>4, <2>1, <3>1
  <2>3. CASE b # a
    <3>1. OwedIn(P, L, b) = OwedIn(Q, L, b)
      BY <1>5, <2>3 DEF OwedIn, Held, RecordIn
    <3>2. QED
      BY <2>1, <3>1
  <2>4. QED
    BY <2>2, <2>3
<1>7. ASSUME NEW b \in DOMAIN Q PROVE Q[b].withdrawn >= 0
  BY <1>4, <1>5
<1>8. QED
  BY <1>6, <1>7

\* A turn of the loop keeps it.
LEMMA TurnKept ==
    ASSUME NEW s \in LoopState, PaidInv, LoopKept(s), NEW max
    PROVE  FulfillNext(s, max) \in LoopState /\ LoopKept(FulfillNext(s, max))
<1> PICK t : t = FulfillNext(s, max)
  OBVIOUS
<1>1. PoolInv /\ DOMAIN legacy = {} /\ part \in Records /\ legacy \in Records /\ custody \in Nat
  BY DEF PaidInv, PoolInv, RecordTypes, MoneyTypes
<1>2. t \in LoopState /\ FulfillSound(t)
  BY <1>1, TurnSound, QueueParts DEF PoolInv, LoopKept
<1>3. Turned(s, t)
  <2>1. s.head # 0 /\ DOMAIN part \subseteq DOMAIN s.part
    BY DEF LoopKept, FulfillSound, QueueGood
  <2>2. QED
    BY <1>1, <2>1, TurnOutcome
<1> SUFFICES LoopKept(t)
  BY <1>2
<1>4. CASE t.part = s.part /\ t.custody = s.custody
  BY <1>2, <1>4 DEF LoopKept
<1>5. ASSUME NEW n \in Nat, NEW a \in Accounts, a \in DOMAIN s.part, n <= s.custody, t.custody = s.custody - n,
             t.part = With(s.part, a, Paid(s.part[a], n))
      PROVE  LoopKept(t)
  <2>1. s.part \in Records /\ s.custody \in Nat
    BY DEF LoopState
  <2>2. /\ \A b \in DOMAIN t.part : t.part[b].withdrawn >= 0
        /\ \A b \in Accounts : OwedIn(s.part, legacy, b) \in Int /\ OwedIn(t.part, legacy, b) \in Int
                               /\ OwedIn(s.part, legacy, b) - OwedIn(t.part, legacy, b) <= n
    <3>1. \A b \in DOMAIN s.part : s.part[b].withdrawn >= 0
      BY DEF LoopKept
    <3>2. QED
      BY <1>1, <1>5, <2>1, <3>1, PaymentFalls
  <2>3. ASSUME NEW b \in Accounts
        PROVE  OwedIn(part, legacy, b) - OwedIn(t.part, legacy, b) <= custody - t.custody
    <3>1. OwedIn(part, legacy, b) - OwedIn(s.part, legacy, b) <= custody - s.custody /\ OwedIn(part, legacy, b) \in Int
      BY <1>1, DuesAreNumbers DEF LoopKept
    <3>2. QED
      BY <1>1, <1>5, <2>1, <2>2, <3>1
  <2>4. t.custody <= custody
    BY <1>1, <1>5, <2>1 DEF LoopKept
  <2>5. QED
    BY <1>2, <2>2, <2>3, <2>4 DEF LoopKept
<1>6. ASSUME NEW w \in Request, NEW n \in Nat, Turns(s, t, w, n) PROVE LoopKept(t)
  <2>1. PICK r \in Request : r = s.queue[s.head]
    BY <1>6 DEF Turns, LoopState
  <2>2. r.who \in Accounts
    BY DEF Request
  <2>3. CASE t.part = s.part /\ t.custody = s.custody
    BY <1>4, <2>3
  <2>4. CASE /\ has_participant(r.who) /\ n <= s.custody /\ t.custody = s.custody - n
             /\ t.part = With(s.part, r.who, Paid(QueuedRecord(s, r.who), n))
    <3>1. r.who \in DOMAIN s.part
      BY <1>1, <2>4 DEF has_participant, LoopKept, FulfillSound
    <3>2. QueuedRecord(s, r.who) = s.part[r.who]
      BY <3>1 DEF QueuedRecord
    <3>3. QED
      BY <1>5, <2>2, <2>4, <3>1, <3>2
  <2>5. QED
    BY <1>6, <2>1, <2>3, <2>4 DEF Turns
<1>7. QED
  BY <1>3, <1>4, <1>6 DEF Turned, Stays, Skips

\* A fulfilment takes no more off anybody's principal than it pays out.
LEMMA FulfillKept ==
    ASSUME PaidInv, NEW max, fulfill_withdrawal_queue(max)
    PROVE  /\ legacy' = [a \in {} |-> {}] /\ \A a \in DOMAIN part' : part'[a].withdrawn >= 0
           /\ \E n \in Nat : FallsBy(n) /\ n <= custody - custody'
<1> DEFINE J == {s \in LoopState : LoopKept(s)}
<1>1. PoolInv /\ DOMAIN legacy = {} /\ part \in Records /\ legacy \in Records /\ custody \in Nat
  BY DEF PaidInv, PoolInv, RecordTypes, MoneyTypes
<1>2. FulfillStart \in J
  <2>1. FulfillStart \in LoopState /\ FulfillSound(FulfillStart)
    BY <1>1, PoolInvParts, FulfillEnds
  <2>2. PICK s : s = FulfillStart
    OBVIOUS
  <2>3. s.part = part /\ s.custody = custody
    BY <2>2 DEF FulfillStart
  <2>4. \A a \in Accounts : OwedIn(part, legacy, a) \in Int
    BY <1>1, DuesAreNumbers
  <2>5. LoopKept(s)
    BY <1>1, <2>1, <2>2, <2>3, <2>4 DEF LoopKept, PaidInv
  <2>6. QED
    BY <2>1, <2>2, <2>5
<1>3. \A s \in J : FulfillNext(s, max) \in J
  BY TurnKept
<1>4. PICK e : e = FulfillLoop(max) /\ e \in J
  <2> HIDE DEF J
  <2>1. Len(queue) \in Nat
    BY <1>1 DEF PoolInv, QueueGood
  <2>2. QED
    BY <1>2, <1>3, <2>1, LoopByInduction
<1>5. LoopKept(e) /\ e.custody \in Nat
  BY <1>4 DEF LoopState
<1>6. /\ part' = e.part /\ custody' = e.custody
      /\ legacy' = [a \in DOMAIN legacy \ DOMAIN e.part |-> legacy[a]]
  BY <1>4 DEF fulfill_withdrawal_queue
<1>7. DOMAIN legacy \ DOMAIN e.part = {} /\ legacy' = [a \in {} |-> {}]
  BY <1>1, <1>6
<1>8. PICK n \in Nat : n = custody - custody'
  BY <1>1, <1>5, <1>6 DEF LoopKept
<1>9. ASSUME NEW a \in Accounts PROVE Owed(a) - Owed(a)' <= n
  <2>1. Owed(a) = OwedIn(part, legacy, a)
    BY BooksInForce
  <2>2. Owed(a)' = OwedIn(e.part, legacy, a)
    <3>1. DOMAIN legacy' = {}
      BY <1>7
    <3>2. QED
      BY <1>1, <1>6, <3>1 DEF Owed, OwedIn, Held, RecordIn, has_participant, load_participant, unwithdrawn
  <2>3. QED
    BY <1>5, <1>6, <1>8, <2>1, <2>2 DEF LoopKept
<1>10. QED
  BY <1>5, <1>6, <1>7, <1>8, <1>9 DEF LoopKept, FallsBy

\* No step takes principal from an account without paying it out.
LEMMA PaidStep ==
    ASSUME PaidInv, [Next]_vars
    PROVE  PaidInv' /\ KeepsPrincipal
<1>1. /\ PoolInv /\ PoolInv' /\ RecordTypes /\ MoneyTypes /\ DOMAIN legacy = {} /\ part \in Records
      /\ legacy \in Records /\ custody \in Nat
  <2>1. PoolInv
    BY DEF PaidInv
  <2>2. PoolInv'
    BY <2>1, PoolStep
  <2>3. DOMAIN legacy = {}
    BY DEF PaidInv
  <2>4. QED
    BY <2>1, <2>2, <2>3 DEF PoolInv, RecordTypes, MoneyTypes
<1>2. Amounts \subseteq Nat /\ Yields \subseteq Nat /\ Prizes \subseteq Nat
  BY AccountingAssumption
<1>3. ASSUME legacy' = [a \in {} |-> {}], \A a \in DOMAIN part' : part'[a].withdrawn >= 0,
             NEW n \in Nat, FallsBy(n), ~pool.is_emergency => n <= custody - custody' \/ n = 0
      PROVE  PaidInv' /\ KeepsPrincipal
  <2>1. PaidInv'
    BY <1>1, <1>3 DEF PaidInv
  <2>2. KeepsPrincipal
    BY <1>1, <1>3, FallsWithCustody DEF KeepsPrincipal
  <2>3. QED
    BY <2>1, <2>2
<1>4. ASSUME UNCHANGED <<part, legacy>> PROVE PaidInv' /\ KeepsPrincipal
  <2>1. \A a \in Accounts : Owed(a)' = Owed(a) /\ Owed(a) \in Int
    <3>1. \A a \in Accounts : Owed(a) \in Int
      BY <1>1, DuesAreNumbers, BooksInForce
    <3>2. \A a \in Accounts : Owed(a)' = Owed(a)
      BY <1>4 DEF Owed, has_participant, load_participant, unwithdrawn
    <3>3. QED
      BY <3>1, <3>2
  <2>2. FallsBy(0)
    BY <2>1 DEF FallsBy
  <2>3. QED
    BY <1>3, <1>4, <2>2 DEF PaidInv
<1>5. ASSUME NEW who \in Accounts, NEW q \in Participant, NEW p \in Participant, NEW f, Changes(who, q, p, f),
             NEW d \in Nat, NEW w \in Nat, NEW r \in Nat, NEW c \in Nat, Shifts(q, p, d, w, r, c),
             ~pool.is_emergency => w <= custody - custody' \/ w = 0
      PROVE  PaidInv' /\ KeepsPrincipal
  <2>1. /\ legacy' = [a \in {} |-> {}] /\ \A a \in DOMAIN part' : part'[a].withdrawn >= 0
        /\ FallsBy(w)
    BY <1>5, ChangeFalls
  <2>2. QED
    BY <1>3, <1>5, <2>1
<1>6. CASE QuietStep
  BY <1>1, <1>4, <1>6, QuietEffect DEF Quiet
<1>7. CASE (\E assets \in Assets : TriggerEmergency(assets)) \/ (\E amount \in Releases : ReleaseEscrow(amount))
  BY <1>1, <1>4, <1>7, EmergencyEffect DEF Quiet
<1>8. ASSUME NEW prize \in Prizes, draw_winner(prize) PROVE PaidInv' /\ KeepsPrincipal
  <2>1. PICK q \in Participant, p \in Participant : Changes(Admin, q, p, 0) /\ Shifts(q, p, 0, 0, prize, 0)
    BY <1>1, <1>2, <1>8, DrawEffect
  <2>2. Admin \in Accounts /\ prize \in Nat
    BY <1>2, AccountingAssumption
  <2>3. QED
    BY <1>5, <2>1, <2>2
<1>9. ASSUME NEW max \in Batches, fulfill_withdrawal_queue(max) PROVE PaidInv' /\ KeepsPrincipal
  BY <1>3, <1>9, FulfillKept
<1>10. ASSUME NEW who \in Accounts, join(who) PROVE PaidInv' /\ KeepsPrincipal
  <2>1. PICK q \in Participant, p \in Participant : Changes(who, q, p, 0) /\ Shifts(q, p, 0, 0, 0, 0)
    BY <1>1, <1>10, JoinEffect
  <2>2. QED
    BY <1>5, <2>1
<1>11. ASSUME NEW who \in Accounts, NEW amount \in Amounts,
              deposit(who, amount) \/ \E ledgers \in Lockups : deposit_with_duration(who, amount, ledgers)
       PROVE  PaidInv' /\ KeepsPrincipal
  <2>1. amount \in Nat
    BY <1>2
  <2>2. PICK q \in Participant, p \in Participant : Changes(who, q, p, amount) /\ Shifts(q, p, amount, 0, 0, 0)
    BY <1>1, <1>11, <2>1, DepositEffect, Zenon
  <2>3. QED
    BY <1>5, <2>1, <2>2
<1>12. ASSUME NEW who \in Accounts, claim_reward(who) \/ sweep_unclaimed(who) PROVE PaidInv' /\ KeepsPrincipal
  <2>1. PICK q \in Participant, p \in Participant, n \in Nat : Changes(who, q, p, -n) /\ Shifts(q, p, 0, 0, 0, n)
    BY <1>1, <1>12, ClaimEffect
  <2>2. QED
    BY <1>5, <2>1
<1>13. ASSUME NEW who \in Accounts, emergency_withdraw(who) PROVE PaidInv' /\ KeepsPrincipal
  <2>1. PICK q \in Participant, p \in Participant, f \in Int :
          /\ Changes(who, q, p, f) /\ Shifts(q, p, 0, unwithdrawn(q), 0, 0) /\ unwithdrawn(q) > 0
          /\ pool.is_emergency
    BY <1>1, <1>13, ExitEffect
  <2>2. PICK w \in Nat : w = unwithdrawn(q)
    BY <2>1 DEF unwithdrawn, Participant
  <2>3. QED
    BY <1>5, <2>1, <2>2
<1>14. ASSUME NEW who \in Accounts, NEW amount \in Yields, credit_yield(who, amount) PROVE PaidInv' /\ KeepsPrincipal
  <2>1. amount \in Nat
    BY <1>2
  <2>2. PICK q \in Participant, p \in Participant : Changes(who, q, p, amount) /\ Shifts(q, p, 0, 0, amount, 0)
    BY <1>1, <1>14, <2>1, CreditEffect
  <2>3. QED
    BY <1>5, <2>1, <2>2
<1>15. ASSUME NEW who \in Accounts, withdraw(who) PROVE PaidInv' /\ KeepsPrincipal
  <2>1. PICK q \in Participant, p \in Participant, n \in Nat :
          Changes(who, q, p, -n) /\ Shifts(q, p, 0, n, 0, 0) /\ custody' = custody - n
    BY <1>1, <1>15, WithdrawEffect
  <2>2. n <= custody - custody'
    BY <1>1, <2>1
  <2>3. QED
    BY <1>5, <2>1, <2>2
<1>16. ASSUME NEW who \in Accounts, withdraw_locked(who) PROVE PaidInv' /\ KeepsPrincipal
  <2>1. /\ has_participant(who) /\ custody' = custody - load_participant(who).deposited /\ ~has_participant(who)'
        /\ \A a \in Accounts \ {who} :
              /\ has_participant(a)' <=> has_participant(a)
              /\ has_participant(a) => load_participant(a)' = load_participant(a)
    BY <1>1, <1>16, LockedEffect
  <2>2. PICK q \in Participant : q = load_participant(who) /\ q = part[who] /\ who \in DOMAIN part
    BY <1>1, <2>1, LoadedRecord DEF has_participant, load_participant
  <2>3. q.deposited \in Nat /\ q.withdrawn \in Int /\ q.withdrawn >= 0
    BY <2>2 DEF PaidInv, Participant
  <2>4. PICK n \in Nat : n = q.deposited
    BY <2>3
  <2>5. ASSUME NEW a \in Accounts PROVE Owed(a) - Owed(a)' <= n
    <3>1. CASE a = who
      <4>1. Owed(a) = q.deposited - q.withdrawn /\ Owed(a)' = 0
        BY <2>1, <2>2, <3>1 DEF Owed, unwithdrawn
      <4>2. QED
        BY <2>3, <2>4, <4>1
    <3>2. CASE a # who
      <4>1. Owed(a)' = Owed(a)
        BY <2>1, <3>2 DEF Owed, unwithdrawn
      <4>2. Owed(a) \in Int
        BY <1>1, DuesAreNumbers, BooksInForce
      <4>3. QED
        BY <4>1, <4>2
    <3>3. QED
      BY <3>1, <3>2
  <2>6. legacy' = [a \in {} |-> {}] /\ \A a \in DOMAIN part' : part'[a].withdrawn >= 0
    BY <1>1, <1>16 DEF withdraw_locked, Without, PaidInv
  <2>7. FallsBy(n) /\ n <= custody - custody'
    BY <1>1, <2>1, <2>2, <2>4, <2>5 DEF FallsBy
  <2>8. QED
    BY <1>3, <2>6, <2>7
<1>17. ASSUME NEW who \in Accounts, cancel_withdrawal_request(who) PROVE PaidInv' /\ KeepsPrincipal
  BY <1>4, <1>17 DEF cancel_withdrawal_request
<1>18. CASE UNCHANGED vars
  BY <1>4, <1>18 DEF vars
<1>19. CASE Next
  <2>1. ASSUME NEW who \in Accounts, RecordStep(who) PROVE PaidInv' /\ KeepsPrincipal
    BY <2>1, <1>10, <1>11, <1>12, <1>13, <1>14 DEF RecordStep
  <2>2. QED
    BY <1>6, <1>7, <1>8, <1>9, <1>15, <1>16, <1>17, <1>19, <2>1, StepKinds
<1>20. QED
  BY <1>18, <1>19

\* Outside an emergency no call takes principal from a participant without
\* paying at least as much out in the same call, as long as no V1 record is on
\* file (deposit drops such a record together with its principal).
THEOREM PrincipalIsKept ==
    ASSUME LegacyUsers = {}
    PROVE  Spec => PrincipalKept
<1>1. Init => PaidInv
  <2>1. Init => PoolInv
    BY PoolStart
  <2>2. QED
    BY <2>1 DEF Init, PaidInv
<1>2. PaidInv /\ [Next]_vars => PaidInv' /\ [KeepsPrincipal]_vars
  BY PaidStep
<1>3. Spec => [][KeepsPrincipal]_vars
  BY <1>1, <1>2, PTL DEF Spec
<1>4. QED
  BY <1>3 DEF PrincipalKept, KeepsPrincipal, FallsBy

-----------------------------------------------------------------------------
(* Payments, with emergencies, when no withdrawal is queued.                 *)

FairRecord(p) == 0 <= p.withdrawn /\ p.withdrawn <= p.deposited /\ p.claimed <= p.yield + p.prize

AllFair == \A a \in Accounts : has_participant(a) => FairRecord(load_participant(a))

OverpaidInv == PoolInv /\ queue = <<>> /\ AllFair

\* One record changes, and no more is paid on it than is owed.
LEMMA ChangeFair ==
    ASSUME RecordTypes, MoneyTypes, AllFair, NEW who \in Accounts, NEW q \in Participant, NEW p \in Participant, NEW f,
           Changes(who, q, p, f), NEW d \in Nat, NEW w \in Nat, NEW r \in Nat, NEW c \in Nat, Shifts(q, p, d, w, r, c),
           w = 0 \/ w <= unwithdrawn(q), c = 0 \/ c <= unclaimed(q)
    PROVE  AllFair'
<1>1. Starts(who, q) /\ save_participant(who, p)
  BY DEF Changes
<1>2. FairRecord(q)
  <2>1. CASE q = NewParticipant
    BY <2>1, NewRecord DEF FairRecord
  <2>2. CASE has_participant(who) /\ q = load_participant(who)
    BY <2>2 DEF AllFair
  <2>3. QED
    BY <1>1, <2>1, <2>2 DEF Starts, has_participant, load_participant
<1>3. /\ q.deposited \in Nat /\ q.withdrawn \in Int /\ q.yield \in Nat /\ q.prize \in Nat /\ q.claimed \in Nat
      /\ p.yield \in Nat /\ p.prize \in Nat
  BY DEF Participant
<1>4. FairRecord(p)
  BY <1>2, <1>3 DEF FairRecord, Shifts, unwithdrawn, unclaimed
<1>5. /\ load_participant(who)' = p
      /\ \A a \in Accounts \ {who} : /\ has_participant(a)' <=> has_participant(a)
                                     /\ has_participant(a) => load_participant(a)' = load_participant(a)
  BY <1>1, RecordSaved
<1>6. ASSUME NEW a \in Accounts, has_participant(a)' PROVE FairRecord(load_participant(a)')
  <2>1. CASE a = who
    BY <1>4, <1>5, <2>1
  <2>2. CASE a # who
    BY <1>5, <1>6, <2>2 DEF AllFair
  <2>3. QED
    BY <2>1, <2>2
<1>7. QED
  BY <1>6 DEF AllFair, FairRecord

\* With nothing queued a fulfilment changes no record.
LEMMA FulfillsNothing ==
    ASSUME OverpaidInv, NEW max, fulfill_withdrawal_queue(max)
    PROVE  queue' = <<>> /\ AllFair'
<1>1. PoolInv /\ queue = <<>> /\ Len(queue) = 0 /\ head = 1
  BY DEF OverpaidInv, PoolInv, QueueGood
<1>2. PICK s : s = FulfillStart
  OBVIOUS
<1>3. s.queue = queue /\ s.head = head /\ s.part = part
  BY <1>2 DEF FulfillStart
<1>4. FulfillNext(s, max) = s
  BY <1>1, <1>3 DEF FulfillNext
<1>5. FulfillLoop(max) \in {s}
  BY <1>1, <1>2, <1>4, LoopByInduction
<1>6. queue' = queue /\ part' = part /\ legacy' = [a \in DOMAIN legacy \ DOMAIN part |-> legacy[a]]
  BY <1>3, <1>5 DEF fulfill_withdrawal_queue
<1>7. \A a \in Accounts : /\ has_participant(a)' <=> has_participant(a)
                          /\ has_participant(a) => load_participant(a)' = load_participant(a)
  BY <1>6 DEF has_participant, load_participant
<1>8. QED
  BY <1>1, <1>6, <1>7 DEF OverpaidInv, AllFair, FairRecord

\* No step overpays.
LEMMA OverpaidStep ==
    ASSUME MaxRequests = 0, OverpaidInv, [Next]_vars
    PROVE  OverpaidInv'
<1>1. PoolInv /\ PoolInv' /\ RecordTypes /\ MoneyTypes /\ AllFair /\ queue = <<>> /\ custody \in Nat
  <2>1. PoolInv
    BY DEF OverpaidInv
  <2>2. PoolInv'
    BY <2>1, PoolStep
  <2>3. QED
    BY <2>1, <2>2 DEF OverpaidInv, PoolInv, MoneyTypes
<1>2. Amounts \subseteq Nat /\ Yields \subseteq Nat /\ Prizes \subseteq Nat
  BY AccountingAssumption
<1> SUFFICES queue' = queue /\ AllFair'
  BY <1>1 DEF OverpaidInv
<1>3. ASSUME UNCHANGED <<part, legacy>> PROVE AllFair'
  BY <1>1, <1>3 DEF AllFair, FairRecord, has_participant, load_participant
<1>4. CASE QuietStep
  BY <1>1, <1>3, <1>4, QuietEffect DEF Quiet, queueVars
<1>5. CASE (\E assets \in Assets : TriggerEmergency(assets)) \/ (\E amount \in Releases : ReleaseEscrow(amount))
  BY <1>1, <1>3, <1>5, EmergencyEffect DEF Quiet, queueVars
<1>6. ASSUME NEW prize \in Prizes, draw_winner(prize) PROVE queue' = queue /\ AllFair'
  <2>1. PICK q \in Participant, p \in Participant : Changes(Admin, q, p, 0) /\ Shifts(q, p, 0, 0, prize, 0)
    BY <1>1, <1>2, <1>6, DrawEffect
  <2>2. Admin \in Accounts /\ prize \in Nat
    BY <1>2, AccountingAssumption
  <2>3. AllFair'
    BY <1>1, <2>1, <2>2, ChangeFair
  <2>4. QED
    BY <1>6, <2>3 DEF draw_winner, queueVars
<1>7. ASSUME NEW max \in Batches, fulfill_withdrawal_queue(max) PROVE queue' = queue /\ AllFair'
  BY <1>1, <1>7, FulfillsNothing
<1>8. ASSUME NEW who \in Accounts, RecordStep(who) PROVE queue' = queue /\ AllFair'
  <2>1. queue' = queue
    BY <1>1, <1>8, RecordStepTypes DEF queueVars
  <2>2. CASE join(who)
    <3>1. PICK q \in Participant, p \in Participant : Changes(who, q, p, 0) /\ Shifts(q, p, 0, 0, 0, 0)
      BY <1>1, <2>2, JoinEffect
    <3>2. QED
      BY <1>1, <2>1, <3>1, ChangeFair
  <2>3. CASE \/ \E amount \in Amounts : deposit(who, amount)
             \/ \E amount \in Amounts, ledgers \in Lockups : deposit_with_duration(who, amount, ledgers)
    <3>1. PICK amount \in Nat : \/ deposit(who, amount)
                                \/ \E ledgers \in Lockups : deposit_with_duration(who, amount, ledgers)
      BY <1>2, <2>3
    <3>2. PICK q \in Participant, p \in Participant : Changes(who, q, p, amount) /\ Shifts(q, p, amount, 0, 0, 0)
      BY <1>1, <3>1, DepositEffect, Zenon
    <3>3. QED
      BY <1>1, <2>1, <3>2, ChangeFair
  <2>4. CASE claim_reward(who) \/ sweep_unclaimed(who)
    <3>1. PICK q \in Participant, p \in Participant, n \in Nat :
            /\ Changes(who, q, p, -n) /\ Shifts(q, p, 0, 0, 0, n)
            /\ n = (IF unclaimed(q) > 0 THEN unclaimed(q) ELSE 0)
      BY <1>1, <2>4, ClaimEffect
    <3>2. n = 0 \/ n <= unclaimed(q)
      BY <3>1
    <3>3. QED
      BY <1>1, <2>1, <3>1, <3>2, ChangeFair
  <2>5. CASE emergency_withdraw(who)
    <3>1. PICK q \in Participant, p \in Participant, f \in Int :
            Changes(who, q, p, f) /\ Shifts(q, p, 0, unwithdrawn(q), 0, 0) /\ unwithdrawn(q) > 0
      BY <1>1, <2>5, ExitEffect
    <3>2. PICK w \in Nat : w = unwithdrawn(q) /\ w <= unwithdrawn(q)
      BY <3>1 DEF unwithdrawn, Participant
    <3>3. QED
      BY <1>1, <2>1, <3>1, <3>2, ChangeFair
  <2>6. CASE \E amount \in Yields : credit_yield(who, amount)
    <3>1. PICK amount \in Nat : credit_yield(who, amount)
      BY <1>2, <2>6
    <3>2. PICK q \in Participant, p \in Participant : Changes(who, q, p, amount) /\ Shifts(q, p, 0, 0, amount, 0)
      BY <1>1, <3>1, CreditEffect
    <3>3. QED
      BY <1>1, <2>1, <3>2, ChangeFair
  <2>7. QED
    BY <1>8, <2>2, <2>3, <2>4, <2>5, <2>6 DEF RecordStep
<1>9. ASSUME NEW who \in Accounts, withdraw(who) PROVE queue' = queue /\ AllFair'
  <2>1. PICK q \in Participant, p \in Participant, n \in Nat :
          /\ Changes(who, q, p, -n) /\ Shifts(q, p, 0, n, 0, 0)
          /\ \/ n = unwithdrawn(q) /\ UNCHANGED queueVars
             \/ n = 0 /\ unwithdrawn(q) \in Nat /\ enqueue_withdrawal(who, unwithdrawn(q))
    BY <1>1, <1>9, WithdrawEffect
  <2>2. ~enqueue_withdrawal(who, unwithdrawn(q))
    BY <1>1 DEF enqueue_withdrawal
  <2>3. n <= unwithdrawn(q) /\ queue' = queue
    BY <2>1, <2>2 DEF queueVars
  <2>4. QED
    BY <1>1, <2>1, <2>3, ChangeFair
<1>10. ASSUME NEW who \in Accounts, withdraw_locked(who) PROVE queue' = queue /\ AllFair'
  <2>1. /\ ~has_participant(who)' /\ queue' = queue
        /\ \A a \in Accounts \ {who} :
              /\ has_participant(a)' <=> has_participant(a)
              /\ has_participant(a) => load_participant(a)' = load_participant(a)
    BY <1>1, <1>10, LockedEffect DEF queueVars
  <2>2. QED
    BY <1>1, <2>1 DEF AllFair, FairRecord
<1>11. ASSUME NEW who \in Accounts, cancel_withdrawal_request(who) PROVE queue' = queue /\ AllFair'
  <2>1. pending[who] = 0
    <3>1. Len(queue) = 0 /\ pending \in [Accounts -> 0 .. Len(queue)]
      BY <1>1 DEF PoolInv, QueueGood
    <3>2. QED
      BY <3>1
  <2>2. QED
    BY <1>11, <2>1 DEF cancel_withdrawal_request
<1>12. CASE UNCHANGED vars
  BY <1>3, <1>12 DEF vars, queueVars
<1>13. QED
  <2>1. CASE Next
    BY <2>1, <1>4, <1>5, <1>6, <1>7, <1>8, <1>9, <1>10, <1>11, StepKinds
  <2>2. QED
    BY <2>1, <1>12

\* Where nothing is queued, deposits, withdraw, emergency_withdraw, claims,
\* sweeps, prizes and declared emergencies in any order never leave on file a
\* record that was paid more principal than was deposited or more rewards than
\* were credited.  (withdraw_locked deletes the record it pays.)
THEOREM NobodyIsOverpaid ==
    ASSUME MaxRequests = 0
    PROVE  Spec => []NeverOverpaid
<1>1. ASSUME Init PROVE OverpaidInv
  <2>1. PoolInv
    BY <1>1, PoolStart
  <2>2. PICK p : p = [deposited |-> LegacyPrincipal, withdrawn |-> 0, locked_until |-> 0,
                      yield |-> 0, prize |-> 0, claimed |-> 0]
    OBVIOUS
  <2>3. FairRecord(p)
    BY <2>2 DEF FairRecord, LegacyPrincipal
  <2>4. AllFair
    BY <1>1, <2>2, <2>3 DEF Init, AllFair, has_participant, load_participant
  <2>5. QED
    BY <1>1, <2>1, <2>4 DEF Init, OverpaidInv
<1>2. OverpaidInv /\ [Next]_vars => OverpaidInv'
  BY OverpaidStep
<1>3. OverpaidInv => NeverOverpaid
  <2> SUFFICES ASSUME OverpaidInv, NEW a \in DOMAIN part
               PROVE  part[a].withdrawn \in 0 .. part[a].deposited /\ part[a].claimed <= part[a].yield + part[a].prize
    BY DEF NeverOverpaid
  <2>1. PICK p \in Participant : p = part[a] /\ a \in Accounts
    BY DEF OverpaidInv, PoolInv, RecordTypes, Records
  <2>2. FairRecord(p)
    BY <2>1 DEF OverpaidInv, AllFair, has_participant, load_participant
  <2>3. p.withdrawn \in Int /\ p.deposited \in Nat
    BY DEF Participant
  <2>4. QED
    BY <2>1, <2>2, <2>3 DEF FairRecord
<1>4. QED
  BY <1>1, <1>2, <1>3, PTL DEF Spec
=============================================================================
