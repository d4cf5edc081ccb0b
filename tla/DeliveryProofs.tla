--------------------------- MODULE DeliveryProofs ---------------------------
(***************************************************************************)
(* The job lease for any number of processes, any TTL and any delay, the   *)
(* indexer for any stream, batch size and number of mishaps, and the query *)
(* cache for any page and any number of writes and outages; at the end,    *)
(* all three as MCSpec composes them.                                      *)
(***************************************************************************)
EXTENDS MCDelivery, WellFoundedInduction, TLAPS

\* What holds of the lease whatever ticks share a process: types, one row, and
\* no takeover compares with a time still to come.
LeaseTypes == TypeOK /\ \A t \in Ticks : tick[t].seen <= now

\* A tick that may believe in its lease is the one the row names, until the
\* time it knows.  This is what excludes: there is one row.
FreshOwnsRow ==
    \A t \in Ticks : Fresh(t) => \E row \in lease : row.worker = WorkerOf[t] /\ row.expires = tick[t].exp

\* A tick that is not running.
LEMMA IdleTickFits == IdleTick \in TickState /\ IdleTick.pc = "idle" /\ IdleTick.seen = 0 /\ IdleTick.beats = {}
<1>1. FALSE \in BOOLEAN /\ {} \in SUBSET Nat
  OBVIOUS
<1>2. QED
  BY <1>1 DEF IdleTick, TickState

\* The types the steps start from.
LEMMA LeaseFacts ==
    ASSUME LeaseTypes
    PROVE  /\ lease \subseteq Row /\ \A r1, r2 \in lease : r1 = r2
           /\ tick \in [Ticks -> TickState] /\ now \in Nat /\ MaxTime \in Nat /\ now <= MaxTime
           /\ TTL \in Nat /\ TTL > 0 /\ alive \subseteq Workers
           /\ \A t \in Ticks : tick[t] \in TickState /\ tick[t].seen <= now /\ WorkerOf[t] \in Workers
BY LeaseAssumption DEF LeaseTypes, TypeOK

\* One tick moves and the row is replaced by at most one row.
LEMMA OneTickMoves ==
    ASSUME LeaseTypes, NEW t \in Ticks, tick' = [tick EXCEPT ![t] = tick'[t]],
           tick'[t] \in TickState, tick'[t].seen <= now,
           lease' \subseteq Row, \A r1, r2 \in lease' : r1 = r2, UNCHANGED <<now, alive>>
    PROVE  /\ LeaseTypes'
           /\ \A s \in Ticks : s # t => tick'[s] = tick[s]
<1>1. tick' \in [Ticks -> TickState] /\ \A s \in Ticks : s # t => tick'[s] = tick[s]
  BY LeaseFacts
<1>2. QED
  BY <1>1, LeaseFacts DEF LeaseTypes, TypeOK

\* withJobLease returns.
LEMMA ReturnedFits ==
    ASSUME LeaseTypes, NEW t \in Ticks
    PROVE  Returned(t) \in TickState /\ Returned(t).pc = "idle" /\ Returned(t).seen <= now
<1>1. tick[t] \in TickState /\ tick[t].seen <= now /\ now \in Nat
  BY LeaseFacts
<1>2. PICK w \in TickState : w = tick[t] /\ w.seen <= now
  BY <1>1
<1>3. [w EXCEPT !.pc = "idle"] \in TickState /\ [w EXCEPT !.pc = "idle"].pc = "idle"
      /\ [w EXCEPT !.pc = "idle"].seen = w.seen
  BY <1>2 DEF TickState
<1>4. QED
  BY <1>1, <1>2, <1>3, IdleTickFits DEF Returned

\* A heartbeat resolves.
LEMMA SettledFits ==
    ASSUME LeaseTypes, NEW t \in Ticks, NEW e \in Nat, NEW l \in BOOLEAN
    PROVE  /\ Settled(t, e, l) \in TickState /\ Settled(t, e, l).pc = tick[t].pc /\ Settled(t, e, l).seen <= now
           /\ tick[t].pc # "idle" => Settled(t, e, l).exp = e /\ Settled(t, e, l).lost = l
<1>1. tick[t] \in TickState /\ tick[t].seen <= now /\ now \in Nat
  BY LeaseFacts
<1>2. PICK w \in TickState : w = tick[t] /\ w.seen <= now
  BY <1>1
<1>3. PICK B \in SUBSET Nat : B = {}
  OBVIOUS
<1> DEFINE v == [w EXCEPT !.beats = B, !.exp = e, !.lost = l]
<1>4. v \in TickState
  BY <1>2, <1>3 DEF TickState
<1>5. v.pc = w.pc /\ v.seen = w.seen /\ v.exp = e
  BY <1>2, <1>3 DEF TickState
<1>6. v.lost = l
  BY <1>2 DEF TickState
<1>7. Settled(t, e, l) = IF w.pc = "idle" THEN IdleTick ELSE v
  BY <1>2, <1>3 DEF Settled
<1> HIDE DEF v
<1>8. CASE w.pc = "idle"
  BY <1>1, <1>2, <1>7, <1>8, IdleTickFits
<1>9. CASE w.pc # "idle"
  <2>1. Settled(t, e, l) = v
    BY <1>7, <1>9
  <2>2. v.lost = l
    BY <1>6
  <2>3. Settled(t, e, l).lost = l
    BY <2>1, <2>2, Zenon
  <2>4. QED
    BY <1>1, <1>2, <1>4, <1>5, <2>1, <2>3
<1>10. QED
  BY <1>8, <1>9

\* Every tick its own process.  Where two ticks share one, the lease does not
\* exclude them: Release compares the worker alone.
OneTickPerProcess == \A s, t \in Ticks : WorkerOf[s] = WorkerOf[t] => s = t

\* A tick moves without touching the row: it must own the row if it is fresh.
LEMMA RowKept ==
    ASSUME FreshOwnsRow, NEW t \in Ticks, UNCHANGED <<lease, now>>,
           \A s \in Ticks : s # t => tick'[s] = tick[s],
           Fresh(t)' => \E row \in lease : row.worker = WorkerOf[t] /\ row.expires = tick'[t].exp
    PROVE  FreshOwnsRow'
<1> SUFFICES ASSUME NEW s \in Ticks, Fresh(s)'
             PROVE  \E row \in lease' : row.worker = WorkerOf[s] /\ row.expires = tick'[s].exp
  BY DEF FreshOwnsRow
<1>1. CASE s = t
  BY <1>1
<1>2. CASE s # t
  <2>1. tick'[s] = tick[s]
    BY <1>2
  <2>2. Fresh(s)
    BY <2>1 DEF Fresh, Holding
  <2>3. QED
    BY <2>1, <2>2 DEF FreshOwnsRow
<1>3. QED
  BY <1>1, <1>2

\* The schedule fires.
LEMMA FireStep == ASSUME LeaseTypes, NEW t \in Ticks, Fire(t) PROVE LeaseTypes' /\ (FreshOwnsRow => FreshOwnsRow')
<1>0. UNCHANGED <<lease, now, alive>> /\ now \in Nat /\ lease \subseteq Row /\ \A r1, r2 \in lease : r1 = r2
  BY LeaseFacts DEF Fire
<1>1. PICK e \in Nat : e = now + TTL
  BY LeaseFacts
<1>2. tick'[t] = [IdleTick EXCEPT !.pc = "create", !.exp = e] /\ tick' = [tick EXCEPT ![t] = tick'[t]]
  BY <1>1, LeaseFacts DEF Fire
<1>3. tick'[t] \in TickState /\ tick'[t].seen <= now /\ tick'[t].pc = "create"
  <2>1. PICK w \in TickState : w = IdleTick /\ w.seen <= now
    BY <1>0, IdleTickFits
  <2>2. tick'[t] = [w EXCEPT !.pc = "create", !.exp = e]
    BY <1>2, <2>1
  <2>3. tick'[t] \in TickState
    BY <1>1, <2>2 DEF TickState
  <2>4. QED
    BY <2>1, <2>2, <2>3 DEF TickState
<1>4. LeaseTypes' /\ \A s \in Ticks : s # t => tick'[s] = tick[s]
  BY <1>0, <1>2, <1>3, OneTickMoves
<1>5. ~ Fresh(t)'
  BY <1>3 DEF Fresh, Holding
<1>6. QED
  BY <1>0, <1>4, <1>5, RowKept

\* acquireJobLease inserts the row, or finds one.
LEMMA CreateStep == ASSUME LeaseTypes, NEW t \in Ticks, Create(t) PROVE LeaseTypes' /\ (FreshOwnsRow => FreshOwnsRow')
<1>0. /\ UNCHANGED <<now, alive>> /\ now \in Nat /\ lease \subseteq Row /\ \A r1, r2 \in lease : r1 = r2
      /\ tick[t] \in TickState /\ tick[t].seen <= now /\ WorkerOf[t] \in Workers
  BY LeaseFacts DEF Create
<1>1. CASE /\ lease = {}
           /\ lease' = lease \cup {[worker |-> WorkerOf[t], token |-> 1, expires |-> tick[t].exp]}
           /\ tick' = [tick EXCEPT ![t].pc = "running", ![t].token = 1]
  <2>0. PICK n \in Nat : n = 1
    OBVIOUS
  <2>1. /\ tick'[t] = [tick[t] EXCEPT !.pc = "running", !.token = n]
        /\ tick' = [tick EXCEPT ![t] = tick'[t]]
    BY <1>1, <2>0, LeaseFacts
  <2>2. tick'[t] \in TickState
    BY <1>0, <2>1 DEF TickState
  <2>3. tick'[t].seen = tick[t].seen /\ tick'[t].exp = tick[t].exp
    BY <1>0, <2>1 DEF TickState
  <2>4. PICK r : r = [worker |-> WorkerOf[t], token |-> 1, expires |-> tick[t].exp]
    OBVIOUS
  <2>5. lease' = {r} /\ r \in Row /\ r.worker = WorkerOf[t] /\ r.expires = tick[t].exp
    BY <1>0, <1>1, <2>4 DEF Row, TickState
  <2>6. LeaseTypes' /\ \A s \in Ticks : s # t => tick'[s] = tick[s]
    BY <1>0, <2>1, <2>2, <2>3, <2>5, OneTickMoves
  <2>7. ASSUME FreshOwnsRow, NEW s \in Ticks, s # t PROVE ~ Fresh(s)'
    <3>1. tick'[s] = tick[s] /\ ~ Fresh(s)
      BY <1>1, <2>6, <2>7 DEF FreshOwnsRow
    <3>2. QED
      BY <1>0, <3>1 DEF Fresh, Holding
  <2>8. QED
    BY <2>3, <2>5, <2>6, <2>7 DEF FreshOwnsRow
<1>2. CASE UNCHANGED lease /\ tick' = [tick EXCEPT ![t].pc = "takeover", ![t].seen = now]
  <2>1. /\ tick'[t] = [tick[t] EXCEPT !.pc = "takeover", !.seen = now]
        /\ tick' = [tick EXCEPT ![t] = tick'[t]]
    BY <1>2, LeaseFacts
  <2>2. tick'[t] \in TickState
    BY <1>0, <2>1 DEF TickState
  <2>3. tick'[t].seen <= now /\ tick'[t].pc = "takeover"
    BY <1>0, <2>1 DEF TickState
  <2>4. LeaseTypes' /\ \A s \in Ticks : s # t => tick'[s] = tick[s]
    BY <1>0, <1>2, <2>1, <2>2, <2>3, OneTickMoves
  <2>5. ~ Fresh(t)'
    BY <2>3 DEF Fresh, Holding
  <2>6. QED
    BY <1>0, <1>2, <2>4, <2>5, RowKept
<1>3. QED
  BY <1>1, <1>2 DEF Create, Vacant

\* The takeover replaces a row whose expiry has passed, and with it the last
\* tick that could believe in it.
LEMMA TakeOverStep == ASSUME LeaseTypes, NEW t \in Ticks, TakeOver(t) PROVE LeaseTypes' /\ (FreshOwnsRow => FreshOwnsRow')
<1>0. /\ UNCHANGED <<now, alive>> /\ now \in Nat /\ lease \subseteq Row /\ \A r1, r2 \in lease : r1 = r2
      /\ tick[t] \in TickState /\ tick[t].seen <= now /\ WorkerOf[t] \in Workers
  BY LeaseFacts DEF TakeOver
<1>1. ASSUME NEW row \in Expired(t),
             lease' = {[worker |-> WorkerOf[t], token |-> row.token + 1, expires |-> tick[t].exp]},
             tick' = [tick EXCEPT ![t].pc = "running", ![t].token = row.token + 1]
      PROVE  LeaseTypes' /\ (FreshOwnsRow => FreshOwnsRow')
  <2>0. row \in lease /\ row \in Row /\ row.expires <= tick[t].seen
    BY <1>0 DEF Expired
  <2>1. PICK n \in Nat : n = row.token + 1
    BY <2>0 DEF Row
  <2>2. /\ tick'[t] = [tick[t] EXCEPT !.pc = "running", !.token = n]
        /\ tick' = [tick EXCEPT ![t] = tick'[t]]
    BY <1>1, <2>1, LeaseFacts
  <2>3. tick'[t] \in TickState
    BY <1>0, <2>2 DEF TickState
  <2>4. tick'[t].seen = tick[t].seen /\ tick'[t].exp = tick[t].exp
    BY <1>0, <2>2 DEF TickState
  <2>5. PICK r : r = [worker |-> WorkerOf[t], token |-> n, expires |-> tick[t].exp]
    OBVIOUS
  <2>6. lease' = {r} /\ r \in Row /\ r.worker = WorkerOf[t] /\ r.expires = tick[t].exp
    BY <1>0, <1>1, <2>1, <2>5 DEF Row, TickState
  <2>7. LeaseTypes' /\ \A s \in Ticks : s # t => tick'[s] = tick[s]
    BY <1>0, <2>2, <2>3, <2>4, <2>6, OneTickMoves
  <2>8. ASSUME FreshOwnsRow, NEW s \in Ticks, s # t PROVE ~ Fresh(s)'
    <3>1. tick'[s] = tick[s] /\ tick[s] \in TickState
      BY <2>7, <2>8, LeaseFacts
    <3>2. row.expires \in Nat /\ tick[t].seen \in Nat /\ tick[s].exp \in Nat
      BY <1>0, <2>0, <3>1 DEF Row, TickState
    <3>3. ~ Fresh(s)
      <4>1. SUFFICES ASSUME Fresh(s) PROVE FALSE
        OBVIOUS
      <4>2. PICK r2 \in lease : r2.expires = tick[s].exp
        BY <2>8, <4>1 DEF FreshOwnsRow
      <4>3. r2 = row /\ tick[s].exp > now
        BY <1>0, <2>0, <4>1, <4>2 DEF Fresh
      <4>4. QED
        BY <1>0, <2>0, <3>2, <4>2, <4>3
    <3>4. QED
      BY <1>0, <3>1, <3>3 DEF Fresh, Holding
  <2>9. QED
    BY <2>4, <2>6, <2>7, <2>8 DEF FreshOwnsRow
<1>2. CASE UNCHANGED lease /\ tick' = [tick EXCEPT ![t] = IdleTick]
  <2>1. tick'[t] = IdleTick /\ tick' = [tick EXCEPT ![t] = tick'[t]]
    BY <1>2, LeaseFacts
  <2>2. LeaseTypes' /\ \A s \in Ticks : s # t => tick'[s] = tick[s]
    <3>1. IdleTick.seen <= now
      BY <1>0, IdleTickFits
    <3>2. QED
      BY <1>0, <1>2, <2>1, <3>1, IdleTickFits, OneTickMoves
  <2>3. ~ Fresh(t)'
    BY <2>1, IdleTickFits DEF Fresh, Holding
  <2>4. QED
    BY <1>0, <1>2, <2>2, <2>3, RowKept
<1>3. QED
  BY <1>1, <1>2 DEF TakeOver

\* Issuing a heartbeat.
LEMMA HeartbeatStep == ASSUME LeaseTypes, NEW t \in Ticks, Heartbeat(t) PROVE LeaseTypes' /\ (FreshOwnsRow => FreshOwnsRow')
<1>0. /\ UNCHANGED <<lease, now, alive>> /\ now \in Nat /\ lease \subseteq Row /\ \A r1, r2 \in lease : r1 = r2
      /\ tick[t] \in TickState /\ tick[t].seen <= now
  BY LeaseFacts DEF Heartbeat
<1>1. PICK B \in SUBSET Nat : tick' = [tick EXCEPT ![t] = [tick[t] EXCEPT !.beats = B]]
  BY LeaseFacts DEF Heartbeat
<1>2. tick'[t] = [tick[t] EXCEPT !.beats = B] /\ tick' = [tick EXCEPT ![t] = tick'[t]]
  BY <1>1, LeaseFacts
<1>3. tick'[t] \in TickState
  BY <1>0, <1>2 DEF TickState
<1>4. tick'[t].seen = tick[t].seen /\ tick'[t].exp = tick[t].exp /\ tick'[t].pc = tick[t].pc
  BY <1>0, <1>2 DEF TickState
<1>5. tick'[t].lost = tick[t].lost
  BY <1>0, <1>2 DEF TickState
<1>6. LeaseTypes' /\ \A s \in Ticks : s # t => tick'[s] = tick[s]
  BY <1>0, <1>2, <1>3, <1>4, OneTickMoves
<1>7. Fresh(t)' => Fresh(t)
  BY <1>0, <1>4, <1>5, Zenon DEF Fresh, Holding
<1>8. QED
  BY <1>0, <1>4, <1>6, <1>7, RowKept DEF FreshOwnsRow

\* The heartbeat's update finds the row with the tick's worker and token: the
\* row and the tick agree on the new expiry, and no other tick owns the row.
LEMMA RenewStep ==
    ASSUME LeaseTypes, NEW t \in Ticks, Renew(t)
    PROVE  LeaseTypes' /\ (OneTickPerProcess /\ FreshOwnsRow => FreshOwnsRow')
<1>0. /\ UNCHANGED <<now, alive>> /\ now \in Nat /\ lease \subseteq Row /\ \A r1, r2 \in lease : r1 = r2
      /\ tick[t] \in TickState /\ tick[t].seen <= now /\ TTL \in Nat
  BY LeaseFacts DEF Renew
<1>1. PICK sent \in tick[t].beats :
        /\ Renewable(t, sent) # {}
        /\ lease' = {[row EXCEPT !.expires = sent + TTL] : row \in Renewable(t, sent)}
        /\ tick' = [tick EXCEPT ![t] = Settled(t, sent + TTL, tick[t].lost)]
  BY LeaseFacts DEF Renew
<1>2. PICK e \in Nat : e = sent + TTL
  <2>1. sent \in Nat
    BY <1>0, <1>1 DEF TickState
  <2>2. QED
    BY <1>0, <2>1
<1>3. PICK row \in lease : Renewable(t, sent) = {row} /\ row.worker = WorkerOf[t]
  BY <1>0, <1>1 DEF Renewable
<1>4. PICK r : r = [row EXCEPT !.expires = e]
  OBVIOUS
<1>5. lease' = {r} /\ r \in Row /\ r.worker = WorkerOf[t] /\ r.expires = e
  <2>1. lease' = {r}
    BY <1>1, <1>2, <1>3, <1>4
  <2>2. QED
    BY <1>0, <1>2, <1>3, <1>4, <2>1 DEF Row
<1>6. tick[t].lost \in BOOLEAN
  BY <1>0 DEF TickState
<1>7. /\ tick'[t] \in TickState /\ tick'[t].pc = tick[t].pc /\ tick'[t].seen <= now
      /\ tick[t].pc # "idle" => tick'[t].exp = e
      /\ tick' = [tick EXCEPT ![t] = tick'[t]]
  <2>1. tick'[t] = Settled(t, e, tick[t].lost) /\ tick' = [tick EXCEPT ![t] = tick'[t]]
    BY <1>1, <1>2, LeaseFacts
  <2>2. QED
    BY <1>2, <1>6, <2>1, SettledFits
<1>8. LeaseTypes' /\ \A s \in Ticks : s # t => tick'[s] = tick[s]
  BY <1>0, <1>5, <1>7, OneTickMoves
<1>9. ASSUME OneTickPerProcess, FreshOwnsRow, NEW s \in Ticks, Fresh(s)'
      PROVE  \E q \in lease' : q.worker = WorkerOf[s] /\ q.expires = tick'[s].exp
  <2>1. CASE s = t
    BY <1>5, <1>7, <1>9, <2>1 DEF Fresh, Holding
  <2>2. CASE s # t
    <3>1. tick'[s] = tick[s]
      BY <1>8, <2>2
    <3>2. Fresh(s)
      BY <1>0, <1>9, <3>1 DEF Fresh, Holding
    <3>3. row.worker = WorkerOf[s]
      BY <1>0, <1>3, <1>9, <3>2 DEF FreshOwnsRow
    <3>4. QED
      BY <1>3, <1>9, <2>2, <3>3 DEF OneTickPerProcess
  <2>3. QED
    BY <2>1, <2>2
<1>10. QED
  BY <1>8, <1>9 DEF FreshOwnsRow

\* A heartbeat that fails: the tick knows it lost the lease, or is over.
LEMMA RenewFailsStep ==
    ASSUME LeaseTypes, NEW t \in Ticks, RenewFails(t) PROVE LeaseTypes' /\ (FreshOwnsRow => FreshOwnsRow')
<1>0. /\ UNCHANGED <<lease, now, alive>> /\ now \in Nat /\ lease \subseteq Row /\ \A r1, r2 \in lease : r1 = r2
      /\ tick[t] \in TickState
  BY LeaseFacts DEF RenewFails
<1>1. tick'[t] = Settled(t, tick[t].exp, TRUE) /\ tick' = [tick EXCEPT ![t] = tick'[t]]
  BY LeaseFacts DEF RenewFails
<1>2. tick[t].exp \in Nat
  BY <1>0 DEF TickState
<1>3. /\ tick'[t] \in TickState /\ tick'[t].pc = tick[t].pc /\ tick'[t].seen <= now
      /\ tick[t].pc # "idle" => tick'[t].lost = TRUE
  <2>1. PICK e \in Nat, l \in BOOLEAN : e = tick[t].exp /\ l = TRUE
    BY <1>2
  <2>2. tick'[t] = Settled(t, e, l)
    BY <1>1, <2>1
  <2>3. /\ Settled(t, e, l) \in TickState /\ Settled(t, e, l).pc = tick[t].pc /\ Settled(t, e, l).seen <= now
        /\ tick[t].pc # "idle" => Settled(t, e, l).lost = l
    BY SettledFits
  <2>4. QED
    BY <2>1, <2>2, <2>3, Zenon
<1>4. LeaseTypes' /\ \A s \in Ticks : s # t => tick'[s] = tick[s]
  BY <1>0, <1>1, <1>3, OneTickMoves
<1>5. ~ Fresh(t)'
  BY <1>3 DEF Fresh, Holding
<1>6. QED
  BY <1>0, <1>4, <1>5, RowKept

\* The job's body ends: withJobLease returns, or releases first.
LEMMA FinishStep ==
    ASSUME LeaseTypes, NEW t \in Ticks, Finish(t) \/ Fail(t) PROVE LeaseTypes' /\ (FreshOwnsRow => FreshOwnsRow')
<1>0. /\ UNCHANGED <<lease, now, alive>> /\ now \in Nat /\ lease \subseteq Row /\ \A r1, r2 \in lease : r1 = r2
      /\ tick[t] \in TickState /\ tick[t].seen <= now /\ tick[t].pc = "running"
  BY LeaseFacts DEF Finish, Fail
<1>1. CASE tick' = [tick EXCEPT ![t] = Returned(t)]
  <2>1. tick'[t] = Returned(t) /\ tick' = [tick EXCEPT ![t] = tick'[t]]
    BY <1>1, LeaseFacts
  <2>2. LeaseTypes' /\ \A s \in Ticks : s # t => tick'[s] = tick[s]
    BY <1>0, <2>1, ReturnedFits, OneTickMoves
  <2>3. ~ Fresh(t)'
    BY <2>1, ReturnedFits DEF Fresh, Holding
  <2>4. QED
    BY <1>0, <2>2, <2>3, RowKept
<1>2. CASE tick' = [tick EXCEPT ![t] = [tick[t] EXCEPT !.pc = "release"]]
  <2>1. tick'[t] = [tick[t] EXCEPT !.pc = "release"] /\ tick' = [tick EXCEPT ![t] = tick'[t]]
    BY <1>2, LeaseFacts
  <2>2. tick'[t] \in TickState
    BY <1>0, <2>1 DEF TickState
  <2>3. tick'[t].seen = tick[t].seen /\ tick'[t].exp = tick[t].exp
    BY <1>0, <2>1 DEF TickState
  <2>4. tick'[t].lost = tick[t].lost
    BY <1>0, <2>1 DEF TickState
  <2>5. LeaseTypes' /\ \A s \in Ticks : s # t => tick'[s] = tick[s]
    BY <1>0, <2>1, <2>2, <2>3, OneTickMoves
  <2>6. Fresh(t)' => Fresh(t)
    <3>1. Holding(t)
      BY <1>0 DEF Holding
    <3>2. QED
      BY <1>0, <2>3, <2>4, <3>1, Zenon DEF Fresh
  <2>7. QED
    BY <1>0, <2>3, <2>5, <2>6, RowKept DEF FreshOwnsRow
<1>3. QED
  BY <1>1, <1>2, LeaseFacts DEF Finish, Fail

\* The release deletes only rows of its own process.
LEMMA ReleaseStep ==
    ASSUME LeaseTypes, NEW t \in Ticks, Release(t)
    PROVE  LeaseTypes' /\ (OneTickPerProcess /\ FreshOwnsRow => FreshOwnsRow')
<1>0. /\ UNCHANGED <<now, alive>> /\ now \in Nat /\ lease \subseteq Row /\ \A r1, r2 \in lease : r1 = r2
      /\ lease' = {row \in lease : row.worker # WorkerOf[t]}
  BY LeaseFacts DEF Release, Spared
<1>1. tick'[t] = Returned(t) /\ tick' = [tick EXCEPT ![t] = tick'[t]]
  BY LeaseFacts DEF Release
<1>2. LeaseTypes' /\ \A s \in Ticks : s # t => tick'[s] = tick[s]
  BY <1>0, <1>1, ReturnedFits, OneTickMoves
<1>3. ASSUME OneTickPerProcess, FreshOwnsRow, NEW s \in Ticks, Fresh(s)'
      PROVE  \E q \in lease' : q.worker = WorkerOf[s] /\ q.expires = tick'[s].exp
  <2>1. s # t
    BY <1>1, <1>3, ReturnedFits DEF Fresh, Holding
  <2>2. tick'[s] = tick[s]
    BY <1>2, <2>1
  <2>3. Fresh(s)
    BY <1>0, <1>3, <2>2 DEF Fresh, Holding
  <2>4. QED
    BY <1>0, <1>3, <2>1, <2>2, <2>3 DEF FreshOwnsRow, OneTickPerProcess
<1>4. QED
  BY <1>2, <1>3 DEF FreshOwnsRow

\* A process dies, or time passes: nobody becomes fresh.
LEMMA CrashStep ==
    ASSUME LeaseTypes, Advance \/ \E w \in Workers : Crash(w) PROVE LeaseTypes' /\ (FreshOwnsRow => FreshOwnsRow')
<1>1. CASE Advance
  <2>1. LeaseTypes'
    <3>1. now' \in 0 .. MaxTime /\ \A s \in Ticks : tick[s].seen <= now'
      BY <1>1, LeaseFacts DEF Advance, TickState
    <3>2. QED
      BY <1>1, <3>1, LeaseFacts DEF Advance, LeaseTypes, TypeOK
  <2>2. ASSUME NEW s \in Ticks PROVE Fresh(s)' => Fresh(s)
    <3>1. tick[s].exp \in Nat /\ now \in Nat /\ now' = now + 1 /\ tick' = tick
      BY <1>1, LeaseFacts DEF Advance, TickState
    <3>2. tick[s].exp > now' => tick[s].exp > now
      BY <3>1
    <3>3. QED
      BY <3>1, <3>2, Zenon DEF Fresh, Holding
  <2>3. QED
    BY <1>1, <2>1, <2>2 DEF FreshOwnsRow, Advance
<1>2. ASSUME NEW w \in Workers, Crash(w) PROVE LeaseTypes' /\ (FreshOwnsRow => FreshOwnsRow')
  <2>1. /\ tick' = [t \in Ticks |-> IF WorkerOf[t] = w THEN IdleTick ELSE tick[t]]
        /\ UNCHANGED <<lease, now>> /\ alive' \subseteq Workers
    BY <1>2, LeaseFacts DEF Crash
  <2>2. ASSUME NEW s \in Ticks
        PROVE  /\ tick'[s] \in TickState /\ tick'[s].seen <= now
               /\ Fresh(s)' => Fresh(s) /\ tick'[s] = tick[s]
    <3>1. CASE tick'[s] = IdleTick
      BY <3>1, IdleTickFits, LeaseFacts DEF Fresh, Holding
    <3>2. CASE tick'[s] = tick[s]
      BY <2>1, <3>2, LeaseFacts DEF Fresh, Holding
    <3>3. QED
      BY <2>1, <3>1, <3>2
  <2>3. LeaseTypes'
    BY <2>1, <2>2, LeaseFacts DEF LeaseTypes, TypeOK
  <2>4. QED
    BY <2>1, <2>2, <2>3 DEF FreshOwnsRow
<1>3. QED
  BY <1>1, <1>2

\* Every step keeps the types, and the ownership where ticks do not share a
\* process.
LEMMA LeaseNextInv ==
    /\ LeaseTypes /\ [Next]_vars => LeaseTypes'
    /\ LeaseTypes /\ OneTickPerProcess /\ FreshOwnsRow /\ [Next]_vars => FreshOwnsRow'
<1> SUFFICES ASSUME LeaseTypes, [Next]_vars PROVE LeaseTypes' /\ (OneTickPerProcess /\ FreshOwnsRow => FreshOwnsRow')
  OBVIOUS
<1>1. CASE Advance \/ \E w \in Workers : Crash(w)
  BY <1>1, CrashStep
<1>2. ASSUME NEW t \in Ticks, Step(t) PROVE LeaseTypes' /\ (OneTickPerProcess /\ FreshOwnsRow => FreshOwnsRow')
  BY <1>2, FireStep, CreateStep, TakeOverStep, HeartbeatStep, RenewStep, RenewFailsStep, FinishStep, ReleaseStep
     DEF Step, Acquiring, Beating, Ending
<1>3. CASE UNCHANGED vars
  <2>1. LeaseTypes'
    BY <1>3 DEF vars, LeaseTypes, TypeOK
  <2>2. \A t \in Ticks : Fresh(t)' => Fresh(t)
    BY <1>3 DEF vars, Fresh, Holding
  <2>3. QED
    BY <1>3, <2>1, <2>2 DEF vars, FreshOwnsRow
<1>4. QED
  BY <1>1, <1>2, <1>3 DEF Next

\* The invariant holds initially.
LEMMA LeaseInitInv == Init => LeaseTypes /\ FreshOwnsRow
<1> SUFFICES ASSUME Init PROVE LeaseTypes /\ FreshOwnsRow
  OBVIOUS
<1>1. \A t \in Ticks : tick[t] = IdleTick
  BY DEF Init
<1>2. tick \in [Ticks -> TickState] /\ \A t \in Ticks : tick[t].seen <= now
  BY <1>1, IdleTickFits DEF Init
<1>3. LeaseTypes
  BY <1>2, LeaseAssumption DEF Init, LeaseTypes, TypeOK
<1>4. FreshOwnsRow
  BY <1>1, IdleTickFits DEF FreshOwnsRow, Fresh, Holding
<1>5. QED
  BY <1>3, <1>4

\* Whatever ticks share a process, the lease is one row of its type and no
\* takeover looks at a time still to come.
THEOREM LeaseStaysTyped == Spec => []LeaseTypes
BY LeaseInitInv, LeaseNextInv, PTL DEF Spec

\* Two ticks of different processes that both hold a lease which, by the
\* clock, has not expired never run together, whatever the TTL, the number of
\* processes and the delays between a process and the database.
THEOREM LeasesStayExclusive == ASSUME OneTickPerProcess PROVE Spec => []LeasesExclude
<1>1. LeaseTypes /\ FreshOwnsRow => LeasesExclude
  <2> SUFFICES ASSUME LeaseTypes, FreshOwnsRow PROVE LeasesExclude
    OBVIOUS
  <2>1. ASSUME NEW s \in Ticks, NEW t \in Ticks, Fresh(s), Fresh(t) PROVE s = t
    <3>1. WorkerOf[s] = WorkerOf[t]
      BY <2>1, LeaseFacts DEF FreshOwnsRow
    <3>2. QED
      BY <3>1 DEF OneTickPerProcess
  <2>2. QED
    BY <2>1 DEF LeasesExclude, LeaseTypes, FreshHoldersExclude
<1>2. LeaseTypes /\ FreshOwnsRow /\ [Next]_vars => (LeaseTypes /\ FreshOwnsRow)'
  BY LeaseNextInv
<1>3. QED
  BY <1>1, <1>2, LeaseInitInv, PTL DEF Spec

\* Which steps touch a row that is there: one that takes it over, and the
\* renewals, which keep its worker and token.
LEMMA TakenWasExpired ==
    ASSUME LeaseTypes, [Next]_vars, NEW old \in lease, NEW new \in lease',
           old.worker # new.worker \/ old.token # new.token
    PROVE  old.expires <= now /\ new.token = old.token + 1
<1>0. old \in Row /\ new # old /\ \A r \in lease : r = old
  BY LeaseFacts
<1>1. PICK t \in Ticks : Create(t) \/ TakeOver(t) \/ Renew(t) \/ Release(t)
  <2>1. lease' # lease
    BY <1>0
  <2>2. QED
    BY <2>1 DEF vars, Next, Step, Acquiring, Beating, Ending, Fire, Heartbeat, RenewFails, Finish, Fail, Crash, Advance
<1>2. tick[t] \in TickState /\ tick[t].seen <= now /\ now \in Nat
  BY LeaseFacts
<1>3. CASE Create(t) \/ Release(t)
  BY <1>0, <1>3 DEF Create, Vacant, Release, Spared
<1>4. CASE TakeOver(t)
  <2>1. Expired(t) = {old} /\ old.expires <= tick[t].seen
    BY <1>0, <1>4 DEF TakeOver, Expired
  <2>2. lease' = {[worker |-> WorkerOf[t], token |-> old.token + 1, expires |-> tick[t].exp]}
    BY <1>4, <2>1 DEF TakeOver
  <2>3. new.token = old.token + 1
    BY <2>2
  <2>4. old.expires \in Nat /\ tick[t].seen \in Nat
    BY <1>0, <1>2 DEF Row, TickState
  <2>5. QED
    BY <1>2, <2>1, <2>3, <2>4
<1>5. CASE Renew(t)
  <2>1. PICK sent : lease' = {[row EXCEPT !.expires = sent + TTL] : row \in Renewable(t, sent)}
    BY <1>5 DEF Renew
  <2>2. new = [old EXCEPT !.expires = sent + TTL]
    BY <1>0, <2>1 DEF Renewable
  <2>3. new.worker = old.worker /\ new.token = old.token
    BY <1>0, <2>2 DEF Row
  <2>4. QED
    BY <2>3
<1>6. QED
  BY <1>1, <1>3, <1>4, <1>5

\* acquireJobLease takes a row from its holder only once the row has expired,
\* and then raises the fencing token by one.
THEOREM TakeoversWait == Spec => [][NoEarlyTakeover]_vars
<1>1. LeaseTypes /\ [Next]_vars => NoEarlyTakeover
  BY TakenWasExpired DEF NoEarlyTakeover
<1>2. QED
  BY <1>1, LeaseStaysTyped, PTL DEF Spec

-----------------------------------------------------------------------------
(* The indexer.  The place where a set of events begins and ends is what the *)
(* cursor is computed from.                                                  *)

\* Every nonempty set of naturals has a least element.
LEMMA LeastExists == ASSUME NEW S \in SUBSET Nat, S # {} PROVE \E e \in S : \A f \in S : e <= f
<1>1. PICK x \in S : \A y \in S : ~ (<<y, x>> \in OpToRel(<, Nat))
  BY NatLessThanWellFounded, WFMin
<1>2. ASSUME NEW y \in S PROVE x <= y
  <2>1. ~ (y < x)
    BY <1>1 DEF OpToRel
  <2>2. x \in Nat /\ y \in Nat
    OBVIOUS
  <2>3. QED
    BY <2>1, <2>2
<1>3. QED
  BY <1>2

\* First of a set of events.
LEMMA FirstIsLeast == ASSUME NEW S \in SUBSET Nat, S # {} PROVE First(S) \in S /\ \A f \in S : First(S) <= f
BY LeastExists DEF First

\* Last of a set of events of a finite stream.
LEMMA LastIsGreatest ==
    ASSUME NEW n \in Nat, NEW S \in SUBSET (1 .. n), S # {} PROVE Last(S) \in S /\ \A f \in S : f <= Last(S)
<1> DEFINE T == {k \in Nat : n - k \in S}
<1>1. T # {}
  <2>1. PICK e \in S : e \in 1 .. n
    OBVIOUS
  <2>2. n - e \in Nat /\ n - (n - e) = e
    BY <2>1
  <2>3. QED
    BY <2>1, <2>2
<1>2. PICK k \in T : \A j \in T : k <= j
  BY <1>1, LeastExists
<1>3. n - k \in S /\ k \in Nat
  BY <1>2
<1>4. ASSUME NEW f \in S PROVE f <= n - k
  <2>1. f \in 1 .. n /\ n - f \in Nat /\ n - (n - f) = f
    OBVIOUS
  <2>2. k <= n - f
    BY <1>2, <2>1
  <2>3. QED
    BY <1>3, <2>1, <2>2
<1>5. QED
  BY <1>3, <1>4 DEF Last

\* The events a tick has yet to write.
Todo == ixTick.batch \cup ixTick.pools

\* Everything up to a place is handled or about to be.
Reaches(e, S) == 1 .. e \subseteq S

IxTickState ==
  [pc : {"idle", "quarantine", "batch", "single", "pools"}, batch : SUBSET Nat, pools : SUBSET Nat,
   bad : Nat, seen : BOOLEAN]

IndexerTypes ==
  /\ \E n \in 0 .. StreamLength : stream \in [1 .. n -> EventKinds]
  /\ ixTick \in IxTickState /\ Handled \cup Todo \subseteq StreamEvents
  /\ cursor \in Nat /\ saved \in Nat /\ redis.value \in Nat

\* Where the tick is decides what it still has to write.
TickHolds ==
  /\ ixTick.pc = "idle" => Todo = {}
  /\ ixTick.pc = "pools" => ixTick.batch = {}
  /\ ixTick.pc = "quarantine" => cursor \notin Todo

\* No event is passed over: up to the cursor, and up to any event still to be
\* written, each is handled or still to be written; up to both checkpoints
\* each is handled.
NothingPassed ==
  /\ \A e \in Todo \cup {cursor} : Reaches(e, Handled \cup Todo)
  /\ Reaches(saved, Handled) /\ Reaches(redis.value, Handled)

\* Neither handled nor to be written: anything from an undecodable event on.
BelowGap == \A e \in StreamEvents : stream[e] = "bad" => \A f \in Handled \cup Todo : f < e

\* The inductive invariant of the indexer.
IndexerInv == IndexerTypes /\ TickHolds /\ NothingPassed /\ BelowGap

\* The tick that does nothing.
LEMMA NoTickFits == NoTick \in IxTickState /\ NoTick.pc = "idle" /\ NoTick.batch = {} /\ NoTick.pools = {}
<1>1. FALSE \in BOOLEAN /\ {} \in SUBSET Nat
  OBVIOUS
<1>2. QED
  BY <1>1 DEF NoTick, IxTickState

\* The invariant holds initially.
LEMMA IndexerInitInv == IndexerInit => IndexerInv
<1> SUFFICES ASSUME IndexerInit PROVE IndexerInv
  OBVIOUS
<1>1. Todo = {} /\ Handled = {} /\ ixTick = NoTick /\ cursor = 0 /\ saved = 0 /\ stream \in Streams
  BY NoTickFits DEF IndexerInit, Todo, Handled
<1>2. redis.value = 0
  BY DEF IndexerInit
<1>3. IndexerTypes
  BY <1>1, <1>2, NoTickFits, IndexerAssumption DEF IndexerTypes
<1>4. TickHolds
  BY <1>1, NoTickFits DEF TickHolds
<1>5. NothingPassed /\ BelowGap
  BY <1>1, <1>2 DEF NothingPassed, Reaches, BelowGap
<1>6. QED
  BY <1>3, <1>4, <1>5 DEF IndexerInv

\* A write moves events from what is to be written to what is handled, and
\* the cursor to one of them.
LEMMA WritesMove ==
    ASSUME IndexerInv, UNCHANGED <<stream, redis, saved>>, ixTick' \in IxTickState, TickHolds',
           Todo' \subseteq Todo, Handled \subseteq Handled', Handled' \cup Todo' = Handled \cup Todo,
           cursor' \in Todo \cup {cursor}
    PROVE  IndexerInv'
<1>1. IndexerTypes'
  <2>1. cursor' \in Nat
    BY DEF IndexerInv, IndexerTypes, Todo, IxTickState
  <2>2. QED
    BY <2>1 DEF IndexerInv, IndexerTypes, StreamEvents
<1>2. NothingPassed'
  BY DEF IndexerInv, NothingPassed, Reaches
<1>3. BelowGap'
  BY DEF IndexerInv, BelowGap, StreamEvents
<1>4. QED
  BY <1>1, <1>2, <1>3 DEF IndexerInv

\* What the steps start from.
LEMMA IndexerFacts ==
    ASSUME IndexerInv
    PROVE  /\ ixTick \in IxTickState /\ cursor \in Nat /\ saved \in Nat /\ redis.value \in Nat
           /\ ixTick.batch \subseteq Nat /\ ixTick.pools \subseteq Nat
BY DEF IndexerInv, IndexerTypes, IxTickState

\* The undecodable event is quarantined.
LEMMA QuarantineStep == ASSUME IndexerInv, tick_quarantine \/ reconcileEvents_fails PROVE IndexerInv'
<1>0. /\ UNCHANGED <<stream, redis, saved, cursor, recorded, skipped, lost>> /\ ixTick \in IxTickState
      /\ ixTick.pc \in {"quarantine", "batch"}
  BY IndexerFacts DEF tick_quarantine, reconcileEvents_fails
<1>1. PICK k \in {"batch", "single"} : ixTick' = [ixTick EXCEPT !.pc = k]
  BY DEF tick_quarantine, reconcileEvents_fails
<1>2. ixTick' \in IxTickState
  BY <1>0, <1>1 DEF IxTickState
<1>3. ixTick'.pc = k /\ ixTick'.batch = ixTick.batch /\ ixTick'.pools = ixTick.pools
  BY <1>0, <1>1 DEF IxTickState
<1>4. Todo' = Todo /\ Handled' = Handled
  BY <1>0, <1>3 DEF Todo, Handled
<1>5. TickHolds'
  BY <1>1, <1>3 DEF TickHolds
<1>6. QED
  BY <1>0, <1>2, <1>4, <1>5, WritesMove

\* The batch is written at once.
LEMMA ReconcileStep == ASSUME IndexerInv, reconcileEvents PROVE IndexerInv'
<1>0. /\ UNCHANGED <<stream, redis, saved, skipped, lost>> /\ ixTick \in IxTickState
      /\ recorded' = recorded \cup ixTick.batch /\ cursor' = MoveTo(cursor, ixTick.batch)
  BY IndexerFacts DEF reconcileEvents
<1>1. PICK b \in BOOLEAN, B \in SUBSET Nat : B = {} /\ ixTick' = [ixTick EXCEPT !.pc = "pools", !.batch = B, !.seen = b]
  <2>1. (ixTick.seen \/ ixTick.batch # {}) \in BOOLEAN /\ {} \in SUBSET Nat
    BY <1>0 DEF IxTickState
  <2>2. ixTick' = [ixTick EXCEPT !.pc = "pools", !.batch = {}, !.seen = ixTick.seen \/ ixTick.batch # {}]
    BY DEF reconcileEvents
  <2>3. QED
    BY <2>1, <2>2, Zenon
<1>2. ixTick' \in IxTickState
  BY <1>0, <1>1 DEF IxTickState
<1>3. ixTick'.pc = "pools" /\ ixTick'.batch = {} /\ ixTick'.pools = ixTick.pools
  BY <1>0, <1>1 DEF IxTickState
<1>4. Todo' = ixTick.pools /\ Handled' = Handled \cup ixTick.batch
  BY <1>0, <1>3 DEF Todo, Handled
<1>5. cursor' \in ixTick.batch \cup {cursor}
  <2>1. CASE ixTick.batch = {}
    BY <1>0, <2>1 DEF MoveTo
  <2>2. CASE ixTick.batch # {}
    <3>1. PICK n \in Nat : ixTick.batch \subseteq 1 .. n
      BY IndexerAssumption DEF IndexerInv, IndexerTypes, Todo, StreamEvents
    <3>2. Last(ixTick.batch) \in ixTick.batch
      BY <2>2, <3>1, LastIsGreatest
    <3>3. QED
      BY <1>0, <2>2, <3>2 DEF MoveTo
  <2>3. QED
    BY <2>1, <2>2
<1>6. TickHolds'
  BY <1>3 DEF TickHolds
<1>7. QED
  BY <1>0, <1>2, <1>4, <1>5, <1>6, WritesMove DEF Todo

\* One event is written, or its failure is logged and passed.
LEMMA SingleStep == ASSUME IndexerInv, reconcileEvent \/ upsertPoolRegistryEntry PROVE IndexerInv'
<1>0. UNCHANGED <<stream, redis, saved, skipped>> /\ ixTick \in IxTickState
      /\ ixTick.batch \subseteq Nat /\ ixTick.pools \subseteq Nat
  BY IndexerFacts DEF reconcileEvent, upsertPoolRegistryEntry
<1>1. ASSUME NEW e \in Todo, Written(e) PROVE Handled' = Handled \cup {e}
  BY <1>0, <1>1 DEF Written, Handled
<1>2. CASE /\ ixTick.pc = "single" /\ ixTick.batch # {} /\ Written(First(ixTick.batch))
           /\ cursor' = First(ixTick.batch)
           /\ ixTick' = [ixTick EXCEPT !.batch = ixTick.batch \ {First(ixTick.batch)}, !.seen = TRUE]
  <2>1. PICK e \in ixTick.batch : e = First(ixTick.batch)
    BY <1>0, <1>2, FirstIsLeast
  <2>2. PICK B \in SUBSET Nat, b \in BOOLEAN : B = ixTick.batch \ {e} /\ ixTick' = [ixTick EXCEPT !.batch = B, !.seen = b]
    <3>1. ixTick.batch \ {e} \in SUBSET Nat /\ TRUE \in BOOLEAN
      BY <1>0
    <3>2. QED
      BY <1>2, <2>1, <3>1, Zenon
  <2>3. ixTick' \in IxTickState
    BY <1>0, <2>2 DEF IxTickState
  <2>4. ixTick'.pc = "single" /\ ixTick'.batch = ixTick.batch \ {e} /\ ixTick'.pools = ixTick.pools
    BY <1>0, <1>2, <2>2 DEF IxTickState
  <2>5. Handled' = Handled \cup {e} /\ cursor' = e
    BY <1>1, <1>2, <2>1 DEF Todo
  <2>6. TickHolds'
    BY <2>4 DEF TickHolds
  <2>7. Todo' \subseteq Todo /\ Handled' \cup Todo' = Handled \cup Todo /\ e \in Todo
    BY <2>1, <2>4, <2>5 DEF Todo
  <2>8. QED
    BY <1>0, <2>3, <2>5, <2>6, <2>7, WritesMove
<1>3. CASE /\ ixTick.batch = {} /\ ixTick' = [ixTick EXCEPT !.pc = "pools"]
           /\ UNCHANGED <<recorded, lost, cursor>>
  <2>1. ixTick' \in IxTickState
    BY <1>0, <1>3 DEF IxTickState
  <2>2. ixTick'.pc = "pools" /\ ixTick'.batch = {} /\ ixTick'.pools = ixTick.pools
    BY <1>0, <1>3 DEF IxTickState
  <2>3. Handled' = Handled /\ Todo' = Todo
    BY <1>0, <1>3, <2>2 DEF Handled, Todo
  <2>4. TickHolds'
    BY <2>2 DEF TickHolds
  <2>5. QED
    BY <1>0, <1>3, <2>1, <2>3, <2>4, WritesMove
<1>4. CASE /\ ixTick.pc = "pools" /\ ixTick.pools # {} /\ Written(First(ixTick.pools))
           /\ cursor' = First(ixTick.pools)
           /\ ixTick' = [ixTick EXCEPT !.pools = ixTick.pools \ {First(ixTick.pools)}, !.seen = TRUE]
  <2>1. PICK e \in ixTick.pools : e = First(ixTick.pools)
    BY <1>0, <1>4, FirstIsLeast
  <2>2. PICK B \in SUBSET Nat, b \in BOOLEAN : B = ixTick.pools \ {e} /\ ixTick' = [ixTick EXCEPT !.pools = B, !.seen = b]
    <3>1. ixTick.pools \ {e} \in SUBSET Nat /\ TRUE \in BOOLEAN
      BY <1>0
    <3>2. QED
      BY <1>4, <2>1, <3>1, Zenon
  <2>3. ixTick' \in IxTickState
    BY <1>0, <2>2 DEF IxTickState
  <2>4. ixTick'.pc = "pools" /\ ixTick'.pools = ixTick.pools \ {e} /\ ixTick'.batch = ixTick.batch
    BY <1>0, <1>4, <2>2 DEF IxTickState
  <2>5. Handled' = Handled \cup {e} /\ cursor' = e
    BY <1>1, <1>4, <2>1 DEF Todo
  <2>6. TickHolds'
    BY <1>4, <2>4 DEF TickHolds, IndexerInv
  <2>7. Todo' \subseteq Todo /\ Handled' \cup Todo' = Handled \cup Todo /\ e \in Todo
    BY <2>1, <2>4, <2>5 DEF Todo
  <2>8. QED
    BY <1>0, <2>3, <2>5, <2>6, <2>7, WritesMove
<1>5. QED
  BY <1>2, <1>3, <1>4 DEF reconcileEvent, upsertPoolRegistryEntry

\* A tick is over, or was cut short, with a cursor everything before which is
\* handled.
LEMMA TickEnds ==
    ASSUME IndexerInv, ixTick' = NoTick, Handled \subseteq Handled', Handled' \subseteq Handled \cup Todo,
           StreamEvents' = StreamEvents, \A e \in StreamEvents : stream'[e] = "bad" => stream[e] = "bad",
           \E n \in 0 .. StreamLength : stream' \in [1 .. n -> EventKinds],
           cursor' \in Nat, saved' \in Nat, redis'.value \in Nat,
           Reaches(cursor', Handled'), Reaches(saved', Handled'), Reaches(redis'.value, Handled')
    PROVE  IndexerInv'
<1>1. Todo' = {} /\ ixTick'.pc = "idle" /\ ixTick' \in IxTickState
  BY NoTickFits DEF Todo
<1>2. IndexerTypes'
  BY <1>1 DEF IndexerInv, IndexerTypes
<1>3. TickHolds'
  BY <1>1 DEF TickHolds
<1>4. NothingPassed'
  BY <1>1 DEF NothingPassed
<1>5. BelowGap'
  BY <1>1 DEF BelowGap, IndexerInv
<1>6. QED
  BY <1>2, <1>3, <1>4, <1>5 DEF IndexerInv

\* The quarantine insert fails: what the cursor has passed is given up.
LEMMA QuarantineFailsStep == ASSUME IndexerInv, tick_quarantine_fails PROVE IndexerInv'
<1>0. /\ UNCHANGED <<stream, recorded, skipped, cursor, redis, saved>> /\ ixTick' = NoTick
      /\ ixTick.pc = "quarantine" /\ lost' = lost \cup {e \in Todo : e < cursor}
  BY DEF tick_quarantine_fails, Todo
<1>1. Handled' = Handled \cup {e \in Todo : e < cursor}
  BY <1>0 DEF Handled
<1>2. Reaches(cursor, Handled')
  <2>1. Reaches(cursor, Handled \cup Todo) /\ cursor \notin Todo /\ cursor \in Nat
    BY <1>0, IndexerFacts DEF IndexerInv, NothingPassed, TickHolds
  <2>2. ASSUME NEW e \in 1 .. cursor PROVE e \in Handled'
    <3>1. e \in Handled \cup Todo /\ (e \in Todo => e < cursor)
      BY <2>1, <2>2 DEF Reaches
    <3>2. QED
      BY <1>1, <3>1
  <2>3. QED
    BY <2>2 DEF Reaches
<1>3. Reaches(saved, Handled') /\ Reaches(redis.value, Handled')
  BY <1>1 DEF IndexerInv, NothingPassed, Reaches
<1>4. QED
  BY <1>0, <1>1, <1>2, <1>3, IndexerFacts, TickEnds DEF StreamEvents, IndexerInv, IndexerTypes

\* Where a restart would resume, everything before is handled.
LEMMA CheckpointReached == ASSUME IndexerInv PROVE getCheckpoint \in Nat /\ Reaches(getCheckpoint, Handled)
BY IndexerFacts DEF getCheckpoint, IndexerInv, NothingPassed

\* A restart, with the old decoder or a new one.
LEMMA RestartStep == ASSUME IndexerInv, Restart \/ DecoderFixed PROVE IndexerInv'
<1>0. UNCHANGED <<recorded, skipped, lost, redis, saved>> /\ ixTick' = NoTick /\ cursor' = getCheckpoint
  BY DEF Restart, DecoderFixed
<1>1. Handled' = Handled
  BY <1>0 DEF Handled
<1>2. /\ StreamEvents' = StreamEvents /\ \A e \in StreamEvents : stream'[e] = "bad" => stream[e] = "bad"
      /\ \E n \in 0 .. StreamLength : stream' \in [1 .. n -> EventKinds]
  <2>1. PICK n \in 0 .. StreamLength : stream \in [1 .. n -> EventKinds]
    BY DEF IndexerInv, IndexerTypes
  <2>2. CASE stream' = stream
    BY <2>1, <2>2 DEF StreamEvents
  <2>3. ASSUME NEW e, stream' = [stream EXCEPT ![e] = "action"]
        PROVE  stream' \in [1 .. n -> EventKinds] /\ \A f \in 1 .. n : stream'[f] = "bad" => stream[f] = "bad"
    BY <2>1, <2>3 DEF EventKinds
  <2>4. QED
    BY <2>1, <2>2, <2>3 DEF StreamEvents, Restart, DecoderFixed
<1>3. QED
  BY <1>0, <1>1, <1>2, IndexerFacts, CheckpointReached, TickEnds DEF IndexerInv, NothingPassed

\* The tick saves its cursor once everything it fetched is written.
LEMMA CheckpointStep == ASSUME IndexerInv, updateIndexerCheckpoint PROVE IndexerInv'
<1>0. /\ UNCHANGED <<stream, recorded, skipped, lost, cursor>> /\ ixTick' = NoTick
      /\ ixTick.pc = "pools" /\ ixTick.pools = {}
  BY DEF updateIndexerCheckpoint
<1>1. Handled' = Handled /\ Todo = {}
  BY <1>0 DEF Handled, Todo, IndexerInv, TickHolds
<1>2. Reaches(cursor, Handled) /\ Reaches(saved, Handled) /\ Reaches(redis.value, Handled)
  BY <1>1 DEF IndexerInv, NothingPassed
<1>3. saved' \in {saved, cursor} /\ redis'.value \in {redis.value, cursor}
  <2>1. CASE redis' = [redis EXCEPT !.value = cursor, !.dirty = TRUE] /\ saved' = saved
    BY <2>1
  <2>2. CASE redis' = redis
    BY <2>2 DEF updateIndexerCheckpoint, setCheckpoint, CheckpointOf
  <2>3. QED
    BY <2>1, <2>2 DEF updateIndexerCheckpoint, setCheckpoint, CheckpointOf
<1>4. QED
  BY <1>0, <1>1, <1>2, <1>3, IndexerFacts, TickEnds DEF StreamEvents, IndexerInv, IndexerTypes

\* Only the checkpoints move, between each other's values.
LEMMA RedisStep == ASSUME IndexerInv, syncCheckpointToDb \/ RedisTurns \/ fetchEvents_fails PROVE IndexerInv'
<1>0. UNCHANGED <<stream, recorded, skipped, lost, cursor, ixTick>>
  BY DEF syncCheckpointToDb, RedisTurns, fetchEvents_fails
<1>1. Handled' = Handled /\ Todo' = Todo /\ StreamEvents' = StreamEvents
  BY <1>0 DEF Handled, Todo, StreamEvents
<1>2. saved' \in {saved, redis.value} /\ redis'.value \in {0, redis.value}
  <2>1. CASE syncCheckpointToDb
    BY <2>1 DEF syncCheckpointToDb
  <2>2. CASE RedisTurns
    <3>1. CASE saved' = saved /\ \E v \in {0, redis.value} :
                 redis' = [up |-> FALSE, value |-> v, dirty |-> redis.dirty /\ v # 0]
      BY <3>1
    <3>2. CASE saved' = saved /\ redis' = [redis EXCEPT !.up = TRUE]
      BY <3>2
    <3>3. QED
      BY <2>2, <3>1, <3>2 DEF RedisTurns
  <2>3. CASE fetchEvents_fails
    BY <2>3 DEF fetchEvents_fails
  <2>4. QED
    BY <2>1, <2>2, <2>3
<1>3. IndexerTypes'
  BY <1>0, <1>1, <1>2 DEF IndexerInv, IndexerTypes
<1>4. TickHolds' /\ BelowGap'
  BY <1>0, <1>1 DEF IndexerInv, TickHolds, BelowGap
<1>5. NothingPassed'
  <2>1. Reaches(0, Handled)
    BY DEF Reaches
  <2>2. QED
    BY <1>0, <1>1, <1>2, <2>1 DEF IndexerInv, NothingPassed
<1>6. QED
  BY <1>3, <1>4, <1>5 DEF IndexerInv

\* Fetching and decoding: what is decoded follows the cursor without a gap,
\* ends before every undecodable event, and is skipped or to be written.
LEMMA FetchStep == ASSUME IndexerInv, tick_fetch PROVE IndexerInv'
<1> DEFINE fetched == fetchEvents
           stops   == DecodeStops(fetched)
           decoded == IF stops = {} THEN fetched ELSE {e \in fetched : e < First(stops)}
           passed  == {e \in decoded : SeenInBatch(e, fetched) \/ stream[e] = "spoof"}
           pools   == {e \in decoded \ passed : stream[e] = "pool"}
<1>0. /\ UNCHANGED <<stream, recorded, lost, redis, saved>> /\ ixTick.pc = "idle"
      /\ skipped' = skipped \cup passed /\ cursor' = MoveTo(cursor, passed)
      /\ ixTick' = [pc    |-> IF stops = {} THEN "batch" ELSE "quarantine",
                    batch |-> decoded \ (passed \cup pools), pools |-> pools,
                    bad   |-> IF stops = {} THEN 0 ELSE First(stops), seen |-> passed # {}]
  BY DEF tick_fetch
<1>1. PICK n \in Nat : n \in 0 .. StreamLength /\ stream \in [1 .. n -> EventKinds] /\ StreamEvents = 1 .. n
  BY IndexerAssumption DEF IndexerInv, IndexerTypes, StreamEvents
<1>2. /\ Todo = {} /\ Reaches(cursor, Handled) /\ cursor \in Nat /\ BatchSize \in Nat
      /\ Reaches(saved, Handled) /\ Reaches(redis.value, Handled) /\ Handled \subseteq 1 .. n
  BY <1>0, <1>1, IndexerFacts, IndexerAssumption DEF IndexerInv, IndexerTypes, TickHolds, NothingPassed
<1>3. fetched = {e \in 1 .. n : cursor < e /\ e <= cursor + BatchSize} /\ fetched \in SUBSET Nat
  BY <1>1 DEF fetchEvents
<1>4. stops = {e \in fetched : stream[e] = "bad"} /\ stops \in SUBSET Nat
  BY <1>3 DEF DecodeStops
<1>5. stops # {} => First(stops) \in Nat /\ First(stops) \in stops /\ \A e \in stops : First(stops) <= e
  BY <1>4, FirstIsLeast
<1> HIDE DEF fetched, stops
<1>6. decoded \subseteq fetched /\ \A e \in decoded, f \in fetched : f <= e => f \in decoded
  BY <1>3, <1>5
<1>7. \A e \in 1 .. n : stream[e] = "bad" => \A f \in Handled \cup decoded : f < e
  <2> SUFFICES ASSUME NEW e \in 1 .. n, stream[e] = "bad", NEW f \in Handled \cup decoded PROVE f < e
    OBVIOUS
  <2>1. \A g \in Handled : g < e
    BY <1>1 DEF IndexerInv, BelowGap
  <2>2. cursor < e
    BY <1>2, <2>1 DEF Reaches
  <2>3. CASE f \in decoded /\ e \in fetched
    BY <1>3, <1>4, <1>5, <2>3
  <2>4. CASE f \in decoded /\ e \notin fetched
    BY <1>2, <1>3, <1>6, <2>2, <2>4
  <2>5. QED
    BY <2>1, <2>3, <2>4
<1> HIDE DEF decoded
<1>8. passed \subseteq decoded /\ pools \subseteq decoded \ passed
  OBVIOUS
<1> HIDE DEF passed, pools
<1>9. Handled' = Handled \cup passed /\ Todo' = decoded \ passed /\ StreamEvents' = 1 .. n
  <2>1. ixTick'.batch = decoded \ (passed \cup pools) /\ ixTick'.pools = pools
    BY <1>0
  <2>2. QED
    BY <1>0, <1>1, <1>8, <2>1 DEF Handled, Todo, StreamEvents
<1>10. cursor' \in passed \cup {cursor}
  <2>1. CASE passed = {}
    BY <1>0, <2>1 DEF MoveTo
  <2>2. CASE passed # {}
    <3>1. passed \in SUBSET (1 .. n)
      BY <1>3, <1>6, <1>8
    <3>2. Last(passed) \in passed
      BY <2>2, <3>1, LastIsGreatest
    <3>3. QED
      BY <1>0, <2>2, <3>2 DEF MoveTo
  <2>3. QED
    BY <2>1, <2>2
<1>11. ixTick' \in IxTickState /\ ixTick'.pc \in {"batch", "quarantine"}
  <2>1. PICK b \in BOOLEAN : b = (passed # {})
    OBVIOUS
  <2>2. PICK k \in {"batch", "quarantine"} : k = IF stops = {} THEN "batch" ELSE "quarantine"
    OBVIOUS
  <2>3. PICK m \in Nat : m = IF stops = {} THEN 0 ELSE First(stops)
    BY <1>5
  <2>4. PICK B \in SUBSET Nat, C \in SUBSET Nat : B = decoded \ (passed \cup pools) /\ C = pools
    BY <1>3, <1>6, <1>8
  <2>5. ixTick' = [pc |-> k, batch |-> B, pools |-> C, bad |-> m, seen |-> b]
    BY <1>0, <2>1, <2>2, <2>3, <2>4, Zenon
  <2>6. QED
    BY <2>1, <2>2, <2>3, <2>4, <2>5 DEF IxTickState
<1>12. IndexerTypes'
  <2>1. cursor' \in Nat /\ Handled' \cup Todo' \subseteq StreamEvents'
    BY <1>2, <1>3, <1>6, <1>8, <1>9, <1>10
  <2>2. QED
    BY <1>0, <1>1, <1>11, <2>1, IndexerFacts DEF IndexerTypes
<1>13. TickHolds'
  BY <1>2, <1>3, <1>6, <1>8, <1>9, <1>10, <1>11 DEF TickHolds
<1>14. NothingPassed'
  <2>1. ASSUME NEW e \in decoded \cup {cursor}, NEW f \in 1 .. e PROVE f \in Handled \cup decoded
    <3>1. CASE f <= cursor
      BY <1>2, <1>3, <1>6, <2>1, <3>1 DEF Reaches
    <3>2. CASE f > cursor
      BY <1>2, <1>3, <1>6, <2>1, <3>2
    <3>3. QED
      BY <1>2, <1>3, <1>6, <2>1, <3>1, <3>2
  <2>2. \A e \in Todo' \cup {cursor'} : Reaches(e, Handled' \cup Todo')
    BY <1>8, <1>9, <1>10, <2>1 DEF Reaches
  <2>3. Reaches(saved', Handled') /\ Reaches(redis'.value, Handled')
    BY <1>0, <1>2, <1>9 DEF Reaches
  <2>4. QED
    BY <2>2, <2>3 DEF NothingPassed
<1>15. BelowGap'
  BY <1>0, <1>7, <1>8, <1>9 DEF BelowGap
<1>16. QED
  BY <1>12, <1>13, <1>14, <1>15 DEF IndexerInv

\* Every step keeps the invariant.
LEMMA IndexerNextInv == IndexerInv /\ [IndexerNext]_indexerVars => IndexerInv'
<1> SUFFICES ASSUME IndexerInv, [IndexerNext]_indexerVars PROVE IndexerInv'
  OBVIOUS
<1>1. CASE IndexerTick
  BY <1>1, FetchStep, QuarantineStep, QuarantineFailsStep, ReconcileStep, SingleStep, CheckpointStep DEF IndexerTick
<1>2. CASE syncCheckpointToDb \/ RedisTurns \/ fetchEvents_fails \/ Restart \/ DecoderFixed
  BY <1>2, RedisStep, RestartStep
<1>3. CASE UNCHANGED indexerVars
  BY <1>3 DEF indexerVars, IndexerInv, IndexerTypes, TickHolds, NothingPassed, BelowGap, Todo, Handled, StreamEvents
<1>4. QED
  BY <1>1, <1>2, <1>3 DEF IndexerNext

\* Between ticks everything up to the cursor is handled, and nothing behind an
\* undecodable event is touched, for every stream, batch size and number of
\* crashes, failed writes and Redis outages.
THEOREM NothingStaysBehind == IndexerSpec => []NothingLeftBehind
<1>1. IndexerInv => NothingLeftBehind
  <2> SUFFICES ASSUME IndexerInv PROVE NothingLeftBehind
    OBVIOUS
  <2>1. CursorBehindWrites
    BY DEF IndexerInv, TickHolds, NothingPassed, Reaches, CursorBehindWrites
  <2>2. GapNeverCrossed
    BY DEF IndexerInv, BelowGap, GapNeverCrossed
  <2>3. QED
    BY <2>1, <2>2 DEF NothingLeftBehind
<1>2. QED
  BY <1>1, IndexerInitInv, IndexerNextInv, PTL DEF IndexerSpec

-----------------------------------------------------------------------------
(* The refinement: the steps that handle events leave the checkpoint, the    *)
(* steps that move the checkpoint move it to a place that is reached.        *)

\* A step that handles events.
LEMMA HandlesEvents ==
    ASSUME IndexerInv, IndexerInv', StreamEvents' = StreamEvents, UNCHANGED <<redis, saved>>, Handled \subseteq Handled'
    PROVE  Delivery!Handle
<1>1. Handled' \in SUBSET (1 .. StreamLength)
  <2>1. PICK n \in 0 .. StreamLength : StreamEvents = 1 .. n
    BY DEF IndexerInv, IndexerTypes, StreamEvents
  <2>2. Handled' \subseteq 1 .. n
    BY <2>1 DEF IndexerInv, IndexerTypes
  <2>3. QED
    BY <2>1, <2>2, IndexerAssumption
<1>2. getCheckpoint' = getCheckpoint
  BY DEF getCheckpoint
<1>3. Handled' = Handled \cup Handled'
  OBVIOUS
<1>4. QED
  BY <1>1, <1>2, <1>3 DEF Delivery!Handle

\* A step that moves the checkpoint.
LEMMA MovesCheckpoint == ASSUME IndexerInv, IndexerInv', Handled' = Handled PROVE Delivery!Move
<1>1. getCheckpoint' \in Nat /\ Reaches(getCheckpoint', Handled)
  BY IndexerFacts, IndexerInv' DEF getCheckpoint, IndexerInv, IndexerTypes, NothingPassed
<1>2. getCheckpoint' \in (1 .. StreamLength) \cup {0}
  <2>1. PICK n \in 0 .. StreamLength : StreamEvents = 1 .. n
    BY DEF IndexerInv, IndexerTypes, StreamEvents
  <2>2. Handled \subseteq 1 .. n
    BY <2>1 DEF IndexerInv, IndexerTypes
  <2>3. getCheckpoint' # 0 => getCheckpoint' \in Handled
    BY <1>1 DEF Reaches
  <2>4. 1 .. n \subseteq 1 .. StreamLength
    BY <2>1, IndexerAssumption
  <2>5. CASE getCheckpoint' = 0
    BY <2>5
  <2>6. CASE getCheckpoint' \in Handled
    BY <2>2, <2>4, <2>6
  <2>7. QED
    BY <2>3, <2>5, <2>6
<1>3. QED
  BY <1>1, <1>2 DEF Delivery!Move, Reaches

\* The indexer implements at-least-once delivery: whatever fails, the place
\* where a restart resumes has everything before it handled.
THEOREM IndexerDelivers == IndexerSpec => ImplementsDelivery
<1>1. IndexerInit => Delivery!Begins
  BY DEF IndexerInit, Delivery!Begins, Handled, getCheckpoint
<1>2. ASSUME IndexerInv, [IndexerNext]_indexerVars
      PROVE  [Delivery!Handle \/ Delivery!Move]_<<Handled, getCheckpoint>>
  <2>0. IndexerInv'
    BY <1>2, IndexerNextInv
  <2>1. CASE \/ tick_fetch \/ tick_quarantine \/ tick_quarantine_fails \/ reconcileEvents
             \/ reconcileEvents_fails \/ reconcileEvent \/ upsertPoolRegistryEntry
    <3>1. UNCHANGED <<stream, redis, saved>> /\ recorded \subseteq recorded'
          /\ skipped \subseteq skipped' /\ lost \subseteq lost'
      BY <2>1 DEF tick_fetch, tick_quarantine, tick_quarantine_fails, reconcileEvents, reconcileEvents_fails,
                  reconcileEvent, upsertPoolRegistryEntry, Written
    <3>2. Handled \subseteq Handled' /\ StreamEvents' = StreamEvents
      BY <3>1 DEF Handled, StreamEvents
    <3>3. QED
      BY <1>2, <2>0, <3>1, <3>2, HandlesEvents
  <2>2. CASE updateIndexerCheckpoint \/ syncCheckpointToDb \/ RedisTurns \/ fetchEvents_fails \/ Restart \/ DecoderFixed
    <3>1. Handled' = Handled
      BY <2>2 DEF Handled, updateIndexerCheckpoint, syncCheckpointToDb, RedisTurns, fetchEvents_fails, Restart, DecoderFixed
    <3>2. QED
      BY <1>2, <2>0, <3>1, MovesCheckpoint
  <2>3. CASE UNCHANGED indexerVars
    BY <2>3 DEF indexerVars, Handled, getCheckpoint
  <2>4. QED
    BY <1>2, <2>1, <2>2, <2>3 DEF IndexerNext, IndexerTick
<1>3. QED
  BY <1>1, <1>2, IndexerInitInv, IndexerNextInv, PTL DEF IndexerSpec, ImplementsDelivery, Delivery!Delivers

-----------------------------------------------------------------------------
(* The query cache.                                                          *)

EntryRow == [data : Nat, error : BOOLEAN, partialError : BOOLEAN, updatedAt : {"never", "fresh", "expired"},
             invalidated : BOOLEAN]

\* One view: a fetch under way is shared, so that there is one request at most;
\* its answer is no older than what is shown and no newer than the source.
ViewHolds(data, R, at) ==
  /\ data <= at
  /\ \A a, b \in R : a = b
  /\ \A a \in R : a # 0 => data <= a /\ a <= at

\* The inductive invariant of the cache.  The copy in localStorage is of what
\* is shown of the saved pools.
CacheTypes ==
  /\ source \in [Views -> Nat] /\ entry \in [Views -> EntryRow] /\ requests \in [Views -> SUBSET Nat]
  /\ watchlist \in Nat

CacheInv ==
  /\ CacheTypes
  /\ \A v \in Views : ViewHolds(entry[v].data, requests[v], source[v])
  /\ watchlist = entry["saved"].data

\* What a view shows is a number.
LEMMA ViewFacts ==
    ASSUME CacheInv, NEW v \in Views
    PROVE  /\ entry[v] \in EntryRow /\ entry[v].data \in Nat /\ requests[v] \subseteq Nat /\ source[v] \in Nat
           /\ ViewHolds(entry[v].data, requests[v], source[v])
  BY DEF CacheInv, CacheTypes, EntryRow

\* An entry is rewritten but shows what it showed.
LEMMA EntryRewritten ==
    ASSUME NEW e \in EntryRow, NEW a \in BOOLEAN, NEW b \in BOOLEAN, NEW u \in {"never", "fresh", "expired"}
    PROVE  /\ [e EXCEPT !.error = a, !.partialError = b] \in EntryRow
           /\ [e EXCEPT !.error = a, !.partialError = b].data = e.data
           /\ [e EXCEPT !.invalidated = a] \in EntryRow /\ [e EXCEPT !.invalidated = a].data = e.data
           /\ [e EXCEPT !.updatedAt = u] \in EntryRow /\ [e EXCEPT !.updatedAt = u].data = e.data
  BY DEF EntryRow

\* A fresh entry shows what was fetched.
LEMMA EntryFetched ==
    ASSUME NEW n \in Nat
    PROVE  /\ [NoEntry EXCEPT !.data = n, !.updatedAt = "fresh"] \in EntryRow
           /\ [NoEntry EXCEPT !.data = n, !.updatedAt = "fresh"].data = n
  BY DEF NoEntry, EntryRow

\* A step that shows what was shown: the sources only move on, and every request
\* keeps in step.
LEMMA ShownKept ==
    ASSUME CacheInv, entry' \in [Views -> EntryRow], \A v \in Views : entry'[v].data = entry[v].data,
           source' \in [Views -> Nat], \A v \in Views : source'[v] >= source[v],
           requests' \in [Views -> SUBSET Nat],
           \A v \in Views : /\ \A a, b \in requests'[v] : a = b
                            /\ \A a \in requests'[v] : a # 0 => a \in requests[v] \/ a = source[v],
           watchlist' = watchlist
    PROVE  CacheInv' /\ \A v \in Views : entry'[v].data >= entry[v].data
<1>1. ASSUME NEW v \in Views PROVE ViewHolds(entry[v].data, requests[v], source[v])'
  <2>1. /\ entry[v].data \in Nat /\ requests[v] \subseteq Nat /\ source[v] \in Nat /\ source'[v] \in Nat
        /\ requests'[v] \subseteq Nat /\ entry'[v].data = entry[v].data /\ source'[v] >= source[v]
        /\ ViewHolds(entry[v].data, requests[v], source[v])
    BY ViewFacts
  <2>2. QED
    BY <2>1 DEF ViewHolds
<1>2. "saved" \in Views
  BY DEF Views, FetcherOf
<1>3. CacheInv'
  BY <1>1, <1>2 DEF CacheInv, CacheTypes
<1>4. QED
  BY <1>3, ViewFacts

\* A step that leaves the requests and the sources alone.
LEMMA MarkedOnly ==
    ASSUME CacheInv, entry' \in [Views -> EntryRow], \A v \in Views : entry'[v].data = entry[v].data,
           UNCHANGED <<source, requests, watchlist>>
    PROVE  CacheInv' /\ \A v \in Views : entry'[v].data >= entry[v].data
<1>1. /\ source' \in [Views -> Nat] /\ requests' \in [Views -> SUBSET Nat] /\ watchlist' = watchlist
      /\ \A v \in Views : source'[v] >= source[v]
      /\ \A v \in Views : /\ \A a, b \in requests'[v] : a = b
                          /\ \A a \in requests'[v] : a # 0 => a \in requests[v] \/ a = source[v]
  BY DEF CacheInv, CacheTypes, ViewHolds
<1>2. QED
  BY <1>1, ShownKept

\* An invalidation marks entries.
LEMMA InvalidatedMarks ==
    ASSUME CacheInv, NEW S, Invalidated(S), UNCHANGED <<source, requests, watchlist>>
    PROVE  CacheInv' /\ \A v \in Views : entry'[v].data >= entry[v].data
<1>1. entry' = [v \in Views |-> [entry[v] EXCEPT !.invalidated = entry[v].invalidated \/ v \in S \cap mounted]]
  BY DEF Invalidated
<1>2. ASSUME NEW v \in Views PROVE entry'[v] \in EntryRow /\ entry'[v].data = entry[v].data
  <2>1. PICK e \in EntryRow : e = entry[v]
    BY ViewFacts
  <2>2. PICK m \in BOOLEAN : m = (entry[v].invalidated \/ v \in S \cap mounted)
    OBVIOUS
  <2>3. entry'[v] = [e EXCEPT !.invalidated = m]
    BY <1>1, <2>1, <2>2
  <2>4. [e EXCEPT !.invalidated = m] \in EntryRow /\ [e EXCEPT !.invalidated = m].data = e.data
    BY DEF EntryRow
  <2>5. QED
    BY <2>1, <2>3, <2>4
<1>3. entry' \in [Views -> EntryRow]
  BY <1>1, <1>2
<1>4. QED
  BY <1>2, <1>3, MarkedOnly

\* A fetch starts only where none is under way.
LEMMA EffectKeeps ==
    ASSUME CacheInv, NEW v \in Views, Effect(v)
    PROVE  CacheInv' /\ \A w \in Views : entry'[w].data >= entry[w].data
<1>1. UNCHANGED <<source, watchlist>>
  BY DEF Effect
<1>2. CASE UNCHANGED <<requests, entry>>
  BY <1>1, <1>2, MarkedOnly DEF CacheInv, CacheTypes
<1>3. CASE MayFetch(v) /\ Fetching(v)
  <2>1. PICK e \in EntryRow : e = entry[v]
    BY ViewFacts
  <2>2. PICK new \in EntryRow : entry' = [entry EXCEPT ![v] = new] /\ new.data = e.data
    <3>1. PICK no \in BOOLEAN : no = FALSE
      OBVIOUS
    <3>2. PICK new : new = [e EXCEPT !.error = no, !.partialError = no]
      OBVIOUS
    <3>3. new \in EntryRow /\ new.data = e.data
      BY <3>2, EntryRewritten
    <3>4. entry' = [entry EXCEPT ![v] = new]
      BY <1>3, <2>1, <3>1, <3>2 DEF Fetching, CacheInv, CacheTypes
    <3>5. QED
      BY <3>3, <3>4
  <2>3. entry' \in [Views -> EntryRow] /\ \A w \in Views : entry'[w].data = entry[w].data
    BY <2>1, <2>2 DEF CacheInv, CacheTypes
  <2>4. /\ requests' \in [Views -> SUBSET Nat]
        /\ \A w \in Views : requests'[w] = IF w = v THEN {0} ELSE requests[w]
    BY <1>3 DEF MayFetch, Fetching, CacheInv, CacheTypes
  <2>5. \A w \in Views : /\ \A a, b \in requests'[w] : a = b
                         /\ \A a \in requests'[w] : a # 0 => a \in requests[w] \/ a = source[w]
    BY <2>4 DEF CacheInv, ViewHolds
  <2>6. source' \in [Views -> Nat] /\ \A w \in Views : source'[w] >= source[w]
    BY <1>1 DEF CacheInv, CacheTypes
  <2>7. QED
    BY <1>1, <2>3, <2>4, <2>5, <2>6, ShownKept
<1>4. QED
  BY <1>2, <1>3 DEF Effect

\* The source says what it has now.
LEMMA AnswerKeeps ==
    ASSUME CacheInv, NEW v \in Views, SourceAnswers(v)
    PROVE  CacheInv' /\ \A w \in Views : entry'[w].data >= entry[w].data
<1>1. UNCHANGED <<entry, source, watchlist>> /\ 0 \in requests[v]
  BY DEF SourceAnswers
<1>2. /\ requests' \in [Views -> SUBSET Nat]
      /\ \A w \in Views : requests'[w] = IF w = v THEN (requests[v] \ {0}) \cup {source[v]} ELSE requests[w]
  BY DEF SourceAnswers, CacheInv, CacheTypes
<1>3. requests[v] \ {0} = {}
  BY <1>1 DEF CacheInv, ViewHolds
<1>4. \A w \in Views : /\ \A a, b \in requests'[w] : a = b
                       /\ \A a \in requests'[w] : a # 0 => a \in requests[w] \/ a = source[w]
  BY <1>2, <1>3 DEF CacheInv, ViewHolds
<1>5. /\ source' \in [Views -> Nat] /\ \A w \in Views : source'[w] >= source[w]
      /\ entry' \in [Views -> EntryRow] /\ \A w \in Views : entry'[w].data = entry[w].data
  BY <1>1 DEF CacheInv, CacheTypes
<1>6. QED
  BY <1>1, <1>2, <1>4, <1>5, ShownKept

\* The entry of one view is replaced by what was fetched, which is no older.
LEMMA ShownMoves ==
    ASSUME CacheInv, NEW v \in Views, NEW n \in Nat, entry[v].data <= n, n <= source[v],
           entry' \in [Views -> EntryRow], entry'[v].data = n,
           \A w \in Views \ {v} : entry'[w].data = entry[w].data,
           requests' \in [Views -> SUBSET Nat], requests'[v] = {},
           \A w \in Views \ {v} : requests'[w] = requests[w],
           source' = source, watchlist' = IF v = "saved" THEN n ELSE watchlist
    PROVE  CacheInv' /\ \A w \in Views : entry'[w].data >= entry[w].data
<1>1. ASSUME NEW w \in Views
      PROVE  ViewHolds(entry[w].data, requests[w], source[w])' /\ entry'[w].data >= entry[w].data
  <2>1. CASE w = v
    BY <2>1, ViewFacts DEF ViewHolds
  <2>2. CASE w # v
    <3>1. entry[w].data \in Nat /\ ViewHolds(entry[w].data, requests[w], source[w])
      BY ViewFacts
    <3>2. QED
      BY <2>2, <3>1 DEF ViewHolds
  <2>3. QED
    BY <2>1, <2>2
<1>2. "saved" \in Views
  BY DEF Views, FetcherOf
<1>3. watchlist' \in Nat /\ watchlist' = entry'["saved"].data
  BY <1>2 DEF CacheInv, CacheTypes
<1>4. source' \in [Views -> Nat]
  BY DEF CacheInv, CacheTypes
<1>5. QED
  BY <1>1, <1>3, <1>4 DEF CacheInv, CacheTypes

\* An answer lands.  A terminal status marks other entries.
LEMMA ThenKeeps ==
    ASSUME CacheInv, NEW v \in Views, fetchQuery_then(v)
    PROVE  CacheInv' /\ \A w \in Views : entry'[w].data >= entry[w].data
<1>1. PICK n \in requests[v] \ {0} :
        LET touched == IF v = "tx" /\ isTerminalTransaction(n) THEN vaultQueryKeys \cap mounted ELSE {} IN
        /\ entry' = [w \in Views |-> IF w = v THEN [NoEntry EXCEPT !.data = n, !.updatedAt = "fresh"]
                                     ELSE [entry[w] EXCEPT !.invalidated = @ \/ w \in touched]]
        /\ requests' = [requests EXCEPT ![v] = @ \ {n}]
        /\ watchlist' = IF v = "saved" THEN n ELSE watchlist
        /\ UNCHANGED source
  BY DEF fetchQuery_then
<1>2. PICK touched :
        /\ entry' = [w \in Views |-> IF w = v THEN [NoEntry EXCEPT !.data = n, !.updatedAt = "fresh"]
                                     ELSE [entry[w] EXCEPT !.invalidated = @ \/ w \in touched]]
        /\ requests' = [requests EXCEPT ![v] = @ \ {n}]
        /\ watchlist' = IF v = "saved" THEN n ELSE watchlist
        /\ UNCHANGED source
  BY <1>1
<1>3. n \in Nat /\ entry[v].data <= n /\ n <= source[v] /\ requests[v] = {n}
  BY ViewFacts DEF ViewHolds
<1>4. entry'[v] \in EntryRow /\ entry'[v].data = n
  <2>1. entry'[v] = [NoEntry EXCEPT !.data = n, !.updatedAt = "fresh"]
    BY <1>2
  <2>2. QED
    BY <1>3, <2>1, EntryFetched
<1>5. ASSUME NEW w \in Views \ {v} PROVE entry'[w] \in EntryRow /\ entry'[w].data = entry[w].data
  <2>1. PICK e \in EntryRow : e = entry[w]
    BY ViewFacts
  <2>2. PICK m \in BOOLEAN : m = (entry[w].invalidated \/ w \in touched)
    OBVIOUS
  <2>3. entry'[w] = [e EXCEPT !.invalidated = m]
    BY <1>2, <2>1, <2>2
  <2>4. [e EXCEPT !.invalidated = m] \in EntryRow /\ [e EXCEPT !.invalidated = m].data = e.data
    BY DEF EntryRow
  <2>5. QED
    BY <2>1, <2>3, <2>4
<1>6. entry' \in [Views -> EntryRow]
  <2>1. \A w \in Views : entry'[w] \in EntryRow
    BY <1>4, <1>5
  <2>2. QED
    BY <1>2, <2>1
<1>7. /\ requests' \in [Views -> SUBSET Nat] /\ requests'[v] = {}
      /\ \A w \in Views \ {v} : requests'[w] = requests[w]
  BY <1>2, <1>3 DEF CacheInv, CacheTypes
<1>8. QED
  BY <1>2, <1>3, <1>4, <1>5, <1>6, <1>7, ShownMoves

\* A fetch fails: the entry keeps its data, or shows the stored copy, which is
\* what it showed.
LEMMA CatchKeeps ==
    ASSUME CacheInv, NEW v \in Views, fetchQuery_catch(v)
    PROVE  CacheInv' /\ \A w \in Views : entry'[w].data >= entry[w].data
<1>1. /\ 0 \in requests[v] /\ requests' = [requests EXCEPT ![v] = @ \ {0}] /\ UNCHANGED <<source, watchlist>>
      /\ entry' = [entry EXCEPT ![v] =
           IF v = "saved" /\ watchlist # 0 THEN [NoEntry EXCEPT !.data = watchlist, !.updatedAt = "fresh"]
           ELSE [@ EXCEPT !.error = (entry[v].data = 0), !.partialError = (entry[v].data # 0)]]
  BY DEF fetchQuery_catch
<1>2. PICK new \in EntryRow : entry' = [entry EXCEPT ![v] = new] /\ new.data = entry[v].data
  <2>1. CASE v = "saved" /\ watchlist # 0
    <3>1. PICK n \in Nat : n = watchlist /\ n = entry[v].data
      BY <2>1 DEF CacheInv, CacheTypes
    <3>2. entry' = [entry EXCEPT ![v] = [NoEntry EXCEPT !.data = n, !.updatedAt = "fresh"]]
      BY <1>1, <2>1, <3>1
    <3>3. QED
      BY <3>1, <3>2, EntryFetched
  <2>2. CASE ~ (v = "saved" /\ watchlist # 0)
    <3>1. PICK e \in EntryRow : e = entry[v]
      BY ViewFacts
    <3>2. PICK a \in BOOLEAN, b \in BOOLEAN : a = (entry[v].data = 0) /\ b = (entry[v].data # 0)
      OBVIOUS
    <3>3. PICK new : new = [e EXCEPT !.error = a, !.partialError = b]
      OBVIOUS
    <3>4. new \in EntryRow /\ new.data = e.data
      BY <3>3, EntryRewritten
    <3>5. entry' = [entry EXCEPT ![v] = new]
      BY <1>1, <2>2, <3>1, <3>2, <3>3 DEF CacheInv, CacheTypes
    <3>6. QED
      BY <3>1, <3>4, <3>5
  <2>3. QED
    BY <2>1, <2>2
<1>3. entry' \in [Views -> EntryRow] /\ \A w \in Views : entry'[w].data = entry[w].data
  BY <1>2 DEF CacheInv, CacheTypes
<1>4. requests' \in [Views -> SUBSET Nat] /\ \A w \in Views : requests'[w] \subseteq requests[w]
  BY <1>1 DEF CacheInv, CacheTypes
<1>5. \A w \in Views : /\ \A a, b \in requests'[w] : a = b
                       /\ \A a \in requests'[w] : a # 0 => a \in requests[w] \/ a = source[w]
  BY <1>4 DEF CacheInv, ViewHolds
<1>6. source' \in [Views -> Nat] /\ \A w \in Views : source'[w] >= source[w]
  BY <1>1 DEF CacheInv, CacheTypes
<1>7. QED
  BY <1>1, <1>3, <1>4, <1>5, <1>6, ShownKept

\* A source moves on; nothing is shown or asked.
LEMMA BumpKeeps ==
    ASSUME CacheInv, NEW S, source' = Bumped(S), UNCHANGED <<entry, requests, watchlist>>
    PROVE  CacheInv' /\ \A w \in Views : entry'[w].data >= entry[w].data
<1>1. source' \in [Views -> Nat] /\ \A w \in Views : source'[w] >= source[w]
  BY DEF Bumped, CacheInv, CacheTypes
<1>2. /\ entry' \in [Views -> EntryRow] /\ \A w \in Views : entry'[w].data = entry[w].data
      /\ requests' \in [Views -> SUBSET Nat]
  BY DEF CacheInv, CacheTypes
<1>3. \A w \in Views : /\ \A a, b \in requests'[w] : a = b
                       /\ \A a \in requests'[w] : a # 0 => a \in requests[w] \/ a = source[w]
  BY DEF CacheInv, ViewHolds
<1>4. QED
  BY <1>1, <1>2, <1>3, ShownKept

\* An entry gets old.
LEMMA ExpiryKeeps ==
    ASSUME CacheInv, NEW v \in Views, Expires(v)
    PROVE  CacheInv' /\ \A w \in Views : entry'[w].data >= entry[w].data
<1>1. PICK e \in EntryRow : e = entry[v]
  BY ViewFacts
<1>2. PICK new : new = [e EXCEPT !.updatedAt = "expired"]
  OBVIOUS
<1>3. new \in EntryRow /\ new.data = e.data
  BY <1>2 DEF EntryRow
<1>4. entry' = [entry EXCEPT ![v] = new] /\ UNCHANGED <<source, requests, watchlist>>
  BY <1>1, <1>2 DEF Expires, CacheInv, CacheTypes
<1>5. entry' \in [Views -> EntryRow] /\ \A w \in Views : entry'[w].data = entry[w].data
  BY <1>1, <1>3, <1>4 DEF CacheInv, CacheTypes
<1>6. QED
  BY <1>4, <1>5, MarkedOnly

\* Nothing is shown at first.
LEMMA CacheStart == QueryInit => CacheInv
<1> SUFFICES ASSUME QueryInit PROVE CacheInv
  OBVIOUS
<1>1. NoEntry \in EntryRow /\ NoEntry.data = 0
  BY DEF NoEntry, EntryRow
<1>2. "saved" \in Views
  BY DEF Views, FetcherOf
<1>3. /\ source = [v \in Views |-> 1] /\ entry = [v \in Views |-> NoEntry] /\ requests = [v \in Views |-> {}]
      /\ watchlist = 0
  BY DEF QueryInit
<1>4. \A v \in Views : ViewHolds(entry[v].data, requests[v], source[v])
  BY <1>1, <1>3 DEF ViewHolds
<1>5. QED
  BY <1>1, <1>2, <1>3, <1>4 DEF CacheInv, CacheTypes

\* Every step keeps the invariant, and no view goes back.
LEMMA CacheStep ==
    ASSUME CacheInv, [QueryNext]_queryVars
    PROVE  CacheInv' /\ \A w \in Views : entry'[w].data >= entry[w].data
<1>1. CASE UNCHANGED <<source, entry, requests, watchlist>>
  BY <1>1, MarkedOnly DEF CacheInv, CacheTypes
<1>2. ASSUME NEW v \in Views,
             Effect(v) \/ SourceAnswers(v) \/ fetchQuery_then(v) \/ fetchQuery_catch(v) \/ Expires(v)
      PROVE  CacheInv' /\ \A w \in Views : entry'[w].data >= entry[w].data
  BY <1>2, EffectKeeps, AnswerKeeps, ThenKeeps, CatchKeeps, ExpiryKeeps
<1>3. CASE submit \/ refetch \/ invalidatePoolActionQueries \/ invalidateSavedPools
  <2>1. PICK S : Invalidated(S)
    BY <1>3 DEF submit, refetch, invalidatePoolActionQueries, invalidateSavedPools
  <2>2. UNCHANGED <<source, requests, watchlist>>
    BY <1>3 DEF submit, refetch, invalidatePoolActionQueries, invalidateSavedPools
  <2>3. QED
    BY <2>1, <2>2, InvalidatedMarks
<1>4. CASE ActionLands \/ savePool
  <2>1. PICK S : source' = Bumped(S)
    BY <1>4 DEF ActionLands, savePool
  <2>2. UNCHANGED <<entry, requests, watchlist>>
    BY <1>4 DEF ActionLands, savePool
  <2>3. QED
    BY <2>1, <2>2, BumpKeeps
<1>5. CASE \E s \in {"api", "contract"} : ServiceTurns(s)
  BY <1>1, <1>5 DEF ServiceTurns
<1>6. CASE UNCHANGED queryVars
  BY <1>1, <1>6 DEF queryVars
<1>7. QED
  BY <1>2, <1>3, <1>4, <1>5, <1>6 DEF QueryNext

\* A view never shows older data than it has shown, for any page and any number
\* of writes and outages: useVaultQuery shares a fetch under way, and the copy
\* in localStorage is of what was shown.
THEOREM ViewsNeverGoBack == QuerySpec => [][NeverBackwards]_queryVars
<1>1. CacheInv /\ [QueryNext]_queryVars => CacheInv'
  BY CacheStep
<1>2. CacheInv /\ [QueryNext]_queryVars => NeverBackwards
  BY CacheStep DEF NeverBackwards
<1>3. QED
  BY <1>1, <1>2, CacheStart, PTL DEF QuerySpec

\* No step takes back what was given, neither a lease before it has expired nor
\* data a view has shown, in every behaviour of the jobs beside any of the client's.
THEOREM NothingIsTakenBack == Spec /\ QuerySpec => NoStepBack
<1>1. [][NoEarlyTakeover]_vars /\ [][NeverBackwards]_queryVars
      => [][NoEarlyTakeover /\ NeverBackwards]_mcVars
  <2>1. [NoEarlyTakeover]_vars /\ [NeverBackwards]_queryVars
        => [NoEarlyTakeover /\ NeverBackwards]_mcVars
    BY DEF NoEarlyTakeover, NeverBackwards, mcVars
  <2>2. QED
    BY <2>1, PTL
<1>2. QED
  BY <1>1, TakeoversWait, ViewsNeverGoBack, PTL DEF NoStepBack

-----------------------------------------------------------------------------
(* The three systems as a whole: in the composition one of them runs and   *)
(* the others wait.                                                        *)

\* A step of the composition is a step of each system, or leaves it as it is.
LEMMA StepsOfSystems ==
    [MCNext]_mcVars =>
      /\ [Next]_vars
      /\ [IndexerNext]_indexerVars
      /\ [QueryNext]_queryVars
<1>1. UNCHANGED mcVars =>
        /\ UNCHANGED vars
        /\ UNCHANGED indexerVars
        /\ UNCHANGED queryVars
  BY DEF mcVars
<1>2. MCNext => Frame
  BY DEF MCNext
<1>3. MCNext => Next \/ UNCHANGED vars
  <2>1. MCNext /\ scenario = "lease" => Next
    BY DEF MCNext
  <2>2. QED
    BY <1>2, <2>1 DEF Frame, Keeps
<1>4. MCNext => IndexerNext \/ UNCHANGED indexerVars
  <2>1. MCNext /\ scenario = "indexer" => IndexerNext
    BY DEF MCNext
  <2>2. QED
    BY <1>2, <2>1 DEF Frame, Keeps
<1>5. MCNext => QueryNext \/ UNCHANGED queryVars
  <2>1. MCNext /\ scenario = "queries" => QueryNext
    BY DEF MCNext
  <2>2. QED
    BY <1>2, <2>1 DEF Frame, Keeps
<1>6. QED
  BY <1>1, <1>3, <1>4, <1>5

\* A behaviour of the composition is one of each of the systems.
LEMMA EachSystemRuns ==
    MCSpec =>
      /\ Spec /\ IndexerSpec /\ QuerySpec
<1>1. MCInit =>
      /\ Init /\ IndexerInit /\ QueryInit
  BY DEF MCInit
<1>2. QED
  BY <1>1, StepsOfSystems, PTL
  DEF MCSpec, Spec, IndexerSpec, QuerySpec

\* The systems as the runs compose them: nothing is left behind, the indexer
\* delivers, no step takes back what was given and, with one tick per process,
\* leases exclude each other.
THEOREM DeliveryIsSound ==
    ASSUME OneTickPerProcess
    PROVE  MCSpec => [](LeasesExclude /\ NothingLeftBehind) /\ ImplementsDelivery /\ NoStepBack
<1>1. Spec => []LeasesExclude
  BY LeasesStayExclusive
<1>2. QED
  BY <1>1, EachSystemRuns, NothingStaysBehind, IndexerDelivers, NothingIsTakenBack, PTL
=============================================================================
