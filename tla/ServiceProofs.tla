---------------------------- MODULE ServiceProofs ----------------------------
(***************************************************************************)
(* The services of the backend, for any constants of their modules.  Who   *)
(* may do what and on what grounds: repairs of the ledger under dual       *)
(* control, the sessions of wallets and administrators, the proofs of      *)
(* draws.  What is read: pages of the ledger, reads by a quorum, the list  *)
(* cache, amounts.  What runs beside them: reminders, backups, deployment, *)
(* release checks and the back-fill.  At the end, all of them as MCSpec    *)
(* composes them.                                                          *)
(***************************************************************************)
EXTENDS MCServices, PayoutProofs, SumProofs

-----------------------------------------------------------------------------
(* Repairs.                                                                  *)

ProposalRow ==
  [status : {"absent", "pending", "approved", "executed", "expired"}, steps : SUBSET Steps,
   drifts : SUBSET DriftTypes, proposer : Operators \cup {"nobody"}, required : 0 .. 2,
   approvals : SUBSET Operators, expired : BOOLEAN]

OperatorCall ==
  [op : {"idle", "approve", "execute"},
   pc : {"idle", "read", "inserted", "applying", "quarantined"}, seen : Nat, todo : SUBSET Steps]

\* What the approvals a plan needs are, and that none is its proposer's.
ProposalHolds ==
  /\ IsFiniteSet(proposal.approvals) /\ proposal.proposer \notin proposal.approvals
  /\ proposal.status = "absent" => proposal = NoProposal
  /\ proposal.status # "absent" => proposal.required = requiredApprovals(proposal.steps)

\* What a call under way rests on: an approval is by somebody else than the
\* proposer, an execution has the approvals it needs, works off the steps of
\* the plan, and has sent every financial drift to review when it ends.
CallRests(o, c) ==
  /\ c.op = "idle" => c = NoOp
  /\ c.op # "idle" => proposal.status # "absent"
  /\ c.op = "approve" => o # proposal.proposer /\ c.todo = {} /\ c.pc \in {"read", "inserted"}
  /\ c.op = "execute" => /\ c.pc \in {"applying", "quarantined"}
                         /\ Cardinality(proposal.approvals) >= proposal.required
  /\ c.todo \subseteq proposal.steps
  /\ c.pc = "quarantined" => Reviewed(proposal.drifts) \subseteq quarantine

\* The inductive invariant of the repairs.
RepairInv ==
  /\ proposal \in ProposalRow /\ quarantine \subseteq ReviewOnly
  /\ ops \in [Operators -> OperatorCall]
  /\ ProposalHolds /\ FinancialDriftReviewed
  /\ \A o \in Operators : CallRests(o, ops[o])

\* The invariant implies the property.
LEMMA RepairInvMeans ==
    ASSUME RepairInv
    PROVE  RepairsControlled
<1>1. /\ proposal.status \in {"absent", "pending", "approved", "executed", "expired"}
      /\ proposal.steps \subseteq Steps /\ proposal.drifts \subseteq DriftTypes
      /\ proposal.approvals \subseteq Operators /\ proposal.required \in 0 .. 2
  BY DEF RepairInv, ProposalRow
<1>2. RepairTypeOK
  BY <1>1 DEF RepairInv, RepairTypeOK, CallRests
<1>3. DualControl
  <2> SUFFICES ASSUME NEW o \in Operators, ops[o].op = "execute"
               PROVE  Cardinality(proposal.approvals \ {proposal.proposer}) >=
                        IF Cardinality(proposal.steps) > DualControlStepThreshold THEN 2 ELSE 1
    BY DEF DualControl
  <2>1. proposal.approvals \ {proposal.proposer} = proposal.approvals
    BY DEF RepairInv, ProposalHolds
  <2>2. Cardinality(proposal.approvals) >= proposal.required /\ proposal.required = requiredApprovals(proposal.steps)
    BY DEF RepairInv, CallRests, ProposalHolds
  <2>3. QED
    BY <2>1, <2>2 DEF requiredApprovals
<1>4. QED
  BY <1>2, <1>3 DEF RepairInv, RepairsControlled

\* Nothing is proposed or under way at first.
LEMMA RepairStart == RepairInit => RepairInv
<1> SUFFICES ASSUME RepairInit PROVE RepairInv
  OBVIOUS
<1>1. proposal = NoProposal /\ quarantine = {} /\ ops = [o \in Operators |-> NoOp]
  BY DEF RepairInit
<1>2. NoProposal \in ProposalRow /\ NoOp \in OperatorCall
  BY DEF NoProposal, NoOp, ProposalRow, OperatorCall
<1>3. /\ NoProposal.approvals = {} /\ NoProposal.status = "absent"
      /\ NoOp.op = "idle" /\ NoOp.todo = {} /\ NoOp.pc = "idle"
  BY DEF NoProposal, NoOp
<1>4. ProposalHolds
  BY <1>1, <1>3, FS_EmptySet DEF ProposalHolds
<1>5. FinancialDriftReviewed
  BY <1>1, <1>3 DEF FinancialDriftReviewed
<1>6. \A o \in Operators : CallRests(o, ops[o])
  BY <1>1, <1>3 DEF CallRests
<1>7. QED
  BY <1>1, <1>2, <1>4, <1>5, <1>6 DEF RepairInv

\* A call that is replaced by one that rests on the same tables.
LEMMA CallReplaced ==
    ASSUME RepairInv, NEW o \in Operators, NEW c \in OperatorCall, CallRests(o, c),
           ops' = [ops EXCEPT ![o] = c], UNCHANGED <<proposal, quarantine>>
    PROVE  RepairInv'
<1>1. ops' \in [Operators -> OperatorCall]
  BY DEF RepairInv
<1>2. \A x \in Operators : ops'[x] = IF x = o THEN c ELSE ops[x]
  BY DEF RepairInv
<1>3. \A x \in Operators : CallRests(x, ops'[x])
  BY <1>2 DEF RepairInv
<1>4. \A x \in Operators : CallRests(x, ops[x])'
  BY <1>3 DEF CallRests
<1>5. QED
  BY <1>1, <1>4 DEF RepairInv, ProposalHolds, FinancialDriftReviewed

\* An idle call rests on any tables.
LEMMA IdleRests ==
    ASSUME NEW o
    PROVE  NoOp \in OperatorCall /\ CallRests(o, NoOp)
<1>1. NoOp.op = "idle" /\ NoOp.todo = {} /\ NoOp.pc = "idle"
  BY DEF NoOp
<1>2. QED
  BY <1>1 DEF NoOp, OperatorCall, CallRests

\* createRepairProposal: nothing was under way, as nothing was proposed.
LEMMA CreateKeeps ==
    ASSUME RepairInv, NEW o \in Operators, createRepairProposal(o)
    PROVE  RepairInv'
<1>1. PICK steps \in SUBSET Steps, drifts \in SUBSET DriftTypes, n \in 0 .. 2 :
         /\ proposal' = [NoProposal EXCEPT !.status = "pending", !.steps = steps, !.drifts = drifts,
                                           !.proposer = o, !.required = n]
         /\ n = requiredApprovals(steps)
  <2>1. buildRepairPlan(detectDrift) \in SUBSET Steps /\ detectDrift \in SUBSET DriftTypes
    BY DEF buildRepairPlan, detectDrift, eventDrifts, settlementDrifts
  <2>2. requiredApprovals(buildRepairPlan(detectDrift)) \in 0 .. 2
    BY DEF requiredApprovals
  <2>3. QED
    BY <2>1, <2>2 DEF createRepairProposal
<1>2. proposal.status = "absent" /\ UNCHANGED <<ops, quarantine>>
  BY DEF createRepairProposal
<1>3. /\ proposal' \in ProposalRow
      /\ proposal'.status = "pending" /\ proposal'.steps = steps /\ proposal'.required = n
      /\ proposal'.proposer = o /\ proposal'.approvals = {}
  BY <1>1 DEF NoProposal, ProposalRow
<1>4. ProposalHolds'
  <2>1. requiredApprovals(proposal'.steps) = n
    BY <1>1, <1>3
  <2>2. QED
    BY <1>3, <2>1, FS_EmptySet DEF ProposalHolds, requiredApprovals
<1>5. FinancialDriftReviewed'
  BY <1>3 DEF FinancialDriftReviewed
<1>6. \A x \in Operators : ops[x] = NoOp
  <2>1. \A x \in Operators : ops[x].op = "idle"
    BY <1>2 DEF RepairInv, CallRests
  <2>2. QED
    BY <2>1 DEF RepairInv, CallRests
<1>7. \A x \in Operators : CallRests(x, ops[x])'
  <2>1. NoOp.op = "idle" /\ NoOp.todo = {} /\ NoOp.pc = "idle"
    BY DEF NoOp
  <2>2. QED
    BY <1>2, <1>6, <2>1 DEF CallRests
<1>8. QED
  BY <1>2, <1>3, <1>4, <1>5, <1>7 DEF RepairInv

\* A step that writes the proposal's status, expiry or approvals, adds to the
\* quarantine, and ends, starts or moves calls that rest on the result.
LEMMA TablesWritten ==
    ASSUME RepairInv, proposal.status # "absent",
           proposal' \in ProposalRow, proposal'.status # "absent",
           proposal'.steps = proposal.steps, proposal'.drifts = proposal.drifts,
           proposal'.proposer = proposal.proposer, proposal'.required = proposal.required,
           proposal.approvals \subseteq proposal'.approvals, IsFiniteSet(proposal'.approvals),
           proposal.proposer \notin proposal'.approvals,
           quarantine \subseteq quarantine', quarantine' \subseteq ReviewOnly,
           proposal'.status = "executed" => Reviewed(proposal.drifts) \subseteq quarantine',
           ops' \in [Operators -> OperatorCall],
           \A x \in Operators : ops'[x] = ops[x] \/ CallRests(x, ops[x])'
    PROVE  RepairInv'
<1>1. Cardinality(proposal.approvals) <= Cardinality(proposal'.approvals)
  BY FS_Subset
<1>2. Cardinality(proposal.approvals) \in Nat /\ Cardinality(proposal'.approvals) \in Nat
  BY FS_CardinalityType, FS_Subset
<1>3. proposal.required \in 0 .. 2
  BY DEF RepairInv, ProposalRow
<1>4. ASSUME NEW x \in Operators PROVE CallRests(x, ops[x])'
  <2>1. CASE ops'[x] = ops[x]
    <3>1. CallRests(x, ops[x])
      BY DEF RepairInv
    <3>2. Cardinality(proposal.approvals) >= proposal.required =>
            Cardinality(proposal'.approvals) >= proposal'.required
      BY <1>1, <1>2, <1>3
    <3>3. Reviewed(proposal'.drifts) = Reviewed(proposal.drifts)
      BY DEF Reviewed
    <3>4. QED
      BY <2>1, <3>1, <3>2, <3>3 DEF CallRests, Reviewed
  <2>2. QED
    BY <2>1
<1>5. ProposalHolds'
  <2>1. proposal.required = requiredApprovals(proposal.steps)
    BY DEF RepairInv, ProposalHolds
  <2>2. QED
    BY <2>1 DEF ProposalHolds, requiredApprovals
<1>6. FinancialDriftReviewed'
  BY DEF FinancialDriftReviewed, Reviewed
<1>7. QED
  BY <1>4, <1>5, <1>6 DEF RepairInv

\* A status other than "executed", or "executed" by a call that sent every
\* financial drift to review.
LEMMA StatusWritten ==
    ASSUME RepairInv, proposal.status # "absent",
           NEW s \in {"pending", "approved", "executed", "expired"},
           proposal' = [proposal EXCEPT !.status = s], quarantine' = quarantine,
           s = "executed" => Reviewed(proposal.drifts) \subseteq quarantine,
           ops' = ops \/ \E o \in Operators : ops' = [ops EXCEPT ![o] = NoOp]
    PROVE  RepairInv'
<1>1. proposal \in ProposalRow /\ quarantine \subseteq ReviewOnly /\ ops \in [Operators -> OperatorCall]
  BY DEF RepairInv
<1>2. /\ proposal' \in ProposalRow /\ proposal'.status = s
      /\ proposal'.steps = proposal.steps /\ proposal'.drifts = proposal.drifts
      /\ proposal'.proposer = proposal.proposer /\ proposal'.required = proposal.required
      /\ proposal'.approvals = proposal.approvals
  BY <1>1 DEF ProposalRow
<1>3. IsFiniteSet(proposal.approvals) /\ proposal.proposer \notin proposal.approvals
  BY DEF RepairInv, ProposalHolds
<1>4. ops' \in [Operators -> OperatorCall] /\ \A x \in Operators : ops'[x] = ops[x] \/ ops'[x] = NoOp
  <2>1. NoOp \in OperatorCall
    BY DEF NoOp, OperatorCall
  <2>2. QED
    BY <1>1, <2>1
<1>5. \A x \in Operators : ops'[x] = ops[x] \/ CallRests(x, ops[x])'
  <2>1. NoOp.op = "idle" /\ NoOp.todo = {} /\ NoOp.pc = "idle"
    BY DEF NoOp
  <2>2. QED
    BY <1>4, <2>1 DEF CallRests
<1>6. QED
  BY <1>1, <1>2, <1>3, <1>4, <1>5, TablesWritten

\* approveRepairProposal up to its insert: nobody approves their own plan.
LEMMA ApproveReads ==
    ASSUME RepairInv, NEW o \in Operators, approveRepairProposal_read(o)
    PROVE  RepairInv'
<1>1. proposal.status # "absent" /\ UNCHANGED quarantine
  BY DEF approveRepairProposal_read
<1>2. CASE proposal' = [proposal EXCEPT !.status = "expired"] /\ UNCHANGED ops
  BY <1>1, <1>2, StatusWritten
<1>3. ASSUME o # proposal.proposer, UNCHANGED proposal,
             ops' = [ops EXCEPT ![o] = [NoOp EXCEPT !.op = "approve", !.pc = "read",
                                                    !.seen = Cardinality(proposal.approvals)]]
      PROVE  RepairInv'
  <2>1. PICK n \in Nat : n = Cardinality(proposal.approvals)
    BY FS_CardinalityType DEF RepairInv, ProposalHolds
  <2>2. PICK c \in OperatorCall : c = [NoOp EXCEPT !.op = "approve", !.pc = "read", !.seen = n]
    BY DEF NoOp, OperatorCall
  <2>3. c.op = "approve" /\ c.pc = "read" /\ c.todo = {}
    BY <2>2 DEF NoOp
  <2>4. CallRests(o, c)
    BY <1>1, <1>3, <2>3 DEF CallRests
  <2>5. QED
    BY <1>1, <1>3, <2>1, <2>2, <2>4, CallReplaced
<1>4. QED
  BY <1>2, <1>3 DEF approveRepairProposal_read

\* The insert of an approval.
LEMMA ApproveInserts ==
    ASSUME RepairInv, NEW o \in Operators, approveRepairProposal_insert(o)
    PROVE  RepairInv'
<1>1. proposal \in ProposalRow /\ ops \in [Operators -> OperatorCall] /\ quarantine \subseteq ReviewOnly
  BY DEF RepairInv
<1>2. /\ ops[o].op = "approve" /\ quarantine' = quarantine
      /\ proposal' = [proposal EXCEPT !.approvals = @ \cup {o}]
      /\ ops' = [ops EXCEPT ![o].pc = "inserted"]
  BY DEF approveRepairProposal_insert
<1>3. proposal.status # "absent" /\ o # proposal.proposer /\ ops[o].todo = {}
  BY <1>2 DEF RepairInv, CallRests
<1>4. PICK A \in SUBSET Operators : A = proposal.approvals \cup {o}
  BY <1>1 DEF ProposalRow
<1>5. /\ proposal' \in ProposalRow /\ proposal'.status = proposal.status
      /\ proposal'.steps = proposal.steps /\ proposal'.drifts = proposal.drifts
      /\ proposal'.proposer = proposal.proposer /\ proposal'.required = proposal.required
      /\ proposal'.approvals = A
  BY <1>1, <1>2, <1>4 DEF ProposalRow
<1>6. IsFiniteSet(A) /\ proposal.proposer \notin A /\ proposal.approvals \subseteq A
  BY <1>3, <1>4, FS_AddElement DEF RepairInv, ProposalHolds
<1>7. proposal'.status = "executed" => Reviewed(proposal.drifts) \subseteq quarantine
  BY <1>5 DEF RepairInv, FinancialDriftReviewed, Reviewed
<1>8. PICK c \in OperatorCall : c = [ops[o] EXCEPT !.pc = "inserted"]
  BY <1>1 DEF OperatorCall
<1>9. c.op = "approve" /\ c.pc = "inserted" /\ c.todo = {}
  BY <1>1, <1>2, <1>3, <1>8 DEF OperatorCall
<1>10. ops' \in [Operators -> OperatorCall] /\ ops'[o] = c /\ \A x \in Operators \ {o} : ops'[x] = ops[x]
  BY <1>1, <1>2, <1>8
<1>11. CallRests(o, ops[o])'
  BY <1>3, <1>5, <1>9, <1>10 DEF CallRests
<1>12. \A x \in Operators : ops'[x] = ops[x] \/ CallRests(x, ops[x])'
  BY <1>10, <1>11
<1>13. QED
  BY <1>1, <1>2, <1>3, <1>5, <1>6, <1>7, <1>10, <1>12, TablesWritten

\* executeRepairProposal starts only with the approvals the plan needs.
LEMMA ExecuteReads ==
    ASSUME RepairInv, NEW o \in Operators, executeRepairProposal_read(o)
    PROVE  RepairInv'
<1>1. proposal.status # "absent" /\ UNCHANGED quarantine
  BY DEF executeRepairProposal_read
<1>2. CASE proposal' = [proposal EXCEPT !.status = "expired"] /\ UNCHANGED ops
  BY <1>1, <1>2, StatusWritten
<1>3. ASSUME Cardinality(proposal.approvals) >= proposal.required, UNCHANGED proposal,
             ops' = [ops EXCEPT ![o] = [NoOp EXCEPT !.op = "execute", !.pc = "applying", !.todo = proposal.steps]]
      PROVE  RepairInv'
  <2>1. PICK todo \in SUBSET Steps : todo = proposal.steps
    BY DEF RepairInv, ProposalRow
  <2>2. PICK c \in OperatorCall : c = [NoOp EXCEPT !.op = "execute", !.pc = "applying", !.todo = todo]
    BY DEF NoOp, OperatorCall
  <2>3. c.op = "execute" /\ c.pc = "applying" /\ c.todo = todo
    BY <2>2 DEF NoOp
  <2>4. CallRests(o, c)
    BY <1>1, <1>3, <2>1, <2>3 DEF CallRests
  <2>5. QED
    BY <1>1, <1>3, <2>1, <2>2, <2>4, CallReplaced
<1>4. QED
  BY <1>2, <1>3 DEF executeRepairProposal_read

\* One step of the plan is done.
LEMMA ApplyKeeps ==
    ASSUME RepairInv, NEW o \in Operators, NEW s \in Steps, applyRepairPlan_step(o, s)
    PROVE  RepairInv'
<1>1. ops[o] \in OperatorCall /\ CallRests(o, ops[o])
  BY DEF RepairInv
<1>2. ops' = [ops EXCEPT ![o].todo = @ \ {s}] /\ UNCHANGED <<proposal, quarantine>> /\ ops[o].pc = "applying"
  BY DEF applyRepairPlan_step
<1>3. PICK c \in OperatorCall : c = [ops[o] EXCEPT !.todo = @ \ {s}]
  BY <1>1 DEF OperatorCall
<1>4. c.op = ops[o].op /\ c.pc = "applying" /\ c.todo = ops[o].todo \ {s}
  BY <1>1, <1>2, <1>3 DEF OperatorCall
<1>5. c.op # "idle"
  <2>1. ops[o].op = "idle" => ops[o].pc = "idle"
    BY <1>1 DEF CallRests, NoOp
  <2>2. QED
    BY <1>2, <1>4, <2>1
<1>6. CallRests(o, c)
  BY <1>1, <1>2, <1>4, <1>5 DEF CallRests
<1>7. QED
  BY <1>2, <1>3, <1>6, CallReplaced

\* The financial drift of the plan is sent to review before it ends.
LEMMA QuarantineKeeps ==
    ASSUME RepairInv, NEW o \in Operators, applyRepairPlan_quarantine(o)
    PROVE  RepairInv'
<1>1. proposal \in ProposalRow /\ ops \in [Operators -> OperatorCall] /\ CallRests(o, ops[o])
  BY DEF RepairInv
<1>2. /\ ops[o].pc = "applying" /\ proposal' = proposal
      /\ quarantine' = quarantine \cup Reviewed(proposal.drifts)
      /\ ops' = [ops EXCEPT ![o].pc = "quarantined"]
  BY DEF applyRepairPlan_quarantine
<1>3. ops[o].op = "execute"
  <2>1. ops[o].op = "idle" => ops[o].pc = "idle"
    BY <1>1 DEF CallRests, NoOp
  <2>2. QED
    BY <1>1, <1>2, <2>1 DEF CallRests, OperatorCall
<1>4. PICK c \in OperatorCall : c = [ops[o] EXCEPT !.pc = "quarantined"]
  BY <1>1 DEF OperatorCall
<1>5. c.op = "execute" /\ c.pc = "quarantined" /\ c.todo = ops[o].todo
  BY <1>1, <1>3, <1>4 DEF OperatorCall
<1>6. ops' \in [Operators -> OperatorCall] /\ ops'[o] = c /\ \A x \in Operators \ {o} : ops'[x] = ops[x]
  BY <1>1, <1>2, <1>4
<1>7. CallRests(o, ops[o])'
  BY <1>1, <1>2, <1>3, <1>5, <1>6 DEF CallRests, Reviewed
<1>8. quarantine \subseteq quarantine' /\ quarantine' \subseteq ReviewOnly
  BY <1>2 DEF RepairInv, Reviewed
<1>9. proposal.status # "absent"
  BY <1>1, <1>3 DEF CallRests
<1>10. IsFiniteSet(proposal.approvals) /\ proposal.proposer \notin proposal.approvals
  BY DEF RepairInv, ProposalHolds
<1>11. \A x \in Operators : ops'[x] = ops[x] \/ CallRests(x, ops[x])'
  BY <1>6, <1>7
<1>12. proposal'.status = "executed" => Reviewed(proposal.drifts) \subseteq quarantine'
  BY <1>2
<1>13. QED
  BY <1>1, <1>2, <1>6, <1>8, <1>9, <1>10, <1>11, <1>12, TablesWritten

\* Every step of the repairs keeps the invariant.
LEMMA RepairStep ==
    ASSUME RepairInv, [RepairNext]_repairVars
    PROVE  RepairInv'
<1>1. ASSUME UNCHANGED <<proposal, ops, quarantine>> PROVE RepairInv'
  BY <1>1 DEF RepairInv, ProposalHolds, FinancialDriftReviewed, CallRests
<1>2. CASE UNCHANGED repairVars
  BY <1>1, <1>2 DEF repairVars
<1>3. CASE RowsChange
  BY <1>1, <1>3 DEF RowsChange
<1>4. CASE RepairExpires
  <2>1. proposal \in ProposalRow /\ quarantine \subseteq ReviewOnly /\ ops \in [Operators -> OperatorCall]
    BY DEF RepairInv
  <2>2. /\ proposal.status # "absent" /\ ops' = ops /\ quarantine' = quarantine
        /\ proposal' = [proposal EXCEPT !.expired = TRUE]
    BY <1>4 DEF RepairExpires
  <2>3. /\ proposal' \in ProposalRow /\ proposal'.status = proposal.status
        /\ proposal'.steps = proposal.steps /\ proposal'.drifts = proposal.drifts
        /\ proposal'.proposer = proposal.proposer /\ proposal'.required = proposal.required
        /\ proposal'.approvals = proposal.approvals
    BY <2>1, <2>2 DEF ProposalRow
  <2>4. IsFiniteSet(proposal.approvals) /\ proposal.proposer \notin proposal.approvals
    BY DEF RepairInv, ProposalHolds
  <2>5. proposal'.status = "executed" => Reviewed(proposal.drifts) \subseteq quarantine
    BY <2>3 DEF RepairInv, FinancialDriftReviewed, Reviewed
  <2>6. QED
    BY <2>1, <2>2, <2>3, <2>4, <2>5, TablesWritten
<1>5. ASSUME NEW o \in Operators, approveRepairProposal_status(o) PROVE RepairInv'
  <2>1. proposal.status # "absent"
    BY <1>5 DEF approveRepairProposal_status, RepairInv, CallRests
  <2>2. PICK s \in {"pending", "approved"} : proposal' = [proposal EXCEPT !.status = s]
    BY <1>5 DEF approveRepairProposal_status
  <2>3. ops' = [ops EXCEPT ![o] = NoOp] /\ quarantine' = quarantine
    BY <1>5 DEF approveRepairProposal_status
  <2>4. QED
    BY <2>1, <2>2, <2>3, StatusWritten
<1>6. ASSUME NEW o \in Operators, executeRepairProposal_status(o) PROVE RepairInv'
  <2>1. CallRests(o, ops[o]) /\ ops[o].pc = "quarantined"
    BY <1>6 DEF executeRepairProposal_status, RepairInv
  <2>2. proposal.status # "absent" /\ Reviewed(proposal.drifts) \subseteq quarantine
    BY <2>1 DEF CallRests, NoOp
  <2>3. /\ proposal' = [proposal EXCEPT !.status = "executed"]
        /\ ops' = [ops EXCEPT ![o] = NoOp] /\ quarantine' = quarantine
    BY <1>6 DEF executeRepairProposal_status
  <2>4. QED
    BY <2>2, <2>3, StatusWritten
<1>7. ASSUME NEW o \in Operators, RepairCrash(o) PROVE RepairInv'
  <2>1. ops' = [ops EXCEPT ![o] = NoOp] /\ UNCHANGED <<proposal, quarantine>>
    BY <1>7 DEF RepairCrash
  <2>2. QED
    BY <2>1, IdleRests, CallReplaced
<1>8. QED
  BY <1>2, <1>3, <1>4, <1>5, <1>6, <1>7, CreateKeeps, ApproveReads, ApproveInserts, ExecuteReads,
     ApplyKeeps, QuarantineKeeps DEF RepairNext

\* Nothing reconciler.ts executes escaped the approvals it needs, and no
\* financial drift of an executed plan went without review, for any number of
\* operators who race, retry and crash.
THEOREM RepairsStayControlled == RepairSpec => []RepairsControlled
<1>1. RepairInv /\ [RepairNext]_repairVars => RepairInv'
  BY RepairStep
<1>2. RepairInv => RepairsControlled
  BY RepairInvMeans
<1>3. QED
  BY <1>1, <1>2, RepairStart, PTL DEF RepairSpec

-----------------------------------------------------------------------------
(* Sessions.                                                                 *)

SessionRow == [token : Nat, revoked : BOOLEAN, expired : BOOLEAN]
VisitRow == [op : {"idle", "verify", "refresh", "revoke"}, on : Challenges \cup {"none"}]

\* A challenge and the session made from it: there is one as soon as the
\* challenge is consumed, it was made once, and a closed one is marked so.
LoginHolds(ch, s, n, out, max) ==
  /\ s.token <= max /\ (s.token # 0 <=> ch = "consumed")
  /\ n = IF ch = "consumed" THEN 1 ELSE 0
  /\ out => s.revoked /\ s.token # 0

\* A request that goes on to write a session has read one that exists.
VisitHolds(m) ==
  /\ m.op # "idle" => m.on \in Challenges
  /\ m.op \in {"refresh", "revoke"} => session[m.on].token # 0

WalletInv ==
  /\ challenge \in [Challenges -> {"none", "open", "expired", "consumed"}]
  /\ session \in [Challenges -> SessionRow] /\ tokens \in Nat
  /\ visit \in [Visitors -> VisitRow] /\ opened \in [Challenges -> Nat] /\ loggedOut \subseteq Challenges
  /\ \A c \in Challenges : LoginHolds(challenge[c], session[c], opened[c], c \in loggedOut, tokens)
  /\ \A v \in Visitors : VisitHolds(visit[v])

\* A revoked row stays revoked, and its revoker has dropped it.
AdminInv ==
  /\ adminCache \subseteq Servers
  /\ \A p \in adminRevokers : admin = "revoked" /\ p \notin adminCache

\* The inductive invariant of the sessions.
SessionInv == WalletInv /\ AdminInv

\* The invariant implies the property.
LEMMA SessionInvMeans ==
    ASSUME SessionInv
    PROVE  SessionsSound
<1>1. \A c \in Challenges : LoginHolds(challenge[c], session[c], opened[c], c \in loggedOut, tokens)
  BY DEF SessionInv, WalletInv
<1>2. /\ \A c \in Challenges : session[c].token \in Nat
      /\ tokens \in Nat /\ loggedOut \subseteq Challenges
      /\ \A c \in Challenges : challenge[c] \in {"none", "open", "expired", "consumed"}
  BY DEF SessionInv, WalletInv, SessionRow
<1>3. SessionTypeOK
  BY <1>1, <1>2 DEF SessionTypeOK, LoginHolds, SessionInv, AdminInv
<1>4. ChallengeSingleUse /\ LoggedOutStays
  BY <1>1, <1>2 DEF ChallengeSingleUse, LoggedOutStays, LoginHolds
<1>5. RevokerRefuses
  BY DEF RevokerRefuses, verifySession, SessionInv, AdminInv
<1>6. QED
  BY <1>3, <1>4, <1>5 DEF SessionsSound

\* Nothing is stored at first.
LEMMA SessionStart == SessionInit => SessionInv
<1> SUFFICES ASSUME SessionInit PROVE SessionInv
  OBVIOUS
<1>1. NoSession \in SessionRow /\ NoVisit \in VisitRow
  BY DEF NoSession, NoVisit, SessionRow, VisitRow
<1>2. NoSession.token = 0 /\ NoVisit.op = "idle"
  BY DEF NoSession, NoVisit
<1>3. /\ challenge = [c \in Challenges |-> "none"] /\ session = [c \in Challenges |-> NoSession]
      /\ tokens = 0 /\ visit = [v \in Visitors |-> NoVisit] /\ opened = [c \in Challenges |-> 0]
      /\ loggedOut = {} /\ adminCache = {} /\ adminRevokers = {}
  BY DEF SessionInit
<1>4. \A c \in Challenges : LoginHolds(challenge[c], session[c], opened[c], c \in loggedOut, tokens)
  BY <1>2, <1>3 DEF LoginHolds
<1>5. \A v \in Visitors : VisitHolds(visit[v])
  BY <1>2, <1>3 DEF VisitHolds
<1>6. QED
  BY <1>1, <1>3, <1>4, <1>5 DEF SessionInv, WalletInv, AdminInv

\* A request that ends, and one that begins, leave the tables to their own step.
LEMMA VisitsWritten ==
    ASSUME WalletInv, NEW v \in Visitors, NEW m \in VisitRow, visit' = [visit EXCEPT ![v] = m],
           m = NoVisit \/ (m.on \in Challenges /\ (m.op \in {"refresh", "revoke"} => session[m.on].token # 0)),
           \A c \in Challenges : session[c].token # 0 => session'[c].token # 0
    PROVE  visit' \in [Visitors -> VisitRow] /\ \A x \in Visitors : VisitHolds(visit[x])'
<1>1. visit' \in [Visitors -> VisitRow]
  BY DEF WalletInv
<1>2. \A x \in Visitors : visit'[x] = IF x = v THEN m ELSE visit[x]
  BY DEF WalletInv
<1>3. ASSUME NEW x \in Visitors PROVE VisitHolds(visit[x])'
  <2>1. CASE x = v /\ m = NoVisit
    BY <1>2, <2>1 DEF VisitHolds, NoVisit
  <2>2. CASE x = v /\ m # NoVisit
    BY <1>2, <2>2 DEF VisitHolds
  <2>3. CASE x # v
    BY <1>2, <2>3 DEF VisitHolds, WalletInv
  <2>4. QED
    BY <2>1, <2>2, <2>3
<1>4. QED
  BY <1>1, <1>3

\* The first half of a request only notes what it read.
LEMMA RequestReads ==
    ASSUME WalletInv, NEW v \in Visitors, NEW c \in Challenges, NEW op \in {"verify", "refresh", "revoke"},
           Visit(v, op, c), op \in {"refresh", "revoke"} => session[c].token # 0,
           UNCHANGED <<challenge, session, tokens, opened, loggedOut>>
    PROVE  WalletInv'
<1>1. PICK m \in VisitRow : m = [op |-> op, on |-> c]
  BY DEF VisitRow
<1>2. visit' = [visit EXCEPT ![v] = m] /\ m.on = c /\ m.op = op
  BY <1>1 DEF Visit
<1>3. visit' \in [Visitors -> VisitRow] /\ \A x \in Visitors : VisitHolds(visit[x])'
  BY <1>2, VisitsWritten
<1>4. \A x \in Challenges : LoginHolds(challenge[x], session[x], opened[x], x \in loggedOut, tokens)'
  BY DEF WalletInv, LoginHolds
<1>5. QED
  BY <1>3, <1>4 DEF WalletInv

\* One login is rewritten; the others keep theirs, also when a token was issued.
LEMMA LoginWritten ==
    ASSUME WalletInv, NEW c \in Challenges, NEW ch \in {"none", "open", "expired", "consumed"},
           NEW s \in SessionRow, NEW n \in Nat, NEW max \in Nat, max >= tokens,
           challenge' = [challenge EXCEPT ![c] = ch], session' = [session EXCEPT ![c] = s],
           opened' = [opened EXCEPT ![c] = n], tokens' = max,
           loggedOut' \subseteq Challenges, \A x \in Challenges \ {c} : x \in loggedOut' <=> x \in loggedOut,
           LoginHolds(ch, s, n, c \in loggedOut', max)
    PROVE  /\ challenge' \in [Challenges -> {"none", "open", "expired", "consumed"}]
           /\ session' \in [Challenges -> SessionRow] /\ opened' \in [Challenges -> Nat]
           /\ \A x \in Challenges : LoginHolds(challenge[x], session[x], opened[x], x \in loggedOut, tokens)'
<1>1. /\ challenge \in [Challenges -> {"none", "open", "expired", "consumed"}]
      /\ session \in [Challenges -> SessionRow] /\ opened \in [Challenges -> Nat] /\ tokens \in Nat
  BY DEF WalletInv
<1>2. /\ challenge' \in [Challenges -> {"none", "open", "expired", "consumed"}]
      /\ session' \in [Challenges -> SessionRow] /\ opened' \in [Challenges -> Nat]
  BY <1>1
<1>3. ASSUME NEW x \in Challenges
      PROVE  LoginHolds(challenge[x], session[x], opened[x], x \in loggedOut, tokens)'
  <2>1. CASE x = c
    <3>1. challenge'[x] = ch /\ session'[x] = s /\ opened'[x] = n
      BY <1>1, <2>1
    <3>2. QED
      BY <2>1, <3>1 DEF LoginHolds
  <2>2. CASE x # c
    <3>1. challenge'[x] = challenge[x] /\ session'[x] = session[x] /\ opened'[x] = opened[x]
      BY <1>1, <2>2
    <3>2. LoginHolds(challenge[x], session[x], opened[x], x \in loggedOut, tokens)
      BY DEF WalletInv
    <3>3. session[x].token \in Nat
      BY <1>1 DEF SessionRow
    <3>4. QED
      BY <1>1, <2>2, <3>1, <3>2, <3>3 DEF LoginHolds
  <2>3. QED
    BY <2>1, <2>2
<1>4. QED
  BY <1>2, <1>3

\* The tables are written while the requests under way stand still.
LEMMA VisitsKept ==
    ASSUME WalletInv, visit' = visit, \A c \in Challenges : session[c].token # 0 => session'[c].token # 0
    PROVE  visit' \in [Visitors -> VisitRow] /\ \A x \in Visitors : VisitHolds(visit[x])'
  BY DEF WalletInv, VisitHolds

\* What is written is what the invariant wants of the tables and the requests.
LEMMA WalletWritten ==
    ASSUME challenge' \in [Challenges -> {"none", "open", "expired", "consumed"}],
           session' \in [Challenges -> SessionRow], opened' \in [Challenges -> Nat],
           tokens' \in Nat, loggedOut' \subseteq Challenges,
           \A x \in Challenges : LoginHolds(challenge[x], session[x], opened[x], x \in loggedOut, tokens)',
           visit' \in [Visitors -> VisitRow] /\ \A x \in Visitors : VisitHolds(visit[x])'
    PROVE  WalletInv'
  BY DEF WalletInv

\* What the invariant says of one login.
LEMMA LoginFacts ==
    ASSUME WalletInv, NEW c \in Challenges
    PROVE  /\ challenge[c] \in {"none", "open", "expired", "consumed"} /\ session[c] \in SessionRow
           /\ session[c].token \in Nat /\ opened[c] \in Nat /\ tokens \in Nat
           /\ session[c].revoked \in BOOLEAN /\ session[c].expired \in BOOLEAN
           /\ LoginHolds(challenge[c], session[c], opened[c], c \in loggedOut, tokens)
           /\ challenge = [challenge EXCEPT ![c] = challenge[c]]
           /\ session = [session EXCEPT ![c] = session[c]]
           /\ opened = [opened EXCEPT ![c] = opened[c]]
  BY DEF WalletInv, SessionRow

\* A challenge opens or runs out: neither touches a session.
LEMMA ChallengeMoves ==
    ASSUME WalletInv, NEW c \in Challenges, NEW ch \in {"open", "expired"}, challenge[c] \in {"none", "open"},
           challenge' = [challenge EXCEPT ![c] = ch],
           UNCHANGED <<session, tokens, visit, visits, opened, loggedOut>>
    PROVE  WalletInv'
<1>1. /\ challenge[c] \in {"none", "open", "expired", "consumed"} /\ session[c] \in SessionRow
      /\ opened[c] \in Nat /\ tokens \in Nat /\ session[c].token \in Nat
      /\ LoginHolds(challenge[c], session[c], opened[c], c \in loggedOut, tokens)
      /\ session = [session EXCEPT ![c] = session[c]] /\ opened = [opened EXCEPT ![c] = opened[c]]
  BY LoginFacts
<1>2. LoginHolds(ch, session[c], opened[c], c \in loggedOut', tokens)
  BY <1>1 DEF LoginHolds
<1>3. /\ challenge' \in [Challenges -> {"none", "open", "expired", "consumed"}]
      /\ session' \in [Challenges -> SessionRow] /\ opened' \in [Challenges -> Nat]
      /\ \A x \in Challenges : LoginHolds(challenge[x], session[x], opened[x], x \in loggedOut, tokens)'
  <2>1. PICK s \in SessionRow, n \in Nat, max \in Nat : s = session[c] /\ n = opened[c] /\ max = tokens
    BY <1>1
  <2>2. /\ max >= tokens /\ session' = [session EXCEPT ![c] = s] /\ opened' = [opened EXCEPT ![c] = n]
        /\ tokens' = max /\ LoginHolds(ch, s, n, c \in loggedOut', max)
        /\ loggedOut' \subseteq Challenges /\ \A x \in Challenges \ {c} : x \in loggedOut' <=> x \in loggedOut
    BY <1>1, <1>2, <2>1 DEF WalletInv
  <2>3. /\ WalletInv /\ c \in Challenges /\ ch \in {"none", "open", "expired", "consumed"}
        /\ s \in SessionRow /\ n \in Nat /\ max \in Nat /\ challenge' = [challenge EXCEPT ![c] = ch]
    OBVIOUS
  <2>4. QED
    BY ONLY <2>2, <2>3, LoginWritten
<1>4. visit' \in [Visitors -> VisitRow] /\ \A x \in Visitors : VisitHolds(visit[x])'
  BY VisitsKept
<1>5. tokens' \in Nat /\ loggedOut' \subseteq Challenges
  BY DEF WalletInv
<1>6. QED
  BY <1>3, <1>4, <1>5, WalletWritten

\* Of several requests with one challenge, the update lets one make its session.
LEMMA ConsumeKeeps ==
    ASSUME WalletInv, NEW v \in Visitors, verifyChallenge_consume(v)
    PROVE  WalletInv'
<1> DEFINE c == visit[v].on
<1>1. c \in Challenges /\ visit[v].op = "verify" /\ NoVisit \in VisitRow
  BY DEF verifyChallenge_consume, WalletInv, VisitHolds, VisitRow, NoVisit
<1>2. /\ visit' = [visit EXCEPT ![v] = NoVisit] /\ loggedOut' = loggedOut
      /\ \/ /\ challenge[c] = "open" /\ tokens' = tokens + 1
            /\ challenge' = [challenge EXCEPT ![c] = "consumed"]
            /\ session' = [session EXCEPT ![c] = [NoSession EXCEPT !.token = tokens']]
            /\ opened' = [opened EXCEPT ![c] = opened[c] + 1]
         \/ UNCHANGED <<challenge, session, tokens, opened>>
  BY <1>1 DEF verifyChallenge_consume, Consumable, NewToken, Leave, WalletInv
<1> HIDE DEF c
<1>3. CASE UNCHANGED <<challenge, session, tokens, opened>>
  <2>1. visit' \in [Visitors -> VisitRow] /\ \A x \in Visitors : VisitHolds(visit[x])'
    BY <1>1, <1>2, <1>3, VisitsWritten
  <2>2. \A x \in Challenges : LoginHolds(challenge[x], session[x], opened[x], x \in loggedOut, tokens)'
    BY <1>2, <1>3 DEF WalletInv, LoginHolds
  <2>3. QED
    BY <1>2, <1>3, <2>1, <2>2 DEF WalletInv
<1>4. CASE /\ challenge[c] = "open" /\ tokens' = tokens + 1
           /\ challenge' = [challenge EXCEPT ![c] = "consumed"]
           /\ session' = [session EXCEPT ![c] = [NoSession EXCEPT !.token = tokens']]
           /\ opened' = [opened EXCEPT ![c] = opened[c] + 1]
  <2>1. /\ session[c].token \in Nat /\ opened[c] \in Nat /\ tokens \in Nat
        /\ LoginHolds(challenge[c], session[c], opened[c], c \in loggedOut, tokens)
    BY <1>1, LoginFacts
  <2>2. PICK s \in SessionRow : s.token = tokens + 1 /\ [NoSession EXCEPT !.token = tokens'] = s
    <3>1. PICK t \in Nat : t = tokens + 1
      BY <2>1
    <3>2. [NoSession EXCEPT !.token = t] \in SessionRow /\ [NoSession EXCEPT !.token = t].token = t
      BY DEF NoSession, SessionRow
    <3>3. QED
      BY <1>4, <3>1, <3>2
  <2>3. s.token = tokens + 1 /\ [NoSession EXCEPT !.token = tokens'] = s
    BY <2>2
  <2>4. opened[c] = 0 /\ c \notin loggedOut
    BY <1>4, <2>1 DEF LoginHolds
  <2>5. LoginHolds("consumed", s, 1, c \in loggedOut', tokens + 1)
    BY <1>2, <2>1, <2>3, <2>4 DEF LoginHolds
  <2>6. /\ session' = [session EXCEPT ![c] = s] /\ opened' = [opened EXCEPT ![c] = 1]
        /\ tokens + 1 \in Nat /\ tokens + 1 >= tokens
        /\ loggedOut' \subseteq Challenges /\ \A x \in Challenges \ {c} : x \in loggedOut' <=> x \in loggedOut
    <3>1. session' = [session EXCEPT ![c] = s]
      BY <1>4, <2>3
    <3>2. opened' = [opened EXCEPT ![c] = 1]
      BY <1>4, <2>4
    <3>3. loggedOut' \subseteq Challenges /\ \A x \in Challenges \ {c} : x \in loggedOut' <=> x \in loggedOut
      BY <1>2 DEF WalletInv
    <3>4. QED
      BY <2>1, <3>1, <3>2, <3>3
  <2>7. /\ challenge' \in [Challenges -> {"none", "open", "expired", "consumed"}]
        /\ session' \in [Challenges -> SessionRow] /\ opened' \in [Challenges -> Nat]
        /\ \A x \in Challenges : LoginHolds(challenge[x], session[x], opened[x], x \in loggedOut, tokens)'
    <3>1. PICK max \in Nat : max = tokens + 1
      BY <2>6
    <3>2. QED
      BY <1>1, <1>4, <2>5, <2>6, <3>1, LoginWritten
  <2>8. \A x \in Challenges : session[x].token # 0 => session'[x].token # 0
    <3>1. \A x \in Challenges : session'[x] = IF x = c THEN s ELSE session[x]
      BY <1>1, <2>6 DEF WalletInv
    <3>2. QED
      BY <2>1, <2>3, <3>1
  <2>9. visit' \in [Visitors -> VisitRow] /\ \A x \in Visitors : VisitHolds(visit[x])'
    BY <1>1, <1>2, <2>8, VisitsWritten
  <2>10. QED
    BY <1>4, <2>6, <2>7, <2>9, WalletWritten
<1>5. QED
  BY <1>2, <1>3, <1>4

\* A session that exists is rewritten; its challenge stays consumed.
LEMMA SessionRewritten ==
    ASSUME WalletInv, NEW c \in Challenges, NEW s \in SessionRow, NEW max \in Nat, max >= tokens,
           session[c].token # 0, s.token # 0, s.token <= max, c \in loggedOut' => s.revoked,
           session' = [session EXCEPT ![c] = s], challenge' = challenge, opened' = opened, tokens' = max,
           loggedOut' \subseteq Challenges, \A x \in Challenges \ {c} : x \in loggedOut' <=> x \in loggedOut
    PROVE  /\ challenge' \in [Challenges -> {"none", "open", "expired", "consumed"}]
           /\ session' \in [Challenges -> SessionRow] /\ opened' \in [Challenges -> Nat]
           /\ \A x \in Challenges : LoginHolds(challenge[x], session[x], opened[x], x \in loggedOut, tokens)'
           /\ \A x \in Challenges : session[x].token # 0 => session'[x].token # 0
<1>1. /\ challenge[c] \in {"none", "open", "expired", "consumed"} /\ opened[c] \in Nat
      /\ LoginHolds(challenge[c], session[c], opened[c], c \in loggedOut, tokens)
      /\ challenge = [challenge EXCEPT ![c] = challenge[c]] /\ opened = [opened EXCEPT ![c] = opened[c]]
  BY LoginFacts
<1>2. PICK ch \in {"none", "open", "expired", "consumed"}, n \in Nat : ch = challenge[c] /\ n = opened[c]
  BY <1>1
<1>3. challenge' = [challenge EXCEPT ![c] = ch] /\ opened' = [opened EXCEPT ![c] = n]
  BY <1>1, <1>2
<1>4. LoginHolds(ch, s, n, c \in loggedOut', max)
  BY <1>1, <1>2 DEF LoginHolds
<1>5. /\ challenge' \in [Challenges -> {"none", "open", "expired", "consumed"}]
      /\ session' \in [Challenges -> SessionRow] /\ opened' \in [Challenges -> Nat]
      /\ \A x \in Challenges : LoginHolds(challenge[x], session[x], opened[x], x \in loggedOut, tokens)'
  <2>1. /\ WalletInv /\ c \in Challenges /\ s \in SessionRow /\ max \in Nat /\ max >= tokens /\ tokens' = max
        /\ session' = [session EXCEPT ![c] = s] /\ loggedOut' \subseteq Challenges
        /\ ch \in {"none", "open", "expired", "consumed"} /\ n \in Nat
        /\ \A x \in Challenges \ {c} : x \in loggedOut' <=> x \in loggedOut
    OBVIOUS
  <2>2. QED
    BY ONLY <1>3, <1>4, <2>1, LoginWritten
<1>6. \A x \in Challenges : session'[x] = IF x = c THEN s ELSE session[x]
  BY DEF WalletInv
<1>7. QED
  BY <1>5, <1>6

\* A refresh issues a new token pair and never clears the mark of a logout.
LEMMA RefreshKeeps ==
    ASSUME WalletInv, NEW v \in Visitors, refreshSession_write(v)
    PROVE  WalletInv'
<1>1. PICK c \in Challenges : c = visit[v].on /\ session[c].token # 0
  BY DEF refreshSession_write, WalletInv, VisitHolds
<1>2. /\ session[c] \in SessionRow /\ session[c].token \in Nat /\ tokens \in Nat
      /\ LoginHolds(challenge[c], session[c], opened[c], c \in loggedOut, tokens)
  BY LoginFacts
<1>3. /\ visit' = [visit EXCEPT ![v] = NoVisit] /\ challenge' = challenge /\ opened' = opened
      /\ loggedOut' = loggedOut /\ tokens' = tokens + 1
      /\ session' = [session EXCEPT ![c] = Rotated(session[c], tokens')]
  BY <1>1 DEF refreshSession_write, NewToken, Leave, WalletInv
<1>4. PICK t \in Nat : t = tokens + 1
  BY <1>2
<1>5. PICK s \in SessionRow : s = Rotated(session[c], t) /\ s.token = t /\ (session[c].revoked => s.revoked)
  <2>1. PICK r \in SessionRow : r = session[c]
    BY <1>2
  <2>2. Rotated(r, t) \in SessionRow /\ Rotated(r, t).token = t /\ Rotated(r, t).revoked = r.revoked
    BY DEF Rotated, SessionRow
  <2>3. QED
    BY <2>1, <2>2
<1>6. c \in loggedOut => s.revoked
  BY <1>2, <1>5 DEF LoginHolds
<1>7. session' = [session EXCEPT ![c] = s] /\ s.token # 0 /\ s.token <= t /\ t >= tokens /\ tokens' = t
  BY <1>2, <1>3, <1>4, <1>5
<1>8. /\ challenge' \in [Challenges -> {"none", "open", "expired", "consumed"}]
      /\ session' \in [Challenges -> SessionRow] /\ opened' \in [Challenges -> Nat]
      /\ \A x \in Challenges : LoginHolds(challenge[x], session[x], opened[x], x \in loggedOut, tokens)'
      /\ \A x \in Challenges : session[x].token # 0 => session'[x].token # 0
  <2>1. /\ WalletInv /\ c \in Challenges /\ s \in SessionRow /\ t \in Nat /\ loggedOut' \subseteq Challenges
        /\ \A x \in Challenges \ {c} : x \in loggedOut' <=> x \in loggedOut
        /\ c \in loggedOut' => s.revoked
    BY <1>3, <1>6 DEF WalletInv
  <2>2. QED
    BY ONLY <1>1, <1>3, <1>7, <2>1, SessionRewritten
<1>9. visit' \in [Visitors -> VisitRow] /\ \A x \in Visitors : VisitHolds(visit[x])'
  <2>1. NoVisit \in VisitRow
    BY DEF NoVisit, VisitRow
  <2>2. QED
    BY <1>3, <1>8, <2>1, VisitsWritten
<1>10. tokens' \in Nat /\ loggedOut' \subseteq Challenges
  BY <1>3, <1>7 DEF WalletInv
<1>11. QED
  BY ONLY <1>8, <1>9, <1>10, WalletWritten

\* A logout marks the session that it read, whatever came between.
LEMMA RevokeKeeps ==
    ASSUME WalletInv, NEW v \in Visitors, revokeSession_write(v)
    PROVE  WalletInv'
<1>1. PICK c \in Challenges : c = visit[v].on /\ session[c].token # 0
  BY DEF revokeSession_write, WalletInv, VisitHolds
<1>2. /\ session[c] \in SessionRow /\ session[c].token \in Nat /\ tokens \in Nat
      /\ LoginHolds(challenge[c], session[c], opened[c], c \in loggedOut, tokens)
  BY LoginFacts
<1>3. /\ visit' = [visit EXCEPT ![v] = NoVisit] /\ challenge' = challenge /\ opened' = opened
      /\ loggedOut' = loggedOut \cup {c} /\ tokens' = tokens
      /\ session' = [session EXCEPT ![c] = [session[c] EXCEPT !.revoked = TRUE]]
  BY <1>1 DEF revokeSession_write, Leave, WalletInv
<1>4. PICK s \in SessionRow : /\ s = [session[c] EXCEPT !.revoked = TRUE]
                             /\ s.token = session[c].token /\ s.revoked
  <2>1. PICK r \in SessionRow : r = session[c]
    BY <1>2
  <2>2. /\ [r EXCEPT !.revoked = TRUE] \in SessionRow /\ [r EXCEPT !.revoked = TRUE].token = r.token
        /\ [r EXCEPT !.revoked = TRUE].revoked = TRUE
    BY DEF SessionRow
  <2>3. QED
    BY <2>1, <2>2
<1>5. /\ session' = [session EXCEPT ![c] = s] /\ s.token # 0 /\ s.token <= tokens /\ tokens >= tokens
      /\ loggedOut' \subseteq Challenges /\ \A x \in Challenges \ {c} : x \in loggedOut' <=> x \in loggedOut
      /\ c \in loggedOut' => s.revoked
  <2>1. s.token <= tokens
    BY <1>2, <1>4 DEF LoginHolds
  <2>2. loggedOut' \subseteq Challenges /\ \A x \in Challenges \ {c} : x \in loggedOut' <=> x \in loggedOut
    BY <1>3 DEF WalletInv
  <2>3. QED
    BY <1>1, <1>2, <1>3, <1>4, <2>1, <2>2
<1>6. /\ challenge' \in [Challenges -> {"none", "open", "expired", "consumed"}]
      /\ session' \in [Challenges -> SessionRow] /\ opened' \in [Challenges -> Nat]
      /\ \A x \in Challenges : LoginHolds(challenge[x], session[x], opened[x], x \in loggedOut, tokens)'
      /\ \A x \in Challenges : session[x].token # 0 => session'[x].token # 0
  <2>1. PICK max \in Nat : max = tokens
    BY <1>2
  <2>2. WalletInv /\ c \in Challenges /\ s \in SessionRow /\ max \in Nat
        /\ max >= tokens /\ s.token <= max /\ tokens' = max
    BY <1>3, <1>5, <2>1
  <2>3. QED
    BY ONLY <1>1, <1>3, <1>5, <2>2, SessionRewritten
<1>7. visit' \in [Visitors -> VisitRow] /\ \A x \in Visitors : VisitHolds(visit[x])'
  <2>1. NoVisit \in VisitRow
    BY DEF NoVisit, VisitRow
  <2>2. QED
    BY <1>3, <1>6, <2>1, VisitsWritten
<1>8. tokens' \in Nat /\ loggedOut' \subseteq Challenges
  BY <1>2, <1>3, <1>5
<1>9. QED
  BY ONLY <1>6, <1>7, <1>8, WalletWritten

\* A session runs out, which leaves it as revoked as it was.
LEMMA SessionRunsOut ==
    ASSUME WalletInv, NEW c \in Challenges, Live(session[c]), session' = [session EXCEPT ![c].expired = TRUE],
           UNCHANGED <<challenge, tokens, visit, visits, opened, loggedOut>>
    PROVE  WalletInv'
<1>1. /\ session[c] \in SessionRow /\ session[c].token \in Nat /\ tokens \in Nat /\ session[c].token # 0
      /\ LoginHolds(challenge[c], session[c], opened[c], c \in loggedOut, tokens)
  BY LoginFacts DEF Live
<1>2. PICK s \in SessionRow : /\ s = [session[c] EXCEPT !.expired = TRUE]
                             /\ s.token = session[c].token /\ s.revoked = session[c].revoked
  <2>1. PICK r \in SessionRow : r = session[c]
    BY <1>1
  <2>2. /\ [r EXCEPT !.expired = TRUE] \in SessionRow /\ [r EXCEPT !.expired = TRUE].token = r.token
        /\ [r EXCEPT !.expired = TRUE].revoked = r.revoked
    BY DEF SessionRow
  <2>3. QED
    BY <2>1, <2>2
<1>3. session' = [session EXCEPT ![c] = s]
  BY <1>2 DEF WalletInv
<1>4. s.token <= tokens /\ s.token # 0 /\ (c \in loggedOut => s.revoked)
  BY <1>1, <1>2 DEF LoginHolds
<1>5. /\ challenge' \in [Challenges -> {"none", "open", "expired", "consumed"}]
      /\ session' \in [Challenges -> SessionRow] /\ opened' \in [Challenges -> Nat]
      /\ \A x \in Challenges : LoginHolds(challenge[x], session[x], opened[x], x \in loggedOut, tokens)'
      /\ \A x \in Challenges : session[x].token # 0 => session'[x].token # 0
  <2>1. PICK max \in Nat : max = tokens
    BY <1>1
  <2>2. /\ WalletInv /\ c \in Challenges /\ s \in SessionRow /\ max \in Nat /\ max >= tokens
        /\ s.token <= max /\ tokens' = max /\ loggedOut' \subseteq Challenges
        /\ challenge' = challenge /\ opened' = opened
    BY <1>1, <1>4, <2>1 DEF WalletInv
  <2>3. /\ \A x \in Challenges \ {c} : x \in loggedOut' <=> x \in loggedOut
        /\ c \in loggedOut' => s.revoked
    BY <1>4
  <2>4. QED
    BY ONLY <1>1, <1>3, <1>4, <2>2, <2>3, SessionRewritten
<1>6. visit' \in [Visitors -> VisitRow] /\ \A x \in Visitors : VisitHolds(visit[x])'
  BY <1>5, VisitsKept
<1>7. tokens' \in Nat /\ loggedOut' \subseteq Challenges
  BY DEF WalletInv
<1>8. QED
  BY ONLY <1>5, <1>6, <1>7, WalletWritten

\* One statement closes every session of the wallet.
LEMMA RevokeAllKeeps ==
    ASSUME WalletInv, revokeAllSessions
    PROVE  WalletInv'
<1>1. /\ session' = [c \in Challenges |-> [session[c] EXCEPT !.revoked = session[c].token # 0]]
      /\ loggedOut' = {c \in Challenges : session[c].token # 0}
      /\ challenge' = challenge /\ tokens' = tokens /\ visit' = visit /\ opened' = opened
  BY DEF revokeAllSessions
<1>2. ASSUME NEW c \in Challenges
      PROVE  /\ session'[c] \in SessionRow /\ session'[c].token = session[c].token
             /\ session'[c].revoked = (session[c].token # 0)
  <2>1. PICK r \in SessionRow : r = session[c]
    BY LoginFacts
  <2>2. PICK b \in BOOLEAN : b = (session[c].token # 0)
    OBVIOUS
  <2>3. [r EXCEPT !.revoked = b] \in SessionRow
    BY DEF SessionRow
  <2>4. [r EXCEPT !.revoked = b].token = r.token /\ [r EXCEPT !.revoked = b].revoked = b
    BY DEF SessionRow
  <2>5. session'[c] = [r EXCEPT !.revoked = b]
    BY <1>1, <2>1, <2>2
  <2>6. QED
    BY <2>1, <2>2, <2>3, <2>4, <2>5
<1>3. session' \in [Challenges -> SessionRow]
  BY <1>1, <1>2
<1>4. \A x \in Challenges : LoginHolds(challenge[x], session[x], opened[x], x \in loggedOut, tokens)'
  <2>1. SUFFICES ASSUME NEW x \in Challenges
                 PROVE  LoginHolds(challenge[x], session[x], opened[x], x \in loggedOut, tokens)'
    OBVIOUS
  <2>2. LoginHolds(challenge[x], session[x], opened[x], x \in loggedOut, tokens)
    BY LoginFacts
  <2>3. x \in loggedOut' => session'[x].revoked /\ session[x].token # 0
    BY <1>1, <1>2
  <2>4. QED
    BY <1>1, <1>2, <2>2, <2>3 DEF LoginHolds
<1>5. visit' \in [Visitors -> VisitRow] /\ \A x \in Visitors : VisitHolds(visit[x])'
  BY <1>1, <1>2, VisitsKept
<1>6. /\ tokens' \in Nat /\ loggedOut' \subseteq Challenges /\ opened' \in [Challenges -> Nat]
      /\ challenge' \in [Challenges -> {"none", "open", "expired", "consumed"}]
  BY <1>1 DEF WalletInv
<1>7. QED
  BY ONLY <1>3, <1>4, <1>5, <1>6, WalletWritten

\* An admin row is created once, and its revocation is final.
LEMMA AdminKeeps ==
    ASSUME AdminInv, AdminNext
    PROVE  AdminInv'
<1>1. CASE AdminExpires
  BY <1>1 DEF AdminExpires, AdminInv
<1>2. ASSUME NEW p \in Servers, createSession(p) PROVE AdminInv'
  BY <1>2 DEF createSession, AdminInv
<1>3. ASSUME NEW p \in Servers, revokeSession(p) PROVE AdminInv'
  BY <1>3 DEF revokeSession, Uncached, AdminInv
<1>4. QED
  BY <1>1, <1>2, <1>3 DEF AdminNext

\* Every step keeps the invariant.
LEMMA SessionStep ==
    ASSUME SessionInv, [SessionNext]_sessionVars
    PROVE  SessionInv'
<1>1. WalletInv /\ AdminInv
  BY DEF SessionInv
<1>2. CASE UNCHANGED walletVars
  <2>1. WalletInv'
    BY <1>1, <1>2 DEF WalletInv, walletVars, LoginHolds, VisitHolds
  <2>2. AdminInv'
    <3>1. CASE AdminNext
      BY <1>1, <3>1, AdminKeeps
    <3>2. CASE UNCHANGED <<admin, adminCache, adminRevokers>>
      BY <1>1, <3>2 DEF AdminInv
    <3>3. QED
      BY <3>1, <3>2 DEF SessionNext, sessionVars
  <2>3. QED
    BY <2>1, <2>2 DEF SessionInv
<1>3. ASSUME UNCHANGED <<admin, adminCache, adminRevokers>>, WalletInv' PROVE SessionInv'
  BY <1>1, <1>3 DEF SessionInv, AdminInv
<1>4. CASE revokeAllSessions /\ UNCHANGED <<admin, adminCache, adminRevokers>>
  BY <1>1, <1>3, <1>4, RevokeAllKeeps
<1>5. CASE SessionTime /\ UNCHANGED <<admin, adminCache, adminRevokers>>
  <2>1. CASE \E c \in Challenges : challenge[c] = "open" /\ challenge' = [challenge EXCEPT ![c] = "expired"]
             /\ UNCHANGED <<session, tokens, visit, visits, opened, loggedOut>>
    <3>1. PICK c \in Challenges : challenge[c] = "open" /\ challenge' = [challenge EXCEPT ![c] = "expired"]
      BY <2>1
    <3>2. UNCHANGED <<session, tokens, visit, visits, opened, loggedOut>>
      BY <2>1
    <3>3. WalletInv'
      BY <1>1, <3>1, <3>2, ChallengeMoves
    <3>4. QED
      BY <1>3, <1>5, <3>3
  <2>2. CASE \E c \in Challenges : Live(session[c]) /\ session' = [session EXCEPT ![c].expired = TRUE]
             /\ UNCHANGED <<challenge, tokens, visit, visits, opened, loggedOut>>
    <3>1. PICK c \in Challenges : Live(session[c]) /\ session' = [session EXCEPT ![c].expired = TRUE]
      BY <2>2
    <3>2. UNCHANGED <<challenge, tokens, visit, visits, opened, loggedOut>>
      BY <2>2
    <3>3. WalletInv'
      BY <1>1, <3>1, <3>2, SessionRunsOut
    <3>4. QED
      BY <1>3, <1>5, <3>3
  <2>3. QED
    BY <1>5, <2>1, <2>2 DEF SessionTime
<1>6. ASSUME NEW v \in Visitors, UNCHANGED <<admin, adminCache, adminRevokers>>,
             verifyChallenge_consume(v) \/ refreshSession_write(v) \/ revokeSession_write(v)
      PROVE  SessionInv'
  BY <1>1, <1>3, <1>6, ConsumeKeeps, RefreshKeeps, RevokeKeeps
<1>7. ASSUME NEW v \in Visitors, NEW c \in Challenges, UNCHANGED <<admin, adminCache, adminRevokers>>,
             \/ createChallenge(c) \/ verifyChallenge_read(v, c)
             \/ refreshSession_read(v, c) \/ revokeSession_read(v, c)
      PROVE  SessionInv'
  <2>1. CASE createChallenge(c)
    <3>1. WalletInv'
      BY <1>1, <2>1, ChallengeMoves DEF createChallenge
    <3>2. QED
      BY <1>3, <1>7, <3>1
  <2>2. CASE verifyChallenge_read(v, c)
    <3>1. WalletInv'
      BY <1>1, <2>2, RequestReads DEF verifyChallenge_read
    <3>2. QED
      BY <1>3, <1>7, <3>1
  <2>3. CASE refreshSession_read(v, c)
    <3>1. WalletInv'
      BY <1>1, <2>3, RequestReads DEF refreshSession_read, Live
    <3>2. QED
      BY <1>3, <1>7, <3>1
  <2>4. CASE revokeSession_read(v, c)
    <3>1. WalletInv'
      BY <1>1, <2>4, RequestReads DEF revokeSession_read
    <3>2. QED
      BY <1>3, <1>7, <3>1
  <2>5. QED
    BY <1>7, <2>1, <2>2, <2>3, <2>4
<1>8. QED
  BY <1>2, <1>4, <1>5, <1>6, <1>7 DEF SessionNext, sessionVars, walletVars

\* A signed challenge opens one session however its requests interleave, a
\* session that was logged out stays so although a refresh that read it before
\* writes after it, and the server that revoked an admin session refuses it.
THEOREM SessionsStaySound == SessionSpec => []SessionsSound
<1>1. SessionInv /\ [SessionNext]_sessionVars => SessionInv'
  BY SessionStep
<1>2. SessionInv => SessionsSound
  BY SessionInvMeans
<1>3. QED
  BY <1>1, <1>2, SessionStart, PTL DEF SessionSpec

-----------------------------------------------------------------------------
(* Draw proofs.                                                              *)

\* A call past its first read is of a confirmed draw, and past its third holds
\* the one event it will use.
CallRow == [pc : {"idle", "fetch", "evidence", "find", "create"}, round : DrawRounds \cup {0}, ledger : Nat,
            parts : {{}, {"a"}}, snapshot : {"none", "frozen"}, payoutAt : Nat, evidence : SUBSET reveals]
GenerationRests(m) ==
  /\ m.pc # "idle" => /\ m.round \in DrawRounds /\ drawStatus[m.round] = "confirmed"
                       /\ m.ledger \in DrawLedgers(m.round)
  /\ m.pc \in {"find", "create"} => \E e \in reveals : m.evidence = {e} /\ Usable(e, m.round, m.ledger)

ProofRowHolds(entry) ==
  /\ entry = [proof |-> entry.proof, verified |-> entry.verified]
  /\ entry.proof.body.drawnAt \in DrawLedgers(entry.proof.body.round)
  /\ entry.proof.body.version = "1.1.0" =>
       /\ entry.proof.body.round \in DrawRounds /\ drawStatus[entry.proof.body.round] = "confirmed"
       /\ \E e \in reveals : /\ e.round = entry.proof.body.round /\ e.commitAt = entry.proof.body.commitAt
                             /\ e.commitAt <= entry.proof.body.drawnAt

TablesInv ==
  /\ drawStatus \in [DrawRounds -> {"submitted", "confirmed", "failed"}]
  /\ gen \in [Generators -> CallRow] /\ \A g \in Generators : GenerationRests(gen[g])
  /\ \A entry \in proofs : ProofRowHolds(entry)
  /\ \A a, b \in proofs : /\ a.proof.body.round = b.proof.body.round
                           /\ a.proof.body.drawnAt = b.proof.body.drawnAt
                           => a = b

\* The card shows one proof, its status is of that proof, and the one check
\* that may still set it is of that proof too.
CardInv ==
  /\ card = [row |-> card.row, status |-> card.status, flag |-> card.flag]
  /\ \A p, q \in card.row : p = q
  /\ \A p \in card.row :
       card.status \in {"verified", "failed"} => (card.status = "verified") = Passed(verifyProofIntegrity(p))
  /\ \A c \in checks : /\ c = [proof |-> c.proof, live |-> c.live]
                       /\ c.live \in BOOLEAN /\ (c.live => card.row = {c.proof})

\* The inductive invariant of the draw proofs.
ProofsInv == TablesInv /\ CardInv

\* The card says verified of what the history page calls verified.
LEMMA PassedReconciles ==
    ASSUME NEW p, Passed(verifyProofIntegrity(p))
    PROVE  reconcileRewardEntry(p, p.body.round) = "verified"
  BY DEF reconcileRewardEntry, Passed

\* What the browser calls verified met no failing check, and the chain itself
\* confirmed the seed: with an RPC client that does not answer nothing is.
LEMMA ClientVerdict ==
    ASSUME NEW p, NEW rpc, verifyDrawProofClient(p, rpc)
    PROVE  p.body.payoutAt = PayoutLedger /\ p.body.commitment = sha256Hex(p.body.seed)
<1>1. /\ \A f \in ClientFields(p, rpc) : f.status # "fail"
      /\ Field("randomness_reveal", "pass") \in ClientFields(p, rpc)
  BY DEF verifyDrawProofClient
<1>2. \A n, s : Field(n, s).name = n /\ Field(n, s).status = s
  BY DEF Field
<1>3. \A n, b : Check(n, b).name = n /\ Check(n, b).status = (IF b THEN "pass" ELSE "fail")
  BY <1>2 DEF Check
<1>4. rpc = "up"
  <2>1. SUFFICES ASSUME rpc # "up" PROVE FALSE
    OBVIOUS
  <2>2. /\ verifySnapshotLedger(p, rpc) = Field("snapshot_ledger", "unverified")
        /\ verifyPayoutTransaction(p, rpc) = Field("payout_tx", "unverified")
        /\ verifyRandomnessReveal(p, rpc) = Field("randomness_reveal", "unverified")
    BY <2>1 DEF verifySnapshotLedger, verifyPayoutTransaction, verifyRandomnessReveal, Asked
  <2>3. verifyRoundSnapshot(p, rpc).name = "round_snapshot"
    BY <1>2, <1>3 DEF verifyRoundSnapshot, Asked
  <2>4. document_integrity(p).name = "document_integrity"
    BY <1>2, <1>3 DEF document_integrity
  <2>5. \A f \in verifyProofIntegrity(p) : f.name # "randomness_reveal"
    BY <1>3, <2>4 DEF verifyProofIntegrity, randomness_commitment
  <2>6. \A f \in ClientFields(p, rpc) : f.name # "randomness_reveal" \/ f.status # "pass"
    BY <1>2, <2>2, <2>3, <2>5 DEF ClientFields
  <2>7. QED
    BY <1>1, <1>2, <2>6
<1>5. verifyPayoutTransaction(p, rpc) = Check("payout_tx", p.body.payoutAt = PayoutLedger)
  BY <1>4 DEF verifyPayoutTransaction, Asked
<1>6. /\ verifyPayoutTransaction(p, rpc) \in ClientFields(p, rpc)
      /\ randomness_commitment(p.body) \in ClientFields(p, rpc)
  BY DEF ClientFields, verifyProofIntegrity
<1>7. verifyPayoutTransaction(p, rpc).status # "fail" /\ randomness_commitment(p.body).status # "fail"
  BY <1>1, <1>6
<1>8. p.body.payoutAt = PayoutLedger
  <2>1. verifyPayoutTransaction(p, rpc).status = IF p.body.payoutAt = PayoutLedger THEN "pass" ELSE "fail"
    BY <1>5 DEF Check, Field
  <2>2. QED
    BY <1>7, <2>1
<1>9. sha256Hex(p.body.seed) = p.body.commitment
  <2>1. randomness_commitment(p.body).status
          = IF sha256Hex(p.body.seed) = p.body.commitment /\ p.body.commitAt <= p.body.drawnAt THEN "pass" ELSE "fail"
    BY DEF randomness_commitment, Check, Field
  <2>2. QED
    BY <1>7, <2>1
<1>10. QED
  BY <1>8, <1>9

\* The invariant implies the property.
LEMMA ProofsInvMeans ==
    ASSUME ProofsInv
    PROVE  ProofsSound
<1>1. ProofsAreGrounded
  <2>1. \A entry \in proofs : ProofRowHolds(entry)
    BY DEF ProofsInv, TablesInv
  <2>2. \A entry \in proofs : entry.proof.body.round \in named => entry.proof.body.drawnAt = DrawLedger
    BY <2>1 DEF ProofRowHolds, DrawLedgers
  <2>3. \A a, b \in proofs :
          /\ a.proof.body.round = b.proof.body.round
          /\ a.proof.body.drawnAt = b.proof.body.drawnAt \/ a.proof.body.round \in named
          => a = b
    BY <2>2 DEF ProofsInv, TablesInv
  <2>4. QED
    BY <2>1, <2>2, <2>3 DEF ProofsAreGrounded, ProofRowHolds
<1>2. VerifiedIsSound
  <2>1. ASSUME NEW entry \in proofs, NEW rpc \in {"up", "down"}, DrawProofDetail(entry, rpc) = "verified"
        PROVE  entry.proof.body.payoutAt = PayoutLedger /\ entry.proof.body.commitment = sha256Hex(entry.proof.body.seed)
    <3>1. verifyDrawProofClient(entry.proof, rpc)
      BY <2>1 DEF DrawProofDetail
    <3>2. QED
      BY <3>1, ClientVerdict
  <2>2. QED
    BY <2>1 DEF VerifiedIsSound
<1>3. BadgeMatchesProof
  <2>1. ASSUME NEW p \in card.row
        PROVE  /\ card.status \in {"verified", "failed"} =>
                    (card.status = "verified") = Passed(verifyProofIntegrity(p))
               /\ badgeStatus = "verified" => reconcileRewardEntry(p, p.body.round) = "verified"
    <3>1. card.status \in {"verified", "failed"} => (card.status = "verified") = Passed(verifyProofIntegrity(p))
      BY DEF ProofsInv, CardInv
    <3>2. badgeStatus = "verified" => Passed(verifyProofIntegrity(p))
      BY <3>1 DEF badgeStatus
    <3>3. QED
      BY <3>1, <3>2, PassedReconciles
  <2>2. QED
    BY <2>1 DEF BadgeMatchesProof
<1>4. QED
  BY <1>1, <1>2, <1>3 DEF ProofsSound

\* No draw is confirmed at first, and the rows there are of the earlier version.
LEMMA ProofsStart == ProofsInit => ProofsInv
<1> SUFFICES ASSUME ProofsInit PROVE ProofsInv
  OBVIOUS
<1>1. NoCall \in CallRow /\ NoCall.pc = "idle"
  BY DEF NoCall, CallRow
<1>2. \A r, l : LegacyProof(r, l).body.version = "1.0.0" /\ LegacyProof(r, l).body.drawnAt = l
                /\ LegacyProof(r, l).body.round = r
  BY DEF LegacyProof, UnsignedProof
<1>3. /\ drawStatus = [r \in DrawRounds |-> "submitted"] /\ gen = [g \in Generators |-> NoCall]
      /\ card = NoCard /\ checks = {}
      /\ proofs \in {{}} \cup UNION {{{[proof |-> LegacyProof(r, l), verified |-> FALSE]} : l \in DrawLedgers(r)} : r \in DrawRounds}
  BY DEF ProofsInit
<1>4. \A entry \in proofs : \E r \in DrawRounds : \E l \in DrawLedgers(r) :
        entry = [proof |-> LegacyProof(r, l), verified |-> FALSE]
  BY <1>3
<1>5. \A entry \in proofs : ProofRowHolds(entry)
  BY <1>2, <1>4 DEF ProofRowHolds
<1>6. \A a, b \in proofs : a = b
  <2>1. proofs = {} \/ \E r \in DrawRounds : \E l \in DrawLedgers(r) :
                        proofs = {[proof |-> LegacyProof(r, l), verified |-> FALSE]}
    BY <1>3
  <2>2. QED
    BY <2>1
<1>7. \A g \in Generators : GenerationRests(gen[g])
  BY <1>1, <1>3 DEF GenerationRests
<1>8. TablesInv
  BY <1>1, <1>3, <1>5, <1>6, <1>7 DEF TablesInv
<1>9. CardInv
  BY <1>3 DEF CardInv, NoCard
<1>10. QED
  BY <1>8, <1>9 DEF ProofsInv

\* One call moves on; the tables stay.
LEMMA GenerationMoves ==
    ASSUME TablesInv, NEW g \in Generators, NEW m \in CallRow, gen' = [gen EXCEPT ![g] = m],
           GenerationRests(m), UNCHANGED <<reveals, named, drawStatus, proofs>>
    PROVE  TablesInv'
<1>1. gen' \in [Generators -> CallRow'] /\ \A x \in Generators : gen'[x] = IF x = g THEN m ELSE gen[x]
  BY DEF TablesInv, CallRow
<1>2. \A x \in Generators : GenerationRests(gen[x])'
  BY <1>1 DEF TablesInv, GenerationRests, Usable, DrawLedgers
<1>3. \A entry \in proofs' : ProofRowHolds(entry)'
  BY DEF TablesInv, ProofRowHolds, DrawLedgers
<1>4. QED
  BY <1>1, <1>2, <1>3 DEF TablesInv

\* A draw's ledger, or the instant in its place, is a number.
LEMMA DrawLedgersNat == \A r : DrawLedgers(r) \subseteq Nat
  BY DEF DrawLedgers, DrawLedger, Clock

\* What the invariant says of one call.
LEMMA GenerationFacts ==
    ASSUME TablesInv, NEW g \in Generators
    PROVE  gen[g] \in CallRow /\ GenerationRests(gen[g])
  BY DEF TablesInv

\* A call starts for a confirmed draw.
LEMMA GenerateKeeps ==
    ASSUME TablesInv, NEW g \in Generators, NEW r \in DrawRounds, retroactiveGenerateAll(g, r)
    PROVE  TablesInv'
<1>1. PICK l \in DrawLedgers(r) :
        gen' = [gen EXCEPT ![g] = [NoCall EXCEPT !.pc = "fetch", !.round = r, !.ledger = l]]
  BY DEF retroactiveGenerateAll, CallGenerate, Reads
<1> DEFINE m == [NoCall EXCEPT !.pc = "fetch", !.round = r, !.ledger = l]
<1>2. m \in CallRow /\ m.pc = "fetch" /\ m.round = r /\ m.ledger = l
  BY <1>1, DrawLedgersNat DEF NoCall, CallRow
<1>3. GenerationRests(m)
  BY <1>2 DEF retroactiveGenerateAll, CallGenerate, ConfirmedDraw, GenerationRests
<1>4. gen' = [gen EXCEPT ![g] = m] /\ UNCHANGED <<reveals, named, drawStatus, proofs>>
  BY <1>1 DEF retroactiveGenerateAll, CallGenerate
<1>5. QED
  BY <1>2, <1>3, <1>4, GenerationMoves

\* A draw is settled one way or the other: only a submitted one, so that no
\* proof and no call under way loses its ground.
LEMMA SettleKeeps ==
    ASSUME TablesInv, NEW r \in DrawRounds, NEW s \in {"confirmed", "failed"}, drawStatus[r] = "submitted",
           drawStatus' = [drawStatus EXCEPT ![r] = s], UNCHANGED <<reveals, named, proofs>>
    PROVE  /\ drawStatus' \in [DrawRounds -> {"submitted", "confirmed", "failed"}]
           /\ \A entry \in proofs' : ProofRowHolds(entry)'
           /\ \A m \in CallRow : GenerationRests(m) => GenerationRests(m)'
<1>1. /\ drawStatus' \in [DrawRounds -> {"submitted", "confirmed", "failed"}]
      /\ \A x \in DrawRounds : drawStatus[x] = "confirmed" => drawStatus'[x] = "confirmed"
  BY DEF TablesInv
<1>2. \A entry \in proofs' : ProofRowHolds(entry)'
  BY <1>1 DEF TablesInv, ProofRowHolds, DrawLedgers
<1>3. \A m \in CallRow : GenerationRests(m) => GenerationRests(m)'
  BY <1>1 DEF GenerationRests, Usable, DrawLedgers
<1>4. QED
  BY <1>1, <1>2, <1>3

\* The event confirms the draw and starts a call, or the draw fails.
LEMMA ConfirmKeeps ==
    ASSUME TablesInv, NEW g \in Generators, NEW r \in DrawRounds, onActionConfirmed(g, r)
    PROVE  TablesInv'
<1>1. drawStatus[r] = "submitted" /\ UNCHANGED <<reveals, named, proofs>> /\ CallRow' = CallRow
  BY DEF onActionConfirmed, CallRow
<1>2. CASE drawStatus' = [drawStatus EXCEPT ![r] = "failed"] /\ UNCHANGED gen
  <2>1. /\ drawStatus' \in [DrawRounds -> {"submitted", "confirmed", "failed"}]
        /\ \A entry \in proofs' : ProofRowHolds(entry)'
        /\ \A m \in CallRow : GenerationRests(m) => GenerationRests(m)'
    BY <1>1, <1>2, SettleKeeps
  <2>2. \A x \in Generators : GenerationRests(gen[x])'
    <3>1. ASSUME NEW x \in Generators PROVE GenerationRests(gen[x])'
      <4>1. PICK m \in CallRow : m = gen[x] /\ GenerationRests(m)
        BY GenerationFacts
      <4>2. GenerationRests(m)' /\ gen'[x] = m
        BY <1>2, <2>1, <4>1
      <4>3. QED
        BY <4>2 DEF GenerationRests
    <3>2. QED
      BY <3>1
  <2>3. QED
    BY <1>1, <1>2, <2>1, <2>2 DEF TablesInv
<1>3. CASE drawStatus' = [drawStatus EXCEPT ![r] = "confirmed"] /\ Reads(g, r)
  <2>1. /\ drawStatus' \in [DrawRounds -> {"submitted", "confirmed", "failed"}]
        /\ \A entry \in proofs' : ProofRowHolds(entry)'
        /\ \A m \in CallRow : GenerationRests(m) => GenerationRests(m)'
    BY <1>1, <1>3, SettleKeeps
  <2>2. PICK l \in DrawLedgers(r) :
          gen' = [gen EXCEPT ![g] = [NoCall EXCEPT !.pc = "fetch", !.round = r, !.ledger = l]]
    BY <1>3 DEF Reads
  <2> DEFINE n == [NoCall EXCEPT !.pc = "fetch", !.round = r, !.ledger = l]
  <2>3. n \in CallRow /\ n.pc = "fetch" /\ n.round = r /\ n.ledger = l
    BY <2>2, DrawLedgersNat DEF NoCall, CallRow
  <2>4. drawStatus'[r] = "confirmed"
    BY <1>3 DEF TablesInv
  <2>5. gen' \in [Generators -> CallRow] /\ \A x \in Generators : gen'[x] = IF x = g THEN n ELSE gen[x]
    BY <1>3, <2>2, <2>3 DEF TablesInv
  <2>6. ASSUME NEW x \in Generators PROVE GenerationRests(gen[x])'
    <3>1. CASE x = g
      BY <1>1, <2>3, <2>4, <2>5, <3>1 DEF GenerationRests, DrawLedgers
    <3>2. CASE x # g
      <4>1. PICK m \in CallRow : m = gen[x] /\ GenerationRests(m)
        BY GenerationFacts
      <4>2. GenerationRests(m)' /\ gen'[x] = m
        BY <2>1, <2>5, <3>2, <4>1
      <4>3. QED
        BY <4>2 DEF GenerationRests
    <3>3. QED
      BY <3>1, <3>2
  <2>7. QED
    BY <1>1, <2>1, <2>5, <2>6 DEF TablesInv
<1>4. QED
  BY <1>2, <1>3 DEF onActionConfirmed

\* What could be read of the chain is noted, or its default.
LEMMA FetchKeeps ==
    ASSUME TablesInv, NEW g \in Generators, fetchParticipants(g)
    PROVE  TablesInv'
<1>1. PICK read \in ReadOutcomes(gen[g].ledger) :
        gen' = [gen EXCEPT ![g] = [gen[g] EXCEPT !.pc = "evidence", !.parts = read.parts,
                                                 !.snapshot = read.snapshot, !.payoutAt = read.payoutAt]]
  BY DEF fetchParticipants, TablesInv
<1>2. /\ read.parts \in {{}, {"a"}} /\ read.snapshot \in {"none", "frozen"} /\ read.payoutAt \in Nat
      /\ gen[g].pc = "fetch" /\ UNCHANGED <<reveals, named, drawStatus, proofs>>
  BY <1>1, GenerationFacts DEF ReadOutcomes, PayoutLedger, fetchParticipants, CallRow
<1>3. PICK o \in CallRow : o = gen[g] /\ GenerationRests(o)
  BY GenerationFacts
<1>4. PICK m \in CallRow : gen' = [gen EXCEPT ![g] = m] /\ m.pc = "evidence" /\ m.round = o.round /\ m.ledger = o.ledger
  <2>1. PICK m : m = [o EXCEPT !.pc = "evidence", !.parts = read.parts,
                               !.snapshot = read.snapshot, !.payoutAt = read.payoutAt]
    OBVIOUS
  <2>2. m \in CallRow /\ m.pc = "evidence" /\ m.round = o.round /\ m.ledger = o.ledger
    BY <1>2, <2>1 DEF CallRow
  <2>3. gen' = [gen EXCEPT ![g] = m]
    BY <1>1, <1>3, <2>1
  <2>4. QED
    BY <2>2, <2>3
<1>5. GenerationRests(m)
  BY <1>2, <1>3, <1>4 DEF GenerationRests
<1>6. QED
  BY <1>2, <1>4, <1>5, GenerationMoves

\* A call goes on with one usable event, or not at all.
LEMMA EvidenceKeeps ==
    ASSUME TablesInv, NEW g \in Generators, fetchRandomnessEvidence(g)
    PROVE  TablesInv'
<1>1. gen[g].pc = "evidence" /\ UNCHANGED <<reveals, named, drawStatus, proofs>>
  BY DEF fetchRandomnessEvidence
<1>2. PICK o \in CallRow : o = gen[g] /\ GenerationRests(o)
  BY GenerationFacts
<1>3. CASE gen' = [gen EXCEPT ![g] = NoCall]
  <2>1. NoCall \in CallRow /\ GenerationRests(NoCall)
    BY DEF NoCall, CallRow, GenerationRests
  <2>2. QED
    BY <1>1, <1>3, <2>1, GenerationMoves
<1>4. ASSUME NEW e \in reveals, Usable(e, gen[g].round, gen[g].ledger),
             gen' = [gen EXCEPT ![g] = [gen[g] EXCEPT !.pc = "find", !.evidence = {e}]]
      PROVE  TablesInv'
  <2>1. PICK m : m = [o EXCEPT !.pc = "find", !.evidence = {e}]
    OBVIOUS
  <2>2. m \in CallRow /\ m.pc = "find" /\ m.round = o.round /\ m.ledger = o.ledger /\ m.evidence = {e}
    BY <2>1 DEF CallRow
  <2>3. GenerationRests(m)
    BY <1>1, <1>2, <1>4, <2>2 DEF GenerationRests
  <2>4. gen' = [gen EXCEPT ![g] = m]
    BY <1>2, <1>4, <2>1
  <2>5. QED
    BY <1>1, <2>2, <2>3, <2>4, GenerationMoves
<1>5. QED
  <2>1. \/ gen' = [gen EXCEPT ![g] = NoCall]
        \/ \E e \in reveals : /\ Usable(e, gen[g].round, gen[g].ledger)
                              /\ gen' = [gen EXCEPT ![g] = [gen[g] EXCEPT !.pc = "find", !.evidence = {e}]]
    BY DEF fetchRandomnessEvidence, TablesInv
  <2>2. QED
    BY <1>3, <1>4, <2>1

\* The look for an existing proof decides nothing that lasts.
LEMMA FindKeeps ==
    ASSUME TablesInv, NEW g \in Generators, findExisting(g)
    PROVE  TablesInv'
<1>1. gen[g].pc = "find" /\ UNCHANGED <<reveals, named, drawStatus, proofs>>
  BY DEF findExisting
<1>2. PICK o \in CallRow : o = gen[g] /\ GenerationRests(o)
  BY GenerationFacts
<1>3. CASE gen' = [gen EXCEPT ![g] = NoCall]
  <2>1. NoCall \in CallRow /\ GenerationRests(NoCall)
    BY DEF NoCall, CallRow, GenerationRests
  <2>2. QED
    BY <1>1, <1>3, <2>1, GenerationMoves
<1>4. CASE gen' = [gen EXCEPT ![g] = [gen[g] EXCEPT !.pc = "create"]]
  <2>1. PICK m : m = [o EXCEPT !.pc = "create"]
    OBVIOUS
  <2>2. m \in CallRow /\ m.pc = "create" /\ m.round = o.round /\ m.ledger = o.ledger /\ m.evidence = o.evidence
    BY <2>1 DEF CallRow
  <2>3. GenerationRests(m)
    BY <1>1, <1>2, <2>2 DEF GenerationRests
  <2>4. gen' = [gen EXCEPT ![g] = m]
    BY <1>2, <1>4, <2>1
  <2>5. QED
    BY <1>1, <2>2, <2>3, <2>4, GenerationMoves
<1>5. QED
  BY <1>3, <1>4 DEF findExisting, TablesInv

\* A proof is written from the event the call holds, unless its draw id is taken.
LEMMA ProofCreateKeeps ==
    ASSUME TablesInv, NEW g \in Generators, createProof(g)
    PROVE  TablesInv'
<1>1. gen[g].pc = "create" /\ gen' = [gen EXCEPT ![g] = NoCall] /\ UNCHANGED <<reveals, named, drawStatus>>
  BY DEF createProof
<1>2. PICK o \in CallRow : o = gen[g] /\ GenerationRests(o)
  BY GenerationFacts
<1>3. PICK e \in reveals : o.evidence = {e} /\ Usable(e, o.round, o.ledger)
  BY <1>1, <1>2 DEF GenerationRests
<1>4. NoCall \in CallRow /\ GenerationRests(NoCall)
  BY DEF NoCall, CallRow, GenerationRests
<1>5. CASE proofs' = proofs
  BY <1>1, <1>4, <1>5, GenerationMoves
<1>6. CASE proofs' # proofs
  <2>1. (CHOOSE x \in o.evidence : TRUE) = e
    BY <1>3
  <2>2. PICK d : d = assembleDrawProof(o.round, o.ledger, o.parts, o.snapshot, o.payoutAt, e)
    OBVIOUS
  <2>3. PICK entry : entry = [proof |-> d, verified |-> FALSE]
    OBVIOUS
  <2>4. proofs' = proofs \cup {entry} /\ drawIdFree(o.round, o.ledger)
    BY <1>2, <1>6, <2>1, <2>2, <2>3 DEF createProof
  <2>5. d.body.round = o.round /\ d.body.drawnAt = o.ledger /\ d.body.commitAt = e.commitAt
    BY <2>2 DEF assembleDrawProof, UnsignedProof
  <2>6. entry.proof = d /\ entry = [proof |-> entry.proof, verified |-> entry.verified]
    BY <2>3
  <2>7. o.round \in DrawRounds /\ drawStatus[o.round] = "confirmed" /\ o.ledger \in DrawLedgers(o.round)
    BY <1>1, <1>2 DEF GenerationRests
  <2>8. ProofRowHolds(entry)'
    <3>1. e.round = o.round /\ e.commitAt <= o.ledger
      BY <1>3 DEF Usable
    <3>2. QED
      BY <1>1, <2>5, <2>6, <2>7, <3>1 DEF ProofRowHolds, DrawLedgers
  <2>9. \A x \in proofs' : ProofRowHolds(x)'
    <3>1. \A x \in proofs : ProofRowHolds(x)'
      BY <1>1 DEF TablesInv, ProofRowHolds, DrawLedgers
    <3>2. QED
      BY <2>4, <2>8, <3>1
  <2>10. \A a, b \in proofs' : /\ a.proof.body.round = b.proof.body.round
                                /\ a.proof.body.drawnAt = b.proof.body.drawnAt
                                => a = b
    <3>1. /\ entry.proof.body.round = o.round /\ entry.proof.body.drawnAt = o.ledger
          /\ \A x \in proofs : x.proof.body.round = o.round => x.proof.body.drawnAt # o.ledger
      BY <2>4, <2>5, <2>6 DEF drawIdFree, ProofsOf
    <3>2. QED
      BY <2>4, <3>1 DEF TablesInv
  <2>11. gen' \in [Generators -> CallRow'] /\ \A x \in Generators : gen'[x] = IF x = g THEN NoCall ELSE gen[x]
    BY <1>1, <1>4 DEF TablesInv, CallRow
  <2>12. \A x \in Generators : GenerationRests(gen[x])'
    BY <1>1, <1>4, <2>11 DEF TablesInv, GenerationRests, Usable, DrawLedgers
  <2>13. QED
    BY <1>1, <2>9, <2>10, <2>11, <2>12 DEF TablesInv
<1>7. QED
  BY <1>5, <1>6

\* The verify endpoint sets a flag and leaves the document alone.
LEMMA VerifyKeeps ==
    ASSUME TablesInv, NEW entry \in proofs, verifyProof(entry)
    PROVE  TablesInv'
<1>1. PICK flag : flag = Passed(verifyProofIntegrity(entry.proof))
  OBVIOUS
<1>2. PICK d, v : entry = [proof |-> d, verified |-> v]
  BY DEF TablesInv, ProofRowHolds, DrawLedgers
<1>3. PICK new : new = [entry EXCEPT !.verified = flag]
  OBVIOUS
<1>4. new = [proof |-> d, verified |-> flag]
  BY <1>2, <1>3
<1>5. new.proof = entry.proof /\ new = [proof |-> new.proof, verified |-> new.verified]
  BY <1>2, <1>4
<1>6. proofs' = (proofs \ {entry}) \cup {new} /\ UNCHANGED <<reveals, named, drawStatus, gen>>
  BY <1>1, <1>3 DEF verifyProof
<1>7. \A x \in proofs' : ProofRowHolds(x)'
  <2>1. \A x \in proofs : ProofRowHolds(x)'
    BY <1>6 DEF TablesInv, ProofRowHolds, DrawLedgers
  <2>2. ProofRowHolds(new)'
    BY <1>5, <1>6, <2>1 DEF ProofRowHolds, DrawLedgers
  <2>3. QED
    BY <1>6, <2>1, <2>2
<1>8. \A a, b \in proofs' : /\ a.proof.body.round = b.proof.body.round
                             /\ a.proof.body.drawnAt = b.proof.body.drawnAt
                             => a = b
  BY <1>5, <1>6 DEF TablesInv
<1>9. gen' \in [Generators -> CallRow'] /\ \A x \in Generators : GenerationRests(gen[x])'
  BY <1>6 DEF TablesInv, CallRow, GenerationRests, Usable, DrawLedgers
<1>10. QED
  BY <1>6, <1>7, <1>8, <1>9 DEF TablesInv

\* Another proof on the card: its own check is the only one that still counts.
LEMMA CardShows ==
    ASSUME CardInv, NEW entry \in proofs, DrawProofCard(entry)
    PROVE  CardInv'
<1>1. PICK d : d = entry.proof
  OBVIOUS
<1>2. card'.row = {d} /\ card'.status = "verifying"
      /\ card' = [row |-> card'.row, status |-> card'.status, flag |-> card'.flag]
  BY <1>1 DEF DrawProofCard
<1>3. checks' = {[c EXCEPT !.live = FALSE] : c \in checks} \cup {[proof |-> d, live |-> TRUE]}
  BY <1>1 DEF DrawProofCard
<1>4. \A c \in checks : [c EXCEPT !.live = FALSE] = [proof |-> c.proof, live |-> FALSE]
  <2>1. ASSUME NEW c \in checks PROVE [c EXCEPT !.live = FALSE] = [proof |-> c.proof, live |-> FALSE]
    <3>1. PICK p, b : p = c.proof /\ b = c.live
      OBVIOUS
    <3>2. c = [proof |-> p, live |-> b]
      BY <3>1 DEF CardInv
    <3>3. PICK no : no = FALSE
      OBVIOUS
    <3>4. [c EXCEPT !.live = no] = [proof |-> p, live |-> no]
      BY <3>2
    <3>5. QED
      BY <3>1, <3>3, <3>4
  <2>2. QED
    BY <2>1
<1>5. \A x \in checks' : \E p : x = [proof |-> p, live |-> FALSE] \/ x = [proof |-> d, live |-> TRUE]
  BY <1>3, <1>4
<1>6. \A x \in checks' : /\ x = [proof |-> x.proof, live |-> x.live]
                         /\ x.live \in BOOLEAN /\ (x.live => card'.row = {x.proof})
  <2>1. SUFFICES ASSUME NEW x \in checks'
                 PROVE  /\ x = [proof |-> x.proof, live |-> x.live]
                        /\ x.live \in BOOLEAN /\ (x.live => card'.row = {x.proof})
    OBVIOUS
  <2>2. PICK p : x = [proof |-> p, live |-> FALSE] \/ x = [proof |-> d, live |-> TRUE]
    BY <1>5
  <2>3. CASE x = [proof |-> p, live |-> FALSE]
    <3>1. x.proof = p /\ x.live = FALSE
      BY <2>3
    <3>2. QED
      BY <2>3, <3>1
  <2>4. CASE x = [proof |-> d, live |-> TRUE]
    <3>1. x.proof = d /\ x.live = TRUE
      BY <2>4
    <3>2. QED
      BY <1>2, <2>4, <3>1
  <2>5. QED
    BY <2>2, <2>3, <2>4
<1>7. \A p, q \in card'.row : p = q
  BY <1>2
<1>8. card'.status \notin {"verified", "failed"}
  BY <1>2
<1>9. QED
  BY <1>2, <1>6, <1>7, <1>8 DEF CardInv

\* The end of a check sets the status only when its proof is the one shown.
LEMMA CheckEnds ==
    ASSUME CardInv, NEW c \in checks, CardCheckEnds(c)
    PROVE  CardInv'
<1>1. PICK status \in {IF Passed(verifyProofIntegrity(c.proof)) THEN "verified" ELSE "failed", "unverified"} :
        card' = IF StillLive(c) THEN [card EXCEPT !.status = status] ELSE card
  BY DEF CardCheckEnds
<1>2. checks' \subseteq checks
  BY DEF CardCheckEnds
<1>3. CASE ~ c.live
  BY <1>1, <1>2, <1>3 DEF StillLive, CardInv
<1>4. CASE c.live
  <2>1. PICK r, s, f : r = card.row /\ s = card.status /\ f = card.flag
    OBVIOUS
  <2>2. card = [row |-> r, status |-> s, flag |-> f]
    BY <2>1 DEF CardInv
  <2>3. card' = [row |-> r, status |-> status, flag |-> f]
    BY <1>1, <1>4, <2>2 DEF StillLive
  <2>4. card'.row = card.row /\ card'.status = status
        /\ card' = [row |-> card'.row, status |-> card'.status, flag |-> card'.flag]
    BY <2>1, <2>3
  <2>5. card.row = {c.proof}
    BY <1>4 DEF CardInv
  <2>6. \A p \in card'.row :
          card'.status \in {"verified", "failed"} => (card'.status = "verified") = Passed(verifyProofIntegrity(p))
    BY <1>1, <2>4, <2>5 DEF Passed
  <2>7. QED
    BY <1>2, <2>4, <2>6 DEF CardInv
<1>5. QED
  BY <1>3, <1>4 DEF CardInv

\* Every step keeps the invariant.
LEMMA ProofsStep ==
    ASSUME ProofsInv, [ProofsNext]_proofVars
    PROVE  ProofsInv'
<1>1. TablesInv /\ CardInv
  BY DEF ProofsInv
<1>2. ASSUME UNCHANGED <<card, checks>> PROVE CardInv'
  BY <1>1, <1>2 DEF CardInv
<1>3. ASSUME UNCHANGED <<reveals, named, drawStatus, proofs, gen>> PROVE TablesInv'
  <2>1. \A x \in Generators : GenerationRests(gen[x])'
    BY <1>1, <1>3 DEF TablesInv, GenerationRests, Usable, DrawLedgers
  <2>2. \A entry \in proofs' : ProofRowHolds(entry)'
    BY <1>1, <1>3 DEF TablesInv, ProofRowHolds, DrawLedgers
  <2>3. QED
    BY <1>1, <1>3, <2>1, <2>2 DEF TablesInv, CallRow
<1>4. ASSUME NEW g \in Generators, NEW r \in DrawRounds, onActionConfirmed(g, r) \/ retroactiveGenerateAll(g, r)
      PROVE  ProofsInv'
  <2>1. UNCHANGED <<card, checks>>
    BY <1>4 DEF onActionConfirmed, retroactiveGenerateAll, CallGenerate
  <2>2. TablesInv'
    BY <1>1, <1>4, ConfirmKeeps, GenerateKeeps
  <2>3. QED
    BY <1>2, <2>1, <2>2 DEF ProofsInv
<1>5. ASSUME NEW g \in Generators,
             fetchParticipants(g) \/ fetchRandomnessEvidence(g) \/ findExisting(g) \/ createProof(g)
      PROVE  ProofsInv'
  <2>1. UNCHANGED <<card, checks>>
    BY <1>5 DEF fetchParticipants, fetchRandomnessEvidence, findExisting, createProof
  <2>2. TablesInv'
    BY <1>1, <1>5, FetchKeeps, EvidenceKeeps, FindKeeps, ProofCreateKeeps
  <2>3. QED
    BY <1>2, <2>1, <2>2 DEF ProofsInv
<1>6. ASSUME NEW entry \in proofs, verifyProof(entry) PROVE ProofsInv'
  <2>1. UNCHANGED <<card, checks>>
    BY <1>6 DEF verifyProof
  <2>2. QED
    BY <1>1, <1>2, <1>6, <2>1, VerifyKeeps DEF ProofsInv
<1>7. ASSUME NEW entry \in proofs, DrawProofCard(entry) PROVE ProofsInv'
  <2>1. UNCHANGED <<reveals, named, drawStatus, proofs, gen>>
    BY <1>7 DEF DrawProofCard
  <2>2. QED
    BY <1>1, <1>3, <1>7, <2>1, CardShows DEF ProofsInv
<1>8. ASSUME NEW c \in checks, CardCheckEnds(c) PROVE ProofsInv'
  <2>1. UNCHANGED <<reveals, named, drawStatus, proofs, gen>>
    BY <1>8 DEF CardCheckEnds
  <2>2. QED
    BY <1>1, <1>3, <1>8, <2>1, CheckEnds DEF ProofsInv
<1>9. CASE UNCHANGED proofVars
  BY <1>2, <1>3, <1>9 DEF ProofsInv, proofVars
<1>10. QED
  BY <1>4, <1>5, <1>6, <1>7, <1>8, <1>9 DEF ProofsNext

\* Whatever the RPC answered and however calls race, a proof is of a confirmed
\* draw and rests on a seed revealed for it; where the payload names the draw's
\* ledger the seed was committed by then and the proof is its only one; nothing is called verified that a failed read had to guess, and the card
\* speaks of the proof that it shows.
THEOREM DrawProofsStaySound == ProofsSpec => []ProofsSound
<1>1. ProofsInv /\ [ProofsNext]_proofVars => ProofsInv'
  BY ProofsStep
<1>2. ProofsInv => ProofsSound
  BY ProofsInvMeans
<1>3. QED
  BY <1>1, <1>2, ProofsStart, PTL DEF ProofsSpec

-----------------------------------------------------------------------------
(* The rows of a wallet and the pool's registry entry.                       *)

ViewRow == [kind : ViewKinds, status : {"submitted", "confirmed", "failed"}, verified : BOOLEAN]

\* The rows there are, and where the last scrub stands among them.
RowsHold == viewRows \in Seq(ViewRow) /\ Len(viewRows) <= MaxRows /\ scrubbed \in 0 .. Len(viewRows)

LEMMA RowsStart == ViewInit => RowsHold
BY ViewAssumption DEF ViewInit, RowsHold

\* A row keeps its kind when it is decided, and the others stay as they are.
LEMMA DecidedRow ==
    ASSUME RowsHold, NEW i \in Rows, DecideRow(i)
    PROVE  /\ viewRows[i].status = "submitted" /\ scrubbed' = scrubbed
           /\ viewRows'[i].status \in {"confirmed", "failed"}
           /\ viewRows' \in Seq(ViewRow) /\ Len(viewRows') = Len(viewRows) /\ Rows' = Rows
           /\ \A j \in Rows : viewRows'[j].kind = viewRows[j].kind /\ (j # i => viewRows'[j] = viewRows[j])
           /\ walk' = walk /\ registry' = registry
<1>1. viewRows \in Seq(ViewRow) /\ i \in 1 .. Len(viewRows) /\ Rows = 1 .. Len(viewRows)
  BY DEF RowsHold, Rows
<1>2. PICK d \in {"confirmed", "failed"} :
        viewRows' = [viewRows EXCEPT ![i].status = d, ![i].verified = d = "confirmed"]
  BY DEF DecideRow
<1>3. PICK b \in BOOLEAN : b = (d = "confirmed")
  OBVIOUS
<1>4. PICK r \in ViewRow : r = viewRows[i]
  BY <1>1
<1>5. PICK q \in ViewRow : q = [r EXCEPT !.status = d, !.verified = b] /\ q.kind = r.kind /\ q.status = d
  <2>1. [r EXCEPT !.status = d, !.verified = b] \in ViewRow
    BY DEF ViewRow
  <2>2. [r EXCEPT !.status = d, !.verified = b].kind = r.kind /\ [r EXCEPT !.status = d, !.verified = b].status = d
    BY DEF ViewRow
  <2>3. QED
    BY <2>1, <2>2
<1>6. viewRows' = [viewRows EXCEPT ![i] = q]
  BY <1>1, <1>2, <1>3, <1>4, <1>5
<1>7. viewRows' \in Seq(ViewRow) /\ Len(viewRows') = Len(viewRows) /\ Rows' = Rows
  BY <1>1, <1>6 DEF Rows
<1>8. \A j \in Rows : viewRows'[j].kind = viewRows[j].kind /\ (j # i => viewRows'[j] = viewRows[j])
  BY <1>1, <1>4, <1>5, <1>6
<1>9. viewRows'[i].status = d
  BY <1>1, <1>5, <1>6
<1>10. QED
  BY <1>7, <1>8, <1>9 DEF DecideRow

LEMMA RowsStay ==
    ASSUME RowsHold, [ViewNext]_viewVars
    PROVE  RowsHold'
<1>1. CASE CreateRow
  <2>1. PICK r \in ViewRow : viewRows' = Append(viewRows, r)
    BY <1>1 DEF CreateRow, ViewRow
  <2>2. QED
    BY <1>1, <2>1, ViewAssumption DEF RowsHold, CreateRow
<1>2. ASSUME NEW i \in Rows, DecideRow(i) PROVE RowsHold'
  BY <1>2, DecidedRow DEF RowsHold
<1>3. CASE scrubWallet
  BY <1>3 DEF RowsHold, scrubWallet
<1>4. CASE UNCHANGED <<viewRows, scrubbed>>
  BY <1>4 DEF RowsHold
<1>5. QED
  BY <1>1, <1>2, <1>3, <1>4
     DEF ViewNext, viewVars, BeginWalk, listActions, EndWalk, PoolCreatedEvent, deactivatePoolRegistryEntry

LEMMA RowsAreTyped == ViewSpec => []RowsHold
BY RowsStart, RowsStay, PTL DEF ViewSpec

\* What counts after a row is decided, and which row it is least in.
LEMMA DecisionAdds ==
    ASSUME RowsHold, NEW i \in Rows, DecideRow(i)
    PROVE  /\ Portfolio \in SUBSET Nat /\ Portfolio' \in SUBSET Nat /\ i \in Nat
           /\ i \notin Portfolio /\ Portfolio \subseteq Portfolio' /\ Portfolio' \subseteq Portfolio \cup {i}
           /\ canonicalToken' = canonicalToken => Counted \subseteq Counted'
<1>1. PICK N \in Nat : N = Len(viewRows) /\ Rows = 1 .. N /\ Rows' = Rows
  BY DecidedRow DEF RowsHold, Rows
<1>2. /\ \A j \in Rows : viewRows'[j].kind = viewRows[j].kind /\ (j # i => viewRows'[j] = viewRows[j])
      /\ viewRows[i].status = "submitted" /\ scrubbed' = scrubbed
  BY DecidedRow
<1>3. i \notin Portfolio /\ Portfolio \subseteq Portfolio' /\ Portfolio' \subseteq Portfolio \cup {i}
  BY <1>1, <1>2 DEF Portfolio, HasPayload
<1>4. Portfolio \in SUBSET Nat /\ Portfolio' \in SUBSET Nat /\ i \in Nat
  BY <1>1 DEF Portfolio
<1>5. ASSUME canonicalToken' = canonicalToken, NEW c \in Counted PROVE c \in Counted'
  <2>1. c \in Portfolio /\ c # i /\ c \in Rows
    BY <1>3, <1>5 DEF Counted, Portfolio
  <2>2. viewRows'[c] = viewRows[c] /\ c \in Portfolio'
    BY <1>2, <1>3, <2>1
  <2>3. QED
    BY <1>5, <2>2 DEF Counted, isPayoutAction
<1>6. QED
  BY <1>3, <1>4, <1>5

\* The baseline is the least of the rows that count.
LEMMA BaselineIsLeast ==
    ASSUME Portfolio \in SUBSET Nat, NEW m \in Portfolio, \A j \in Portfolio : m <= j
    PROVE  Baseline = m /\ canonicalToken = viewRows[m].kind.token
<1>1. PICK T \in SUBSET Nat : T = Portfolio
  OBVIOUS
<1>2. m = CHOOSE k \in T : \A j \in T : k <= j
  BY <1>1, LeastIsChosen
<1>3. QED
  BY <1>1, <1>2 DEF Baseline, canonicalToken

LEMMA NextBaselineIsLeast ==
    ASSUME Portfolio' \in SUBSET Nat, NEW m \in Portfolio', \A j \in Portfolio' : m <= j
    PROVE  Baseline' = m /\ canonicalToken' = viewRows'[m].kind.token
<1>1. PICK T \in SUBSET Nat : T = Portfolio'
  OBVIOUS
<1>2. m = CHOOSE k \in T : \A j \in T : k <= j
  BY <1>1, LeastIsChosen
<1>3. Baseline' = m
  BY <1>1, <1>2 DEF Baseline
<1>4. QED
  BY <1>3 DEF canonicalToken

\* A row that is decided turns the asset only when it is older than all that
\* count.
LEMMA OlderTurns ==
    ASSUME RowsHold, NEW i \in Rows, DecideRow(i)
    PROVE  /\ Portfolio # {} /\ Portfolio' # {} => Baseline' <= Baseline
           /\ ~ (Counted \subseteq Counted') =>
                /\ \A j \in Portfolio : i < j
                /\ canonicalToken' = viewRows[i].kind.token /\ canonicalToken' # canonicalToken
                /\ \A j \in Counted' : viewRows[j].kind.token = viewRows[i].kind.token
<1>1. /\ Portfolio \in SUBSET Nat /\ Portfolio' \in SUBSET Nat /\ i \in Nat
      /\ i \notin Portfolio /\ Portfolio \subseteq Portfolio' /\ Portfolio' \subseteq Portfolio \cup {i}
      /\ canonicalToken' = canonicalToken => Counted \subseteq Counted'
  BY DecisionAdds
<1>2. \A j \in Rows : viewRows'[j].kind = viewRows[j].kind
  BY DecidedRow
<1>3. CASE Portfolio = {}
  BY <1>3 DEF Counted
<1>4. CASE Portfolio # {}
  <2>1. PICK m \in Portfolio : \A j \in Portfolio : m <= j
    BY <1>1, <1>4, SmallestMember
  <2>2. Baseline = m /\ canonicalToken = viewRows[m].kind.token /\ m \in Rows /\ m \in Nat
    BY <1>1, <2>1, BaselineIsLeast DEF Portfolio
  <2>3. CASE m <= i \/ i \notin Portfolio'
    <3>1. m \in Portfolio' /\ \A j \in Portfolio' : m <= j
      BY <1>1, <2>1, <2>3
    <3>2. Baseline' = m /\ canonicalToken' = viewRows'[m].kind.token
      BY <1>1, <3>1, NextBaselineIsLeast
    <3>3. canonicalToken' = canonicalToken
      BY <1>2, <2>2, <3>2
    <3>4. QED
      BY <1>1, <2>2, <3>2, <3>3
  <2>4. CASE ~ (m <= i) /\ i \in Portfolio'
    <3>1. i < m /\ \A j \in Portfolio : i < j
      BY <1>1, <2>1, <2>2, <2>4
    <3>2. \A j \in Portfolio' : i <= j
      BY <1>1, <3>1
    <3>3. Baseline' = i /\ canonicalToken' = viewRows'[i].kind.token
      BY <1>1, <2>4, <3>2, NextBaselineIsLeast
    <3>4. canonicalToken' = viewRows[i].kind.token
      BY <1>2, <3>3
    <3>5. \A j \in Counted' : viewRows[j].kind.token = viewRows[i].kind.token
      <4> SUFFICES ASSUME NEW j \in Counted' PROVE viewRows[j].kind.token = viewRows[i].kind.token
        OBVIOUS
      <4>1. viewRows'[j].kind.token = canonicalToken' /\ j \in Portfolio'
        BY DEF Counted
      <4>2. j \in Rows
        BY <1>1, <4>1 DEF Portfolio
      <4>3. QED
        BY <1>2, <3>4, <4>1, <4>2
    <3>6. QED
      BY <1>1, <2>2, <3>1, <3>3, <3>4, <3>5
  <2>5. QED
    BY <2>3, <2>4
<1>5. QED
  BY <1>3, <1>4

\* Nothing but a decision moves the baseline, unless it erases all that counts.
LEMMA BaselineRests ==
    ASSUME RowsHold, [ViewNext]_viewVars, \A i \in Rows : ~DecideRow(i), Portfolio # {}, Portfolio' # {}
    PROVE  Baseline' <= Baseline
<1>1. PICK N \in Nat : N = Len(viewRows) /\ Rows = 1 .. N
  BY DEF RowsHold, Rows
<1>2. Portfolio \in SUBSET Nat
  BY <1>1 DEF Portfolio
<1>3. PICK m \in Portfolio : \A j \in Portfolio : m <= j
  BY <1>2, SmallestMember
<1>4. Baseline = m /\ m \in Nat
  BY <1>2, <1>3, BaselineIsLeast
<1>5. ASSUME Portfolio' = Portfolio PROVE Baseline' <= Baseline
  <2>1. Baseline' = m
    BY <1>2, <1>3, <1>5, NextBaselineIsLeast
  <2>2. QED
    BY <1>4, <2>1
<1>6. CASE CreateRow
  <2>1. PICK r : viewRows' = Append(viewRows, r) /\ r.status = "submitted"
    BY <1>6 DEF CreateRow
  <2>2. viewRows \in Seq(ViewRow)
    BY DEF RowsHold
  <2>3. /\ Rows' = 1 .. N + 1 /\ \A j \in 1 .. N : viewRows'[j] = viewRows[j]
        /\ viewRows'[N + 1] = r /\ scrubbed' = scrubbed
    BY <1>1, <1>6, <2>1, <2>2 DEF Rows, CreateRow
  <2>4. Portfolio' = Portfolio
    BY <1>1, <2>1, <2>3 DEF Portfolio, HasPayload
  <2>5. QED
    BY <1>5, <2>4
<1>7. CASE scrubWallet
  <2>1. Rows' = 1 .. N /\ scrubbed' = N
    BY <1>1, <1>7 DEF scrubWallet, Rows
  <2>2. Portfolio' = {}
    BY <2>1 DEF Portfolio, HasPayload
  <2>3. QED
    BY <2>2
<1>8. CASE UNCHANGED <<viewRows, scrubbed>>
  BY <1>5, <1>8 DEF Portfolio, HasPayload, Rows
<1>9. QED
  BY <1>6, <1>7, <1>8
     DEF ViewNext, viewVars, BeginWalk, listActions, EndWalk, PoolCreatedEvent, deactivatePoolRegistryEntry

\* What a wallet's portfolio and the registry say is turned around by one thing
\* only: the confirmation of an action created before all that count, which
\* names another asset (getPortfolioSummary, ledger.ts:847); a newer one never
\* does, whatever it claims, and a creation event that is delivered again never
\* reactivates a pool.
THEOREM PortfolioStandsFirm == ViewSpec => StandsFirm
<1>1. ASSUME RowsHold, [ViewNext]_viewVars PROVE OnlyAnOlderActionInverts
  <2>1. CASE \E i \in Rows : DecideRow(i)
    <3>1. Portfolio # {} /\ Portfolio' # {} => Baseline' <= Baseline
      BY <1>1, <2>1, OlderTurns
    <3>2. \A i \in Rows : DecideRow(i) /\ ~ (Counted \subseteq Counted') =>
            /\ \A j \in Portfolio : i < j
            /\ canonicalToken' = viewRows[i].kind.token /\ canonicalToken' # canonicalToken
            /\ \A j \in Counted' : viewRows[j].kind.token = viewRows[i].kind.token
      BY <1>1, OlderTurns
    <3>3. QED
      BY <3>1, <3>2 DEF OnlyAnOlderActionInverts
  <2>2. CASE \A i \in Rows : ~DecideRow(i)
    <3>1. Portfolio # {} /\ Portfolio' # {} => Baseline' <= Baseline
      BY <1>1, <2>2, BaselineRests
    <3>2. QED
      BY <2>2, <3>1 DEF OnlyAnOlderActionInverts
  <2>3. QED
    BY <2>1, <2>2
<1>2. ASSUME [ViewNext]_viewVars PROVE DeactivatedStays
  BY <1>2
     DEF DeactivatedStays, ViewNext, viewVars, CreateRow, DecideRow, scrubWallet, BeginWalk, listActions, EndWalk,
         PoolCreatedEvent, upsertPoolRegistryEntry, deactivatePoolRegistryEntry
<1>3. RowsHold /\ [ViewNext]_viewVars => [OnlyAnOlderActionInverts /\ DeactivatedStays]_mcVars
  BY <1>1, <1>2
<1>4. QED
  BY <1>3, RowsAreTyped, PTL DEF ViewSpec, StandsFirm

-----------------------------------------------------------------------------
(* Pages.                                                                    *)

WalkRow == [on : BOOLEAN, by : ListFilters, cursor : Int, seen : [1 .. MaxRows -> 0 .. 1],
            start : SUBSET Nat, dropped : SUBSET Nat]

\* What a client that walks the pages has seen: before the first page nothing,
\* then every row listed at its start and still listed from the cursor on, and
\* none twice.  Only a list of submitted actions loses a row it listed.
WalkHolds ==
  walk.on =>
    /\ walk \in WalkRow /\ walk.start \subseteq Rows /\ walk.cursor \in {-1, 0} \cup Rows
    /\ walk.cursor >= 0 => \A i \in 1 .. MaxRows : (walk.cursor = 0 \/ i < walk.cursor) => walk.seen[i] = 0
    /\ walk.cursor # 0 =>
         \A i \in walk.start : walk.cursor <= i /\ Listed(i) => walk.seen[i] = 1 \/ i \in walk.dropped
    /\ walk.by.status # "submitted" =>
         walk.dropped = {} /\ \A i \in walk.start \cup ({walk.cursor} \cap Rows) : Listed(i)

\* The row that is skipped is the cursor's own while that row is listed, and no
\* row of a page is at the cursor or above it.
LEMMA SkipIsFirst ==
    ASSUME RowsHold, NEW c \in Nat
    PROVE  /\ Below(c) \subseteq From(c) /\ From(c) \subseteq Rows /\ skip(c) \subseteq From(c)
           /\ \A i \in Below(c) : c = 0 \/ i < c
           /\ \A i \in From(c) : i \in Below(c) \/ i \in skip(c)
           /\ skip(c) \ {c} # {} => c # 0 /\ c \notin From(c)
<1>1. PICK N \in Nat : N = Len(viewRows) /\ Rows = 1 .. N
  BY DEF RowsHold, Rows
<1>2. /\ Below(c) \subseteq From(c) /\ From(c) \subseteq Rows /\ skip(c) \subseteq From(c)
      /\ \A i \in From(c) : i \in Below(c) \/ i \in skip(c)
  BY DEF Below, From, skip
<1>3. \A i \in From(c) : i \in Nat /\ (c = 0 \/ i <= c)
  BY <1>1 DEF From
<1>4. c # 0 /\ c \in From(c) => c \in skip(c) /\ \A i \in skip(c) : i = c
  BY <1>3 DEF skip
<1>5. skip(c) \ {c} # {} => c # 0 /\ c \notin From(c)
  BY <1>4 DEF skip
<1>6. \A i \in Below(c) : c = 0 \/ i < c
  <2> SUFFICES ASSUME NEW i \in Below(c), c # 0 PROVE i < c
    OBVIOUS
  <2>1. i # c
    BY <1>2, <1>4 DEF Below
  <2>2. QED
    BY <1>2, <1>3, <2>1
<1>7. QED
  BY <1>2, <1>5, <1>6

\* The rows of a page are the newest below the cursor.
LEMMA PageIsOnTop ==
    ASSUME RowsHold, NEW c \in Nat
    PROVE  /\ Page(c) \subseteq Below(c) /\ Below(c) \subseteq 1 .. Len(viewRows)
           /\ \A i \in Page(c), j \in Below(c) : i <= j => j \in Page(c)
           /\ Below(c) # {} => Page(c) # {}
<1>1. PICK N \in Nat : N = Len(viewRows) /\ Rows = 1 .. N
  BY DEF RowsHold, Rows
<1>2. PICK B \in SUBSET (1 .. N) : B = Below(c)
  BY <1>1 DEF Below, From
<1>3. Page(c) = {i \in B : Cardinality({j \in B : j > i}) < PageSize}
  BY <1>2 DEF Page
<1>4. IsFiniteSet(B) /\ \A i \in B : IsFiniteSet({j \in B : j > i})
  <2>1. IsFiniteSet(1 .. N)
    BY FS_Interval
  <2>2. \A T \in SUBSET (1 .. N) : IsFiniteSet(T)
    BY <2>1, FS_Subset
  <2>3. \A i \in B : {j \in B : j > i} \in SUBSET (1 .. N)
    OBVIOUS
  <2>4. QED
    BY <2>2, <2>3
<1>5. ASSUME NEW i \in Page(c), NEW j \in B, i <= j PROVE j \in Page(c)
  <2>1. PICK S : S = {k \in B : k > i}
    OBVIOUS
  <2>2. PICK T : T = {k \in B : k > j}
    OBVIOUS
  <2>3. i \in B /\ Cardinality(S) < PageSize /\ IsFiniteSet(S)
    BY <1>3, <1>4, <1>5, <2>1
  <2>4. T \subseteq S
    <3> SUFFICES ASSUME NEW k \in B, k > j PROVE k > i
      BY <2>1, <2>2
    <3>1. k \in Nat /\ j \in Nat /\ i \in Nat
      BY <2>3
    <3>2. QED
      BY <1>5, <3>1
  <2>5. Cardinality(T) <= Cardinality(S) /\ Cardinality(T) \in Nat /\ Cardinality(S) \in Nat
    BY <2>3, <2>4, FS_Subset, FS_CardinalityType
  <2>6. Cardinality(T) < PageSize
    BY <2>3, <2>5, ViewAssumption
  <2>7. QED
    BY <1>3, <2>2, <2>6
<1>6. ASSUME B # {} PROVE Page(c) # {}
  <2>1. PICK U \in SUBSET Nat : U = {k \in Nat : N - k \in B} /\ U # {}
    <3>1. PICK b \in B : TRUE
      BY <1>6
    <3>2. N - b \in Nat /\ N - (N - b) = b
      BY <3>1
    <3>3. QED
      BY <3>1, <3>2
  <2>2. PICK e \in U : \A f \in U : e <= f
    BY <2>1, SmallestMember
  <2>3. N - e \in B
    BY <2>1
  <2>4. {j \in B : j > N - e} = {}
    <3> SUFFICES ASSUME NEW j \in B, j > N - e PROVE FALSE
      OBVIOUS
    <3>1. N - j \in Nat /\ N - (N - j) = j
      OBVIOUS
    <3>2. N - j \in U
      BY <2>1, <3>1
    <3>3. e <= N - j /\ e \in Nat
      BY <2>1, <2>2, <3>2
    <3>4. QED
      BY <3>3
  <2>5. Cardinality({j \in B : j > N - e}) = 0
    BY <2>4, FS_EmptySet
  <2>6. QED
    BY <1>3, <2>3, <2>5, ViewAssumption
<1>7. QED
  BY <1>1, <1>2, <1>3, <1>5, <1>6

\* A page and its rows, the rows it drops and the cursor it ends at.
LEMMA PageTaken ==
    ASSUME RowsHold, WalkHolds, listActions
    PROVE  \E c \in {0} \cup Rows, d \in {-1} \cup Rows :
             \E P \in SUBSET Rows :
               /\ walk.on /\ walk \in WalkRow /\ c = walk.cursor /\ P \subseteq Below(c)
               /\ \A i \in Below(c) : d <= i => i \in P
               /\ \A i \in P : d <= i /\ i \in 1 .. MaxRows
               /\ d = -1 \/ (d \in P /\ Listed(d) /\ (c = 0 \/ d <= c))
               /\ walk' = [walk EXCEPT
                    !.seen = [i \in 1 .. MaxRows |-> IF i \in P THEN 1 ELSE walk.seen[i]],
                    !.dropped = @ \cup (skip(c) \ {c}), !.cursor = d]
<1>1. walk.on /\ walk.cursor # -1 /\ walk \in WalkRow
  BY DEF listActions, WalkHolds
<1>2. PICK N \in Nat : N = Len(viewRows) /\ N <= MaxRows /\ Rows = 1 .. N
  BY DEF RowsHold, Rows
<1>3. PICK c \in {0} \cup Rows : c = walk.cursor
  BY <1>1, <1>2 DEF WalkHolds
<1>4. PICK P : P = Page(c)
  OBVIOUS
<1>5. c \in Nat /\ MaxRows \in Nat
  BY <1>2, ViewAssumption
<1>6. /\ P \subseteq Below(c) /\ Below(c) \subseteq Rows
      /\ \A i \in P, j \in Below(c) : i <= j => j \in P
      /\ Below(c) # {} => P # {}
  BY <1>2, <1>4, <1>5, PageIsOnTop
<1>7. \A i \in Below(c) : Listed(i) /\ (c = 0 \/ i < c)
  BY <1>5, SkipIsFirst DEF From
<1>8. PICK d : d = IF Below(c) \ P # {} THEN CHOOSE i \in P : \A j \in P : i <= j ELSE -1
  OBVIOUS
<1>9. P \in SUBSET Nat
  BY <1>2, <1>6
<1>10. /\ d \in {-1} \cup Rows
       /\ d = -1 => Below(c) \subseteq P
       /\ d # -1 => d \in P /\ \A i \in P : d <= i
  <2>1. CASE Below(c) \ P # {}
    <3>1. PICK m \in P : \A j \in P : m <= j
      BY <1>6, <1>9, <2>1, SmallestMember
    <3>2. d = m
      BY <1>8, <1>9, <2>1, <3>1, LeastIsChosen
    <3>3. QED
      BY <1>2, <1>6, <3>1, <3>2
  <2>2. CASE Below(c) \ P = {}
    BY <1>8, <2>2
  <2>3. QED
    BY <2>1, <2>2
<1>11. \A i \in Below(c) : d <= i => i \in P
  BY <1>6, <1>10
<1>12. \A i \in P : d <= i /\ i \in 1 .. MaxRows
  BY <1>2, <1>5, <1>6, <1>10
<1>13. d = -1 \/ (d \in P /\ Listed(d) /\ (c = 0 \/ d <= c))
  BY <1>2, <1>5, <1>6, <1>7, <1>10
<1>14. walk' = [walk EXCEPT !.seen = [i \in DOMAIN walk.seen |-> IF i \in P THEN walk.seen[i] + 1 ELSE walk.seen[i]],
                            !.dropped = @ \cup (skip(c) \ {c}), !.cursor = d]
  BY <1>3, <1>4, <1>8 DEF listActions
<1>15. [i \in DOMAIN walk.seen |-> IF i \in P THEN walk.seen[i] + 1 ELSE walk.seen[i]]
         = [i \in 1 .. MaxRows |-> IF i \in P THEN 1 ELSE walk.seen[i]]
  <2>1. \A i \in P : walk.seen[i] = 0
    BY <1>1, <1>3, <1>5, <1>6, <1>7, <1>12 DEF WalkHolds
  <2>2. DOMAIN walk.seen = 1 .. MaxRows
    BY <1>1 DEF WalkRow
  <2>3. QED
    BY <2>1, <2>2
<1>16. P \in SUBSET Rows
  BY <1>6
<1>17. QED
  BY <1>1, <1>3, <1>6, <1>10, <1>11, <1>12, <1>13, <1>14, <1>15, <1>16

\* One page: its rows are seen now, and the cursor is its oldest row while there
\* are older ones.
LEMMA PageIsSeen ==
    ASSUME RowsHold, WalkHolds, listActions
    PROVE  WalkHolds'
<1>1. PICK c \in {0} \cup Rows, d \in {-1} \cup Rows :
        \E P \in SUBSET Rows :
          /\ walk.on /\ walk \in WalkRow /\ c = walk.cursor /\ P \subseteq Below(c)
          /\ \A i \in Below(c) : d <= i => i \in P
          /\ \A i \in P : d <= i /\ i \in 1 .. MaxRows
          /\ d = -1 \/ (d \in P /\ Listed(d) /\ (c = 0 \/ d <= c))
          /\ walk' = [walk EXCEPT
               !.seen = [i \in 1 .. MaxRows |-> IF i \in P THEN 1 ELSE walk.seen[i]],
               !.dropped = @ \cup (skip(c) \ {c}), !.cursor = d]
  BY PageTaken
<1>2. PICK P \in SUBSET Rows :
          /\ walk.on /\ walk \in WalkRow /\ c = walk.cursor /\ P \subseteq Below(c)
          /\ \A i \in Below(c) : d <= i => i \in P
          /\ \A i \in P : d <= i /\ i \in 1 .. MaxRows
          /\ d = -1 \/ (d \in P /\ Listed(d) /\ (c = 0 \/ d <= c))
          /\ walk' = [walk EXCEPT
               !.seen = [i \in 1 .. MaxRows |-> IF i \in P THEN 1 ELSE walk.seen[i]],
               !.dropped = @ \cup (skip(c) \ {c}), !.cursor = d]
  BY <1>1
<1>3. PICK N \in Nat : N = Len(viewRows) /\ N <= MaxRows /\ Rows = 1 .. N /\ c \in Nat /\ d \in Int
  BY DEF RowsHold, Rows
<1>4. PICK q : q = [i \in 1 .. MaxRows |-> IF i \in P THEN 1 ELSE walk.seen[i]]
  OBVIOUS
<1>5. q \in [1 .. MaxRows -> 0 .. 1] /\ \A i \in 1 .. MaxRows : q[i] = IF i \in P THEN 1 ELSE walk.seen[i]
  <2>1. PICK t \in [1 .. MaxRows -> 0 .. 1] : t = walk.seen
    BY <1>2 DEF WalkRow
  <2>2. \A i \in 1 .. MaxRows : t[i] \in 0 .. 1
    BY <2>1
  <2>3. QED
    BY <1>4, <2>1, <2>2
<1>6. PICK e : e = walk.dropped \cup (skip(c) \ {c})
  OBVIOUS
<1>7. /\ Below(c) \subseteq From(c) /\ From(c) \subseteq Rows /\ skip(c) \subseteq From(c)
      /\ \A i \in Below(c) : c = 0 \/ i < c
      /\ \A i \in From(c) : i \in Below(c) \/ i \in skip(c)
      /\ skip(c) \ {c} # {} => c # 0 /\ c \notin From(c)
  BY <1>3, SkipIsFirst
<1>8. e \in SUBSET Nat
  BY <1>2, <1>3, <1>6, <1>7 DEF WalkRow
<1>9. /\ walk' \in WalkRow /\ walk'.on /\ walk'.by = walk.by /\ walk'.start = walk.start
      /\ walk'.seen = q /\ walk'.dropped = e /\ walk'.cursor = d
  BY <1>2, <1>3, <1>4, <1>5, <1>6, <1>8 DEF WalkRow
<1>10. viewRows' = viewRows /\ Rows' = Rows /\ \A i : Listed(i)' = Listed(i)
  BY <1>9 DEF listActions, Rows, Listed
<1>11. d >= 0 => \A i \in 1 .. MaxRows : (d = 0 \/ i < d) => q[i] = 0
  <2> SUFFICES ASSUME d >= 0, NEW i \in 1 .. MaxRows, d = 0 \/ i < d PROVE q[i] = 0
    OBVIOUS
  <2>1. d \in 1 .. N /\ i < d /\ i \in Nat
    BY <1>3, ViewAssumption
  <2>2. i \notin P /\ (c = 0 \/ i < c)
    BY <1>2, <1>3, <2>1
  <2>3. walk.seen[i] = 0
    BY <1>2, <1>3, <2>2 DEF WalkHolds
  <2>4. QED
    BY <1>5, <2>2, <2>3
<1>12. \A i \in walk.start : d <= i /\ Listed(i) => q[i] = 1 \/ i \in e
  <2> SUFFICES ASSUME NEW i \in walk.start, d <= i, Listed(i), i \notin e PROVE q[i] = 1
    OBVIOUS
  <2>1. i \in Rows /\ i \in 1 .. MaxRows /\ i \in Nat
    BY <1>2, <1>3, ViewAssumption DEF WalkHolds
  <2>2. CASE i \in Below(c)
    BY <1>2, <1>5, <2>1, <2>2
  <2>3. CASE i \notin Below(c)
    <3>1. c # 0 /\ c <= i
      <4>1. CASE i \in From(c)
        <5>1. i \in skip(c) /\ i = c
          BY <1>6, <1>7, <2>3, <4>1
        <5>2. QED
          BY <1>3, <2>1, <5>1
      <4>2. CASE i \notin From(c)
        BY <1>3, <2>1, <4>2 DEF From
      <4>3. QED
        BY <4>1, <4>2
    <3>2. walk.seen[i] = 1
      BY <1>2, <1>6, <3>1 DEF WalkHolds
    <3>3. QED
      BY <1>5, <2>1, <3>2
  <2>4. QED
    BY <2>2, <2>3
<1>13. ASSUME walk.by.status # "submitted" PROVE e = {} /\ \A i \in walk.start \cup ({d} \cap Rows) : Listed(i)
  <2>1. \A i \in walk.start : Listed(i)
    BY <1>2, <1>13 DEF WalkHolds
  <2>2. c # 0 => c \in From(c)
    BY <1>2, <1>3, <1>13 DEF WalkHolds, From
  <2>3. skip(c) \ {c} = {}
    BY <1>7, <2>2
  <2>4. e = {}
    BY <1>2, <1>6, <1>13, <2>3 DEF WalkHolds
  <2>5. d \in Rows => Listed(d)
    BY <1>2, <1>3
  <2>6. QED
    BY <2>1, <2>4, <2>5
<1>14. d \in {-1, 0} \cup Rows
  OBVIOUS
<1>15. QED
  BY <1>2, <1>9, <1>10, <1>11, <1>12, <1>13, <1>14 DEF WalkHolds

LEMMA WalkStarts ==
    ASSUME RowsHold, BeginWalk
    PROVE  WalkHolds'
<1>1. PICK by \in ListFilters :
        walk' = [on |-> TRUE, by |-> by, cursor |-> 0, seen |-> [i \in 1 .. MaxRows |-> 0],
                 start |-> {i \in Rows : Matches(by, viewRows[i])}, dropped |-> {}]
  BY DEF BeginWalk
<1>2. Rows' = Rows /\ viewRows' = viewRows /\ Rows \subseteq Nat /\ 0 \notin Rows
  BY DEF BeginWalk, Rows, RowsHold
<1>3. walk' \in WalkRow
  <2>1. [i \in 1 .. MaxRows |-> 0] \in [1 .. MaxRows -> 0 .. 1]
    OBVIOUS
  <2>2. {i \in Rows : Matches(by, viewRows[i])} \in SUBSET Nat
    BY <1>2
  <2>3. QED
    BY <1>1, <2>1, <2>2 DEF WalkRow
<1>4. \A i \in walk'.start : i \in Rows /\ Listed(i)'
  BY <1>1, <1>2 DEF Listed
<1>5. \A i \in 1 .. MaxRows : walk'.seen[i] = 0
  BY <1>1
<1>6. walk'.cursor = 0 /\ walk'.dropped = {}
  BY <1>1
<1>7. QED
  BY <1>2, <1>3, <1>4, <1>5, <1>6 DEF WalkHolds

\* A row that is decided leaves a list of submitted actions, and no other.
LEMMA ListedStays ==
    ASSUME RowsHold, NEW k \in Rows, DecideRow(k), walk.on, WalkHolds, NEW i \in Rows
    PROVE  /\ walk.by.status # "submitted" /\ Listed(i) => Listed(i)'
           /\ walk.by.status = "submitted" /\ Listed(i)' => Listed(i)
<1>1. /\ viewRows[k].status = "submitted" /\ walk' = walk
      /\ \A j \in Rows : viewRows'[j].kind = viewRows[j].kind /\ (j # k => viewRows'[j] = viewRows[j])
  BY DecidedRow
<1>2. walk.by.status \in {"any", "submitted", "confirmed", "failed"}
  BY ViewAssumption DEF WalkHolds, WalkRow
<1>3. CASE i # k
  BY <1>1, <1>3 DEF Listed, Matches
<1>4. CASE i = k
  <2>1. viewRows'[k].status \in {"confirmed", "failed"}
    BY DecidedRow
  <2>2. QED
    BY <1>1, <1>2, <1>4, <2>1 DEF Listed, Matches
<1>5. QED
  BY <1>3, <1>4

\* Rows that come in while the client walks are newer than all it started with.
LEMMA WalkGoesOn ==
    ASSUME RowsHold, WalkHolds, [ViewNext]_viewVars
    PROVE  WalkHolds'
<1>1. ASSUME walk' = walk, Rows \subseteq Rows', 0 \notin Rows', -1 \notin Rows',
             \A i \in Rows : walk.on =>
               /\ walk.by.status # "submitted" /\ Listed(i) => Listed(i)'
               /\ walk.by.status = "submitted" /\ Listed(i)' => Listed(i)
      PROVE  WalkHolds'
  <2> SUFFICES ASSUME walk.on PROVE WalkHolds'
    BY <1>1 DEF WalkHolds
  <2>1. walk.start \subseteq Rows /\ walk.cursor \in {-1, 0} \cup Rows
    BY DEF WalkHolds
  <2>2. {walk.cursor} \cap Rows' = {walk.cursor} \cap Rows
    BY <1>1, <2>1
  <2>3. walk.cursor # 0 =>
          \A i \in walk.start : walk.cursor <= i /\ Listed(i)' => walk.seen[i] = 1 \/ i \in walk.dropped
    BY <1>1, <2>1 DEF WalkHolds
  <2>4. walk.by.status # "submitted" =>
          walk.dropped = {} /\ \A i \in walk.start \cup ({walk.cursor} \cap Rows) : Listed(i)'
    BY <1>1, <2>1 DEF WalkHolds
  <2>5. QED
    BY <1>1, <2>1, <2>2, <2>3, <2>4 DEF WalkHolds
<1>2. CASE CreateRow
  <2>1. PICK r : viewRows' = Append(viewRows, r)
    BY <1>2 DEF CreateRow
  <2>2. walk' = walk /\ Rows \subseteq Rows' /\ 0 \notin Rows' /\ -1 \notin Rows'
    BY <1>2, <2>1 DEF CreateRow, RowsHold, Rows
  <2>3. \A i \in Rows : viewRows'[i] = viewRows[i]
    BY <2>1 DEF RowsHold, Rows
  <2>4. \A i \in Rows : Listed(i)' = Listed(i)
    BY <2>2, <2>3 DEF Listed
  <2>5. QED
    BY <1>1, <2>2, <2>4
<1>3. ASSUME NEW k \in Rows, DecideRow(k) PROVE WalkHolds'
  <2>1. walk' = walk /\ Rows' = Rows /\ 0 \notin Rows /\ -1 \notin Rows
    BY <1>3, DecidedRow DEF RowsHold, Rows
  <2>2. QED
    BY <1>1, <1>3, <2>1, ListedStays
<1>4. CASE EndWalk
  BY <1>4 DEF EndWalk, NoWalk, WalkHolds
<1>5. CASE UNCHANGED <<viewRows, walk>>
  BY <1>5 DEF WalkHolds, Rows, Listed
<1>6. QED
  BY <1>2, <1>3, <1>4, <1>5, PageIsSeen, WalkStarts
     DEF ViewNext, viewVars, scrubWallet, PoolCreatedEvent, deactivatePoolRegistryEntry

LEMMA WalksHold == ViewSpec => []WalkHolds
<1>1. ViewInit => WalkHolds
  BY DEF ViewInit, NoWalk, WalkHolds
<1>2. QED
  BY <1>1, RowsAreTyped, WalkGoesOn, PTL DEF ViewSpec

\* Following nextCursor to the end shows every row that was listed at the start
\* and is listed still once, or drops it from a list of submitted actions.
LEMMA WalkCovers == WalkHolds => PagesCoverTheWalk
<1> SUFFICES ASSUME WalkHolds, walk.on PROVE PagesCoverTheWalk
  BY DEF PagesCoverTheWalk
<1>1. \A i \in DOMAIN walk.seen : walk.seen[i] <= 1
  <2>1. PICK t \in [1 .. MaxRows -> 0 .. 1] : t = walk.seen
    BY DEF WalkHolds, WalkRow
  <2>2. \A i \in DOMAIN t : t[i] <= 1
    OBVIOUS
  <2>3. QED
    BY <2>1, <2>2
<1>2. walk.cursor = -1 => \A i \in walk.start : Listed(i) => walk.seen[i] = 1 \/ i \in walk.dropped
  <2>1. \A i \in walk.start : i \in Nat
    BY DEF WalkHolds, WalkRow
  <2>2. QED
    BY <2>1 DEF WalkHolds
<1>3. walk.dropped # {} => walk.by.status = "submitted"
  BY DEF WalkHolds
<1>4. QED
  BY <1>1, <1>2, <1>3 DEF PagesCoverTheWalk

-----------------------------------------------------------------------------
(* What is claimable.                                                        *)

\* The two sums over rows are sums of functions on the rows.
LEMMA AmountsAreSummed ==
    ASSUME NEW S, NEW f, \A i \in S : f[i] = AmountSource(i)
    PROVE  MapThenSumSet(AmountSource, S) = SumFunctionOnSet(f, S)
<1>1. \A g : [s \in SUBSET S |-> IF s = {} THEN 0 ELSE AmountSource(Chosen(s)) + g[s \ {Chosen(s)}]]
               = [s \in SUBSET S |-> FoldTurn(f, g, s)]
  <2>1. \A s \in SUBSET S : s # {} => f[Chosen(s)] = AmountSource(Chosen(s))
    BY DEF Chosen
  <2>2. QED
    BY <2>1 DEF FoldTurn
<1>2. MapThenSumSet(AmountSource, S) =
        (CHOOSE g : g = [s \in SUBSET S |-> IF s = {} THEN 0 ELSE AmountSource(Chosen(s)) + g[s \ {Chosen(s)}]])[S]
  BY Zenon DEF MapThenSumSet, MapThenFoldSet, Chosen
<1>3. (CHOOSE g : g = [s \in SUBSET S |-> IF s = {} THEN 0 ELSE AmountSource(Chosen(s)) + g[s \ {Chosen(s)}]]) = Iter(f, S)
  BY <1>1, Zenon DEF Iter
<1>4. QED
  BY <1>2, <1>3, SumIsIter

LEMMA EventsAreSummed ==
    ASSUME NEW S, NEW f, \A i \in S : f[i] = viewRows[i].kind.event
    PROVE  MapThenSumSet(LAMBDA i : viewRows[i].kind.event, S) = SumFunctionOnSet(f, S)
<1>1. \A g : [s \in SUBSET S |-> IF s = {} THEN 0 ELSE viewRows[Chosen(s)].kind.event + g[s \ {Chosen(s)}]]
               = [s \in SUBSET S |-> FoldTurn(f, g, s)]
  <2>1. \A s \in SUBSET S : s # {} => f[Chosen(s)] = viewRows[Chosen(s)].kind.event
    BY DEF Chosen
  <2>2. QED
    BY <2>1 DEF FoldTurn
<1>2. MapThenSumSet(LAMBDA i : viewRows[i].kind.event, S) =
        (CHOOSE g : g = [s \in SUBSET S |-> IF s = {} THEN 0 ELSE viewRows[Chosen(s)].kind.event + g[s \ {Chosen(s)}]])[S]
  BY Zenon DEF MapThenSumSet, MapThenFoldSet, Chosen
<1>3. (CHOOSE g : g = [s \in SUBSET S |-> IF s = {} THEN 0 ELSE viewRows[Chosen(s)].kind.event + g[s \ {Chosen(s)}]])
        = Iter(f, S)
  BY <1>1, Zenon DEF Iter
<1>4. QED
  BY <1>2, <1>3, SumIsIter

\* What is claimable is among what events of confirmed payouts paid.
LEMMA ClaimsWerePaid == RowsHold => ClaimableWasPaid
<1> SUFFICES ASSUME RowsHold PROVE ClaimableWasPaid
  OBVIOUS
<1>1. ASSUME NEW i \in Counted, isPayoutAction(i), verifyPayoutIntegrity(i)
      PROVE  AmountSource(i) = viewRows[i].kind.claimed
  BY <1>1 DEF AmountSource, verifyPayoutIntegrity
<1>2. PICK S : S = {i \in exportActivity : viewRows[i].status = "confirmed" /\ isPayoutAction(i)}
  OBVIOUS
<1>3. PICK T : T = {i \in Counted : viewRows[i].kind.type = "claim"}
  OBVIOUS
<1>4. T \subseteq S /\ \A i \in T : AmountSource(i) = viewRows[i].kind.event
  BY <1>2, <1>3 DEF Counted, Portfolio, exportActivity, isPayoutAction, AmountSource
<1>5. PICK N \in Nat : N = Len(viewRows) /\ Rows = 1 .. N
  BY DEF RowsHold, Rows
<1>6. \A i \in Rows : viewRows[i].kind.event \in Nat
  <2>1. \A i \in Rows : viewRows[i] \in ViewRow
    BY DEF RowsHold, Rows
  <2>2. \A r \in ViewRow : r.kind.event \in Nat
    BY ViewAssumption DEF ViewRow
  <2>3. QED
    BY <2>1, <2>2
<1>7. S \subseteq Rows /\ IsFiniteSet(S)
  <2>1. S \subseteq Rows
    BY <1>2 DEF exportActivity
  <2>2. IsFiniteSet(Rows)
    BY <1>5, FS_Interval
  <2>3. QED
    BY <2>1, <2>2, FS_Subset
<1>8. PICK f : f = [i \in Rows |-> viewRows[i].kind.event]
  OBVIOUS
<1>9. /\ \A i \in S : f[i] = viewRows[i].kind.event /\ f[i] \in Nat
      /\ \A i \in T : f[i] = AmountSource(i) /\ f[i] \in Int /\ f[i] <= f[i]
  BY <1>4, <1>6, <1>7, <1>8
<1>10. SumFunctionOnSet(f, T) <= SumFunctionOnSet(f, S)
  BY <1>4, <1>7, <1>9, SumWithin
<1>11. MapThenSumSet(AmountSource, T) <= MapThenSumSet(LAMBDA i : viewRows[i].kind.event, S)
  BY <1>9, <1>10, AmountsAreSummed, EventsAreSummed
<1>12. claimable_amount = MapThenSumSet(AmountSource, T)
  BY <1>3 DEF claimable_amount, Total
<1>13. QED
  BY <1>1, <1>2, <1>11, <1>12 DEF ClaimableWasPaid

-----------------------------------------------------------------------------
(* Critical reads.                                                           *)

\* The samples of the read in progress: an honest provider's is the balance
\* after a ledger that has closed.
SampleHolds(p) ==
  samples[p].ok =>
    /\ samples[p].ledger \in DOMAIN chainBalance
    /\ p \notin Liars => samples[p].value = chainBalance[samples[p].ledger]

\* The chain, the samples, and what the last decision rests on.
CriticalHolds ==
  /\ \E n \in Nat \ {0} : chainBalance \in [1 .. n -> BalanceValues]
  /\ DOMAIN samples = Providers /\ \A p \in Providers : SampleHolds(p)
  /\ AuthorizedWasTrue

\* The last closed ledger ends the chain's domain.
LEMMA LastIsClosed ==
    ASSUME NEW n \in Nat \ {0}, chainBalance \in [1 .. n -> BalanceValues]
    PROVE  ClosedLedger = n
<1>1. DOMAIN chainBalance = 1 .. n
  OBVIOUS
<1>2. PICK c : c = CHOOSE l \in 1 .. n : \A k \in 1 .. n : k <= l
  OBVIOUS
<1>3. c \in 1 .. n /\ \A k \in 1 .. n : k <= c
  <2>1. n \in 1 .. n /\ \A k \in 1 .. n : k <= n
    OBVIOUS
  <2>2. QED
    BY <1>2, <2>1
<1>4. c = n
  BY <1>3
<1>5. QED
  BY <1>1, <1>2, <1>4 DEF ClosedLedger

LEMMA CriticalStart == CriticalInit => CriticalHolds
<1> SUFFICES ASSUME CriticalInit PROVE CriticalHolds
  OBVIOUS
<1>1. chainBalance \in [1 .. 1 -> BalanceValues]
  <2>1. 1 .. 1 = {1}
    OBVIOUS
  <2>2. QED
    BY <2>1 DEF CriticalInit
<1>2. DOMAIN samples = Providers /\ \A p \in Providers : ~ samples[p].ok
  BY DEF CriticalInit, NotAsked
<1>3. ~ decision.ok
  BY DEF CriticalInit, NoDecision
<1>4. QED
  BY <1>1, <1>2, <1>3 DEF CriticalHolds, SampleHolds, AuthorizedWasTrue, Authorized

LEMMA SampleReads ==
    ASSUME CriticalHolds, NEW p \in Providers, ReadSample(p) \/ SampleFails(p)
    PROVE  CriticalHolds'
<1>1. chainBalance' = chainBalance /\ decision' = decision
  BY DEF ReadSample, SampleFails
<1>2. DOMAIN samples' = Providers /\ \A q \in Providers : q # p => samples'[q] = samples[q]
  BY DEF CriticalHolds, ReadSample, SampleFails
<1>3. SampleHolds(p)'
  <2>1. CASE SampleFails(p)
    <3>1. samples'[p] = FailedSample
      BY <2>1 DEF SampleFails, CriticalHolds
    <3>2. QED
      BY <3>1 DEF SampleHolds, FailedSample
  <2>2. CASE ReadSample(p)
    <3>1. PICK l \in DOMAIN chainBalance : \E v \in IF p \in Liars THEN BalanceValues ELSE {chainBalance[l]} :
            samples' = [samples EXCEPT ![p] = [ok |-> TRUE, asked |-> TRUE, ledger |-> l, value |-> v]]
      BY <2>2 DEF ReadSample
    <3>2. PICK v \in IF p \in Liars THEN BalanceValues ELSE {chainBalance[l]} :
            samples' = [samples EXCEPT ![p] = [ok |-> TRUE, asked |-> TRUE, ledger |-> l, value |-> v]]
      BY <3>1
    <3>3. samples'[p] = [ok |-> TRUE, asked |-> TRUE, ledger |-> l, value |-> v]
      BY <3>2 DEF CriticalHolds
    <3>4. p \notin Liars => v = chainBalance[l]
      BY <3>2
    <3>5. QED
      BY <1>1, <3>1, <3>3, <3>4 DEF SampleHolds
  <2>3. QED
    BY <2>1, <2>2
<1>4. \A q \in Providers : SampleHolds(q)'
  BY <1>1, <1>2, <1>3 DEF CriticalHolds, SampleHolds
<1>5. AuthorizedWasTrue'
  BY <1>1 DEF CriticalHolds, AuthorizedWasTrue, Authorized
<1>6. QED
  BY <1>1, <1>2, <1>4, <1>5 DEF CriticalHolds

\* A group that makes a quorum has a provider that is no liar.
LEMMA QuorumIsHonest ==
    ASSUME NEW G \in SUBSET Providers, Quorate(G)
    PROVE  \E p \in G : p \notin Liars
<1> SUFFICES ASSUME G \subseteq Liars PROVE FALSE
  OBVIOUS
<1>1. IsFiniteSet(Liars)
  BY LiarsAreFew, CriticalReadAssumption, FS_Subset
<1>2. Cardinality(G) <= Cardinality(Liars) /\ Cardinality(Liars) \in Nat /\ Cardinality(G) \in Nat
  BY <1>1, FS_Subset, FS_CardinalityType
<1>3. QED
  BY <1>2, LiarsAreFew, CriticalReadAssumption DEF Quorate

\* The value decided on is what an honest provider of the group read in time.
LEMMA DecisionIsTrue ==
    ASSUME CriticalHolds, evaluate
    PROVE  AuthorizedWasTrue'
<1>1. chainBalance' = chainBalance
  BY DEF evaluate
<1>2. CASE decision' = NoDecision
  BY <1>2 DEF NoDecision, AuthorizedWasTrue, Authorized
<1>3. ASSUME NEW v \in Majorities, decision' = DecisionFor(v) PROVE AuthorizedWasTrue'
  <2>1. decision'.value = v /\ decision'.at = ClosedLedger /\ (decision'.ok => Quorate(Agreeing(v)))
    BY <1>3 DEF DecisionFor
  <2>2. SUFFICES ASSUME Quorate(Agreeing(v))
                 PROVE  \E l \in DOMAIN chainBalance :
                          ClosedLedger - l <= maxFreshness /\ l <= ClosedLedger /\ chainBalance[l] = v
    BY <1>1, <2>1 DEF AuthorizedWasTrue, Authorized
  <2>3. Agreeing(v) \in SUBSET Providers
    BY DEF Agreeing, Trusted
  <2>4. PICK p \in Agreeing(v) : p \notin Liars
    BY <2>2, <2>3, QuorumIsHonest
  <2>5. p \in Providers /\ samples[p].ok /\ samples[p].value = v /\ ClosedLedger - samples[p].ledger <= maxFreshness
    BY <2>4 DEF Agreeing, Trusted, InPolicy
  <2>6. samples[p].ledger \in DOMAIN chainBalance /\ chainBalance[samples[p].ledger] = v
    BY <2>4, <2>5 DEF CriticalHolds, SampleHolds
  <2>7. PICK n \in Nat \ {0} : chainBalance \in [1 .. n -> BalanceValues]
    BY DEF CriticalHolds
  <2>8. ClosedLedger = n /\ DOMAIN chainBalance = 1 .. n
    BY <2>7, LastIsClosed
  <2>9. samples[p].ledger <= ClosedLedger
    BY <2>6, <2>8
  <2>10. QED
    BY <2>5, <2>6, <2>9
<1>4. QED
  BY <1>2, <1>3 DEF evaluate

LEMMA EvaluationHolds ==
    ASSUME CriticalHolds, evaluate
    PROVE  CriticalHolds'
<1>1. chainBalance' = chainBalance /\ samples' = [p \in Providers |-> NotAsked]
  BY DEF evaluate
<1>2. DOMAIN samples' = Providers /\ \A p \in Providers : ~ samples'[p].ok
  BY <1>1 DEF NotAsked
<1>3. QED
  BY <1>1, <1>2, DecisionIsTrue DEF CriticalHolds, SampleHolds

\* A ledger that closes leaves the balances after the earlier ones.
LEMMA ClosingHolds ==
    ASSUME CriticalHolds, Close
    PROVE  CriticalHolds'
<1>1. PICK n \in Nat \ {0} : chainBalance \in [1 .. n -> BalanceValues]
  BY DEF CriticalHolds
<1>2. ClosedLedger = n
  BY <1>1, LastIsClosed
<1>3. PICK v \in BalanceValues : chainBalance' = [l \in 1 .. n + 1 |-> IF l > n THEN v ELSE chainBalance[l]]
  BY <1>2 DEF Close
<1>4. chainBalance' \in [1 .. n + 1 -> BalanceValues] /\ n + 1 \in Nat \ {0}
  BY <1>1, <1>3
<1>5. DOMAIN chainBalance = 1 .. n /\ \A l \in 1 .. n : l \in DOMAIN chainBalance' /\ chainBalance'[l] = chainBalance[l]
  BY <1>1, <1>3
<1>6. samples' = samples /\ decision' = decision
  BY DEF Close
<1>7. \A p \in Providers : SampleHolds(p)'
  BY <1>5, <1>6 DEF CriticalHolds, SampleHolds
<1>8. AuthorizedWasTrue'
  BY <1>5, <1>6 DEF CriticalHolds, AuthorizedWasTrue, Authorized
<1>9. QED
  BY <1>4, <1>6, <1>7, <1>8 DEF CriticalHolds

LEMMA CriticalReadsHold == CriticalSpec => []CriticalHolds
<1>1. ASSUME CriticalHolds, [CriticalNext]_criticalVars PROVE CriticalHolds'
  <2>1. ASSUME UNCHANGED <<chainBalance, samples, decision>> PROVE CriticalHolds'
    BY <1>1, <2>1 DEF CriticalHolds, SampleHolds, AuthorizedWasTrue, Authorized
  <2>2. QED
    BY <1>1, <2>1, SampleReads, EvaluationHolds, ClosingHolds DEF CriticalNext, criticalVars, resetFlaps
<1>2. QED
  BY <1>1, CriticalStart, PTL DEF CriticalSpec

-----------------------------------------------------------------------------
(* The cached list.                                                          *)

\* What content that is not the table's owes its place to.
Excused(v) == v # tableVersion => mustInvalidate \/ missed \/ v \in raced

\* What is cached has its cause, and so has what a lookup will still store.
CacheHolds ==
  /\ lookup \in [Lists -> [at : {"idle", "get", "fetch", "fetched"}, value : Int]] /\ tableVersion \in Int
  /\ \A c \in Lists : lookup[c].at = "fetched" => Excused(lookup[c].value)
  /\ OldListsHaveACause

LEMMA CacheStart == CacheInit => CacheHolds
BY DEF CacheInit, CacheHolds, NoLookup, OldListsHaveACause, Absent

\* A lookup stores what it fetched, or moves on.
LEMMA LookupsHold ==
    ASSUME CacheHolds, NEW c \in Lists, BeginGet(c) \/ RedisGet(c) \/ Fetch(c) \/ RedisSet(c)
    PROVE  CacheHolds'
<1> DEFINE LookupRow == [at : {"idle", "get", "fetch", "fetched"}, value : Int]
<1>1. UNCHANGED <<tableVersion, mustInvalidate, missed, raced>> /\ tableVersion \in Int
  BY DEF BeginGet, RedisGet, Fetch, RedisSet, CacheHolds
<1>2. PICK r \in LookupRow : r = lookup[c] /\ lookup \in [Lists -> LookupRow]
  BY DEF CacheHolds
<1>3. \E q \in LookupRow : lookup' = [lookup EXCEPT ![c] = q] /\ (q.at = "fetched" => q.value = tableVersion)
  <2>1. NoLookup \in LookupRow /\ NoLookup.at = "idle"
    BY DEF NoLookup, Absent
  <2>2. \A s \in {"get", "fetch"} : [r EXCEPT !.at = s] \in LookupRow /\ [r EXCEPT !.at = s].at = s
    OBVIOUS
  <2>3. CASE BeginGet(c)
    <3>1. PICK s \in {"get", "fetch"} : s = IF online THEN "get" ELSE "fetch"
      OBVIOUS
    <3>2. lookup' = [lookup EXCEPT ![c] = [r EXCEPT !.at = s]]
      BY <1>2, <2>3, <3>1 DEF BeginGet
    <3>3. QED
      BY <2>2, <3>2
  <2>4. CASE RedisGet(c)
    <3>1. lookup' = [lookup EXCEPT ![c] = NoLookup] \/ lookup' = [lookup EXCEPT ![c] = [r EXCEPT !.at = "fetch"]]
      BY <1>2, <2>4 DEF RedisGet
    <3>2. QED
      BY <2>1, <2>2, <3>1
  <2>5. CASE Fetch(c)
    <3>1. [at |-> "fetched", value |-> tableVersion] \in LookupRow
      BY <1>1
    <3>2. QED
      BY <2>5, <3>1 DEF Fetch
  <2>6. CASE RedisSet(c)
    BY <2>1, <2>6 DEF RedisSet
  <2>7. QED
    BY <2>3, <2>4, <2>5, <2>6
<1>4. redisEntry' = redisEntry \/ (lookup[c].at = "fetched" /\ redisEntry' = lookup[c].value)
  BY DEF BeginGet, RedisGet, Fetch, RedisSet
<1>5. OldListsHaveACause'
  BY <1>1, <1>4 DEF CacheHolds, OldListsHaveACause, Excused
<1>6. lookup' \in [Lists -> LookupRow] /\ \A d \in Lists : lookup'[d].at = "fetched" => Excused(lookup'[d].value)
  <2>1. PICK q \in LookupRow : lookup' = [lookup EXCEPT ![c] = q] /\ (q.at = "fetched" => q.value = tableVersion)
    BY <1>3
  <2>2. lookup' \in [Lists -> LookupRow] /\ lookup'[c] = q /\ \A d \in Lists : d # c => lookup'[d] = lookup[d]
    BY <1>2, <2>1
  <2>3. QED
    BY <2>1, <2>2 DEF CacheHolds, Excused
<1>7. QED
  BY <1>1, <1>5, <1>6 DEF CacheHolds, Excused

\* What is fetched already is what an invalidation that arrives does not reach.
LEMMA InvalidationHolds ==
    ASSUME CacheHolds, invalidate
    PROVE  CacheHolds'
<1>1. tableVersion' = tableVersion /\ lookup' = lookup
  BY DEF invalidate
<1>2. CASE redisEntry' = Deleted(redisEntry) /\ raced' = InFlight
  <2>1. OldListsHaveACause'
    BY <1>2 DEF Deleted, OldListsHaveACause
  <2>2. \A c \in Lists : lookup[c].at = "fetched" => lookup[c].value \in raced'
    BY <1>2 DEF InFlight
  <2>3. QED
    BY <1>1, <2>1, <2>2 DEF CacheHolds, Excused
<1>3. CASE missed'
  BY <1>1, <1>3 DEF CacheHolds, Excused, OldListsHaveACause
<1>4. QED
  BY <1>2, <1>3 DEF invalidate

LEMMA CachedHaveCauses == CacheSpec => []CacheHolds
<1>1. ASSUME CacheHolds, [CacheNext]_cacheVars PROVE CacheHolds'
  <2>1. CASE Expire
    BY <1>1, <2>1 DEF CacheHolds, Excused, Expire, Absent, OldListsHaveACause
  <2>2. CASE WriteCategory
    BY <1>1, <2>2 DEF CacheHolds, Excused, WriteCategory, OldListsHaveACause
  <2>3. CASE UNCHANGED <<tableVersion, redisEntry, lookup, mustInvalidate, missed, raced>>
    BY <1>1, <2>3 DEF CacheHolds, Excused, OldListsHaveACause
  <2>4. QED
    BY <1>1, <2>1, <2>2, <2>3, LookupsHold, InvalidationHolds DEF CacheNext, cacheVars, RedisEvent
<1>2. QED
  BY <1>1, CacheStart, PTL DEF CacheSpec

-----------------------------------------------------------------------------
(* Powers of the radix.                                                      *)

\* The powers up to the k-th.
Powers(h, k) == h = [n \in 0 .. k |-> IF n = 0 THEN 1 ELSE Radix * h[n - 1]]

LEMMA PowersUpTo == \A k \in Nat : \E h : Powers(h, k)
<1> DEFINE N == {k \in Nat : \E h : Powers(h, k)}
<1>1. 0 \in N
  <2>1. PICK h : h = [n \in 0 .. 0 |-> 1]
    OBVIOUS
  <2>2. h = [n \in 0 .. 0 |-> IF n = 0 THEN 1 ELSE Radix * h[n - 1]]
    BY <2>1
  <2>3. QED
    BY <2>2 DEF Powers
<1>2. ASSUME NEW k \in N PROVE k + 1 \in N
  <2>1. PICK h : h = [n \in 0 .. k |-> IF n = 0 THEN 1 ELSE Radix * h[n - 1]]
    BY DEF Powers
  <2>2. PICK g : g = [n \in 0 .. k + 1 |-> IF n = k + 1 THEN Radix * h[k] ELSE h[n]]
    OBVIOUS
  <2>3. \A n \in 0 .. k + 1 : g[n] = IF n = 0 THEN 1 ELSE Radix * g[n - 1]
    <3> SUFFICES ASSUME NEW n \in 0 .. k + 1 PROVE g[n] = IF n = 0 THEN 1 ELSE Radix * g[n - 1]
      OBVIOUS
    <3>1. CASE n = k + 1
      <4>1. g[n] = Radix * h[k] /\ g[k] = h[k] /\ n - 1 = k /\ n # 0
        BY <2>2, <3>1
      <4>2. QED
        BY <4>1
    <3>2. CASE n # k + 1 /\ n # 0
      <4>1. n \in 0 .. k /\ n - 1 \in 0 .. k /\ n - 1 # k + 1
        BY <3>2
      <4>2. g[n] = h[n] /\ g[n - 1] = h[n - 1]
        BY <2>2, <3>2, <4>1
      <4>3. QED
        BY <2>1, <3>2, <4>1, <4>2
    <3>3. CASE n = 0
      <4>1. 0 \in 0 .. k /\ 0 # k + 1
        OBVIOUS
      <4>2. g[0] = h[0] /\ h[0] = 1
        BY <2>1, <2>2, <4>1
      <4>3. QED
        BY <3>3, <4>2
    <3>4. QED
      BY <3>1, <3>2, <3>3
  <2>4. DOMAIN g = 0 .. k + 1
    BY <2>2
  <2>5. g = [n \in 0 .. k + 1 |-> IF n = 0 THEN 1 ELSE Radix * g[n - 1]]
    BY <2>2, <2>3, <2>4
  <2>6. QED
    BY <2>5 DEF Powers
<1>3. N = Nat
  BY <1>1, <1>2, NaturalsByInduction
<1>4. QED
  BY <1>3

\* They are the same however many follow.
LEMMA PowersAgree ==
    ASSUME NEW k \in Nat, NEW l \in Nat, NEW h, NEW g, Powers(h, k), Powers(g, l)
    PROVE  \A n \in Nat : n <= k /\ n <= l => h[n] = g[n]
<1> DEFINE N == {n \in Nat : n <= k /\ n <= l => h[n] = g[n]}
<1>1. /\ \A n \in 0 .. k : h[n] = IF n = 0 THEN 1 ELSE Radix * h[n - 1]
      /\ \A n \in 0 .. l : g[n] = IF n = 0 THEN 1 ELSE Radix * g[n - 1]
  BY DEF Powers
<1>2. 0 \in N
  BY <1>1
<1>3. ASSUME NEW n \in N PROVE n + 1 \in N
  <2> SUFFICES ASSUME n + 1 <= k, n + 1 <= l PROVE h[n + 1] = g[n + 1]
    OBVIOUS
  <2>1. h[n] = g[n] /\ n + 1 \in 0 .. k /\ n + 1 \in 0 .. l /\ n + 1 # 0 /\ (n + 1) - 1 = n
    OBVIOUS
  <2>2. h[n + 1] = Radix * h[n] /\ g[n + 1] = Radix * g[n]
    BY <1>1, <2>1
  <2>3. QED
    BY <2>1, <2>2
<1>4. N = Nat
  BY <1>2, <1>3, NaturalsByInduction
<1>5. QED
  BY <1>4

\* The recursion defines the powers.
LEMMA PowerTurns == Power[0] = 1 /\ \A n \in Nat : Power[n + 1] = Radix * Power[n]
<1> DEFINE H(n) == CHOOSE h : Powers(h, n)
<1>1. \A n \in Nat : Powers(H(n), n)
  BY PowersUpTo
<1>2. PICK f : f = [n \in Nat |-> H(n)[n]]
  OBVIOUS
<1>3. f[0] = 1
  <2>1. Powers(H(0), 0)
    BY <1>1
  <2>2. H(0)[0] = 1
    BY <2>1 DEF Powers
  <2>3. QED
    BY <1>2, <2>2
<1>4. ASSUME NEW n \in Nat PROVE f[n + 1] = Radix * f[n]
  <2>1. PICK g : g = H(n + 1)
    OBVIOUS
  <2>2. PICK h : h = H(n)
    OBVIOUS
  <2>3. Powers(g, n + 1) /\ Powers(h, n)
    BY <1>1, <2>1, <2>2
  <2>4. g[n + 1] = Radix * g[n]
    <3>1. n + 1 \in 0 .. n + 1 /\ n + 1 # 0 /\ (n + 1) - 1 = n
      OBVIOUS
    <3>2. QED
      BY <2>3, <3>1 DEF Powers
  <2>5. g[n] = h[n]
    BY <2>3, PowersAgree
  <2>6. QED
    BY <1>2, <2>1, <2>2, <2>4, <2>5
<1>5. f = [n \in Nat |-> IF n = 0 THEN 1 ELSE Radix * f[n - 1]]
  <2>1. \A n \in Nat : f[n] = IF n = 0 THEN 1 ELSE Radix * f[n - 1]
    <3> SUFFICES ASSUME NEW n \in Nat, n # 0 PROVE f[n] = Radix * f[n - 1]
      BY <1>3
    <3>1. PICK m \in Nat : m = n - 1 /\ n = m + 1
      OBVIOUS
    <3>2. QED
      BY <1>4, <3>1
  <2>2. QED
    BY <1>2, <2>1
<1>6. Power = [n \in Nat |-> IF n = 0 THEN 1 ELSE Radix * Power[n - 1]]
  <2> HIDE DEF H
  <2> QED
    BY <1>5, Zenon DEF Power
<1>7. Power[0] = 1
  BY <1>6
<1>8. ASSUME NEW n \in Nat PROVE Power[n + 1] = Radix * Power[n]
  <2>1. n + 1 \in Nat /\ n + 1 # 0 /\ (n + 1) - 1 = n
    OBVIOUS
  <2>2. QED
    BY <1>6, <2>1
<1>9. QED
  BY <1>7, <1>8

LEMMA PowerIsPositive == \A n \in Nat : Power[n] \in Nat \ {0}
<1> DEFINE N == {n \in Nat : Power[n] \in Nat \ {0}}
<1>1. 0 \in N
  BY PowerTurns
<1>2. ASSUME NEW n \in N PROVE n + 1 \in N
  <2>1. PICK p \in Nat \ {0} : p = Power[n]
    OBVIOUS
  <2>2. PICK r \in Nat \ {0} : r = Radix
    BY AmountsAssumption
  <2>3. r * p \in Nat \ {0}
    OBVIOUS
  <2>4. Power[n + 1] = r * p
    BY <2>1, <2>2, PowerTurns
  <2>5. QED
    BY <2>3, <2>4
<1>3. N = Nat
  BY <1>1, <1>2, NaturalsByInduction
<1>4. QED
  BY <1>3

-----------------------------------------------------------------------------
(* Amounts shown.                                                            *)

\* What is displayed with all its places reads back (ExactAmount).
LEMMA DisplayedReadsBack == ASSUME NEW v \in Int PROVE fromHuman(toDisplay(v)) = v
<1>1. PICK p \in Nat \ {0} : p = Power[Decimals]
  BY PowerIsPositive, AmountsAssumption
<1>2. Power[Decimals - Decimals] = 1
  <2>1. Decimals - Decimals = 0
    BY AmountsAssumption
  <2>2. QED
    BY <2>1, PowerTurns
<1>3. PICK a \in Nat : a = Magnitude(v)
  BY DEF Magnitude
<1>4. PICK w \in Nat : w = a \div p
  OBVIOUS
<1>5. PICK f \in Nat : f = a % p
  OBVIOUS
<1>6. w * p + f = a
  BY <1>4, <1>5
<1>7. PICK t : t = [neg |-> v < 0, whole |-> w, fraction |-> f, places |-> Decimals]
  OBVIOUS
<1>8. toDisplay(v) = t
  BY <1>1, <1>3, <1>4, <1>5, <1>7 DEF toDisplay
<1>9. t.whole = w /\ t.fraction = f /\ t.places = Decimals /\ t.neg = (v < 0)
  BY <1>7
<1>10. t.whole * Power[Decimals] + t.fraction * Power[Decimals - t.places] = a
  <2>1. f * 1 = f
    OBVIOUS
  <2>2. QED
    BY <1>1, <1>2, <1>6, <1>9, <2>1
<1>11. fromHuman(t) = IF v < 0 THEN 0 - a ELSE a
  BY <1>9, <1>10 DEF fromHuman
<1>12. QED
  BY <1>3, <1>8, <1>11 DEF Magnitude

-----------------------------------------------------------------------------
(* Shares.                                                                   *)

\* The purse, the stakes, and the shares that were paid out of this purse.
AmountsHold ==
  /\ purse \in Int /\ stakes \in [Members -> Nat] /\ DOMAIN given \subseteq Members
  /\ DOMAIN given # {} => purse >= 0
  /\ \A m \in DOMAIN given : given[m] = proRataShare(purse, stakes[m], Whole)

\* The whole of a distribution is the sum of its stakes.
LEMMA WholeIsSum == Whole = SumFunctionOnSet(stakes, Members)
BY DEF Whole, MapThenSumSet, SumFunctionOnSet, FoldFunctionOnSet

LEMMA WholeStays == stakes' = stakes => Whole' = Whole
<1> SUFFICES ASSUME stakes' = stakes PROVE Whole' = Whole
  OBVIOUS
<1>1. Whole' = SumFunctionOnSet(stakes', Members)
  BY Zenon DEF Whole, MapThenSumSet, MapThenFoldSet, SumFunctionOnSet, FoldFunctionOnSet
<1>2. SumFunctionOnSet(stakes', Members) = SumFunctionOnSet(stakes, Members)
  OBVIOUS
<1>3. QED
  BY <1>1, <1>2, WholeIsSum

LEMMA TextsAreWhole ==
    ASSUME NEW t \in DecimalTexts, ~ TooManyDigits(t)
    PROVE  fromHuman(t) \in Int
<1>1. t.whole \in Nat /\ t.fraction \in Nat /\ t.places \in Nat /\ Decimals \in Nat
  BY AmountsAssumption
<1>2. PICK w \in Nat : w = t.whole
  BY <1>1
<1>3. PICK f \in Nat : f = t.fraction
  BY <1>1
<1>4. PICK p \in Nat \ {0} : p = Power[Decimals]
  BY <1>1, PowerIsPositive
<1>5. PICK q \in Nat \ {0} : q = Power[Decimals - t.places]
  <2>1. Decimals - t.places \in Nat
    BY <1>1 DEF TooManyDigits
  <2>2. QED
    BY <2>1, PowerIsPositive
<1>6. w * p + f * q \in Int
  OBVIOUS
<1>7. t.whole * Power[Decimals] + t.fraction * Power[Decimals - t.places] \in Int
  BY <1>2, <1>3, <1>4, <1>5, <1>6
<1>8. QED
  BY <1>7 DEF fromHuman

\* A distribution ends when the purse changes.
LEMMA PurseSet ==
    ASSUME AmountsHold, NEW v \in Int, InPurse(v)
    PROVE  AmountsHold'
<1>1. DOMAIN given' = {}
  BY DEF InPurse
<1>2. QED
  BY <1>1 DEF AmountsHold, InPurse

LEMMA AmountsStep ==
    ASSUME AmountsHold, [AmountNext]_amountVars
    PROVE  AmountsHold'
<1>1. ASSUME UNCHANGED <<purse, stakes, given>> PROVE AmountsHold'
  <2>1. Whole' = Whole
    BY <1>1, WholeStays
  <2>2. QED
    BY <1>1, <2>1 DEF AmountsHold
<1>2. ASSUME NEW why, Refused(why) PROVE AmountsHold'
  BY <1>1, <1>2 DEF Refused
<1>3. ASSUME NEW p \in Payloads, NEW sign \in {1, -1}, AddPayload(p, sign) PROVE AmountsHold'
  <2>1. PICK r \in Int : r = p.raw
    BY AmountsAssumption
  <2>2. purse + sign * r \in Int
    BY DEF AmountsHold
  <2>3. QED
    BY <1>2, <1>3, <2>1, <2>2, PurseSet DEF AddPayload
<1>4. ASSUME NEW t \in DecimalTexts, AddTyped(t) PROVE AmountsHold'
  <2>1. ~ TooManyDigits(t) => purse + fromHuman(t) \in Int
    BY TextsAreWhole DEF AmountsHold
  <2>2. QED
    BY <1>2, <1>4, <2>1, PurseSet DEF AddTyped
<1>5. ASSUME NEW s \in Scalars, mulScalar(s) \/ divScalar(s) PROVE AmountsHold'
  <2>1. PICK r \in Nat : r = RoundedScalar(s)
    BY AmountsAssumption DEF RoundedScalar
  <2>2. purse * r \in Int
    BY DEF AmountsHold
  <2>3. r # 0 => BigIntDiv(purse, r) \in Int
    <3> SUFFICES ASSUME r # 0 PROVE BigIntDiv(purse, r) \in Int
      OBVIOUS
    <3>1. PICK a \in Nat : a = Magnitude(purse)
      BY DEF Magnitude, AmountsHold
    <3>2. Magnitude(r) = r
      BY DEF Magnitude
    <3>3. a \div r \in Int
      OBVIOUS
    <3>4. QED
      BY <3>1, <3>2, <3>3 DEF BigIntDiv
  <2>4. QED
    BY <1>2, <1>5, <2>1, <2>2, <2>3, PurseSet DEF mulScalar, divScalar
<1>6. ASSUME NEW m \in Members, PayShare(m) PROVE AmountsHold'
  <2>1. /\ purse >= 0 /\ UNCHANGED <<purse, purseAsset, refusal, stakes>>
        /\ given' = [k \in DOMAIN given \cup {m} |->
                       IF k = m THEN proRataShare(purse, stakes[m], Whole) ELSE given[k]]
    BY <1>6 DEF PayShare
  <2>2. Whole' = Whole
    BY <2>1, WholeStays
  <2>3. DOMAIN given' \subseteq Members
    BY <2>1 DEF AmountsHold
  <2>4. \A k \in DOMAIN given' : given'[k] = proRataShare(purse, stakes[k], Whole)
    BY <2>1 DEF AmountsHold
  <2>5. \A k \in DOMAIN given' : given'[k] = proRataShare(purse', stakes'[k], Whole')
    BY <2>1, <2>2, <2>4
  <2>6. purse' \in Int /\ stakes' \in [Members -> Nat] /\ purse' >= 0
    BY <2>1 DEF AmountsHold
  <2>7. QED
    BY <2>3, <2>5, <2>6 DEF AmountsHold
<1>7. CASE UNCHANGED amountVars
  BY <1>1, <1>7 DEF amountVars
<1>8. QED
  BY <1>3, <1>4, <1>5, <1>6, <1>7 DEF AmountNext

LEMMA AmountsStay == AmountSpec => []AmountsHold
<1>1. AmountInit => AmountsHold
  <2> SUFFICES ASSUME AmountInit PROVE AmountsHold
    OBVIOUS
  <2>1. stakes \in [Members -> Nat]
    BY AmountsAssumption DEF AmountInit
  <2>2. DOMAIN given = {} /\ purse = 0
    BY DEF AmountInit
  <2>3. QED
    BY <2>1, <2>2 DEF AmountsHold
<1>2. QED
  BY <1>1, AmountsStep, PTL DEF AmountSpec

\* A share is its part of the purse, rounded down.
LEMMA ShareIsPart ==
    ASSUME NEW p \in Nat, NEW s \in Nat, NEW w \in Nat \ {0}
    PROVE  /\ proRataShare(p, s, w) \in Nat
           /\ w * proRataShare(p, s, w) <= p * s
           /\ p * s < w * proRataShare(p, s, w) + w
<1>1. PICK a \in Nat : a = p * s
  OBVIOUS
<1>2. Magnitude(a) = a /\ Magnitude(w) = w /\ ~ (a < 0) /\ ~ (w < 0)
  BY DEF Magnitude
<1>3. PICK q \in Nat : q = a \div w
  OBVIOUS
<1>4. w * q <= a /\ a < w * q + w
  BY <1>3
<1>5. BigIntDiv(a, w) = q
  BY <1>2, <1>3 DEF BigIntDiv
<1>6. ~ (w <= 0 \/ s < 0)
  OBVIOUS
<1>7. proRataShare(p, s, w) = q
  BY <1>1, <1>5, <1>6 DEF proRataShare
<1>8. QED
  BY <1>1, <1>4, <1>7

\* Shares of any set of members, together: at most their part of the purse, and
\* less than one minor unit short for each of them.
LEMMA SharesAddUp ==
    ASSUME NEW D, IsFiniteSet(D), NEW p \in Nat, NEW w \in Nat \ {0},
           NEW g \in [D -> Nat], NEW s \in [D -> Nat],
           \A m \in D : w * g[m] <= p * s[m] /\ p * s[m] < w * g[m] + w
    PROVE  /\ SumFunctionOnSet(g, D) \in Nat /\ SumFunctionOnSet(s, D) \in Nat
           /\ w * SumFunctionOnSet(g, D) <= p * SumFunctionOnSet(s, D)
           /\ p * SumFunctionOnSet(s, D) <= w * SumFunctionOnSet(g, D) + (w - 1) * Cardinality(D)
<1> DEFINE Fair(T) == /\ SumFunctionOnSet(g, T) \in Nat /\ SumFunctionOnSet(s, T) \in Nat
                      /\ w * SumFunctionOnSet(g, T) <= p * SumFunctionOnSet(s, T)
                      /\ p * SumFunctionOnSet(s, T) <= w * SumFunctionOnSet(g, T) + (w - 1) * Cardinality(T)
<1> DEFINE P == {T \in SUBSET D : Fair(T)}
<1>1. ASSUME NEW T \in SUBSET D, \A m \in T : T \ {m} \in P PROVE T \in P
  <2>1. IsFiniteSet(T) /\ Cardinality(T) \in Nat
    BY FS_Subset, FS_CardinalityType
  <2>2. CASE T = {}
    <3>1. SumFunctionOnSet(g, T) = 0 /\ SumFunctionOnSet(s, T) = 0 /\ Cardinality(T) = 0
      BY <2>1, <2>2, SumTurns, FS_EmptySet
    <3>2. w * 0 = 0 /\ p * 0 = 0 /\ (w - 1) * 0 = 0
      OBVIOUS
    <3>3. QED
      BY <3>1, <3>2
  <2>3. CASE T # {}
    <3>1. PICK m \in T : TRUE
      BY <2>3
    <3>2. PICK U \in SUBSET D : U = T \ {m}
      OBVIOUS
    <3>3. Fair(U)
      BY <1>1, <3>1, <3>2
    <3>4. PICK G \in Nat : G = SumFunctionOnSet(g, U)
      BY <3>3
    <3>5. PICK S \in Nat : S = SumFunctionOnSet(s, U)
      BY <3>3
    <3>6. PICK n \in Nat : n = Cardinality(U) /\ Cardinality(T) = n + 1
      <4>1. Cardinality(U) = Cardinality(T) - 1 /\ IsFiniteSet(U)
        BY <2>1, <3>1, <3>2, FS_RemoveElement
      <4>2. Cardinality(U) \in Nat
        BY <4>1, FS_CardinalityType
      <4>3. QED
        BY <2>1, <4>1, <4>2
    <3>7. PICK a \in Nat : a = g[m]
      BY <3>1
    <3>8. PICK b \in Nat : b = s[m]
      BY <3>1
    <3>9. SumFunctionOnSet(g, T) = a + G
      <4>1. \A k \in D : g[k] \in Int
        OBVIOUS
      <4>2. QED
        BY <3>1, <3>2, <3>4, <3>7, <4>1, SumRemove
    <3>10. SumFunctionOnSet(s, T) = b + S
      <4>1. \A k \in D : s[k] \in Int
        OBVIOUS
      <4>2. QED
        BY <3>1, <3>2, <3>5, <3>8, <4>1, SumRemove
    <3>11. w * G <= p * S /\ p * S <= w * G + (w - 1) * n
      BY <3>3, <3>4, <3>5, <3>6
    <3>12. w * a <= p * b /\ p * b < w * a + w
      BY <3>1, <3>7, <3>8
    <3>13. /\ w * (a + G) = w * a + w * G /\ p * (b + S) = p * b + p * S
           /\ (w - 1) * (n + 1) = (w - 1) * n + (w - 1)
      OBVIOUS
    <3>14. PICK wa \in Nat, wG \in Nat, pb \in Nat, pS \in Nat, wn \in Nat :
             wa = w * a /\ wG = w * G /\ pb = p * b /\ pS = p * S /\ wn = (w - 1) * n
      <4>1. w - 1 \in Nat
        OBVIOUS
      <4>2. w * a \in Nat /\ w * G \in Nat /\ p * b \in Nat /\ p * S \in Nat /\ (w - 1) * n \in Nat
        BY <4>1
      <4>3. QED
        BY <4>2
    <3>15. wa + wG <= pb + pS /\ pb + pS <= (wa + wG) + (wn + (w - 1))
      BY <3>11, <3>12, <3>14
    <3>16. w * (a + G) <= p * (b + S) /\ p * (b + S) <= w * (a + G) + (w - 1) * (n + 1)
      BY <3>13, <3>14, <3>15
    <3>17. Fair(T)
      BY <3>6, <3>9, <3>10, <3>16
    <3>18. QED
      BY <3>17
  <2>4. QED
    BY <2>2, <2>3
<1>2. P \in SUBSET (SUBSET D)
  OBVIOUS
<1>3. \A T \in SUBSET D : T \in P
  <2> HIDE DEF P
  <2> QED
    BY <1>1, <1>2, SubsetsByRemoval
<1>4. D \in P
  BY <1>3
<1>5. QED
  BY <1>4

\* What the shares leave of the purse, from the bounds on their sum.
LEMMA RestIsSmall ==
    ASSUME NEW p \in Nat, NEW w \in Nat \ {0}, NEW G \in Nat, NEW n \in Nat
    PROVE  /\ w * G <= p * w => G <= p
           /\ n > 0 /\ p * w <= w * G + (w - 1) * n => p - G < n
<1>1. ASSUME w * G <= p * w, ~ (G <= p) PROVE FALSE
  <2>1. PICK d \in Nat \ {0} : G = p + d
    <3>1. G - p \in Nat \ {0} /\ G = p + (G - p)
      BY <1>1
    <3>2. QED
      BY <3>1
  <2>2. w * (p + d) = p * w + w * d
    OBVIOUS
  <2>3. w * d > 0
    OBVIOUS
  <2>4. QED
    BY <1>1, <2>1, <2>2, <2>3
<1>2. ASSUME n > 0, p * w <= w * G + (w - 1) * n, ~ (p - G < n) PROVE FALSE
  <2>1. PICK d \in Nat : p = G + n + d
    <3>1. p - G - n \in Nat /\ p = G + n + (p - G - n)
      BY <1>2
    <3>2. QED
      BY <3>1
  <2>2. (G + n + d) * w = w * G + w * n + w * d /\ (w - 1) * n = w * n - n
    OBVIOUS
  <2>3. PICK x \in Nat, y \in Nat, z \in Nat : x = w * G /\ y = w * n /\ z = w * d
    <3>1. w * G \in Nat /\ w * n \in Nat /\ w * d \in Nat
      OBVIOUS
    <3>2. QED
      BY <3>1
  <2>4. x + y + z <= x + (y - n)
    BY <1>2, <2>1, <2>2, <2>3
  <2>5. QED
    BY <1>2, <2>4
<1>3. QED
  BY <1>1, <1>2

\* The shares fit in the purse and, paid to all, leave less than one minor unit
\* for each member.
LEMMA SharesAreCovered == AmountsHold => SharesFit
<1> SUFFICES ASSUME AmountsHold PROVE SharesFit
  OBVIOUS
<1>1. PICK D \in SUBSET Members : D = DOMAIN given
  BY DEF AmountsHold
<1>2. IsFiniteSet(Members) /\ IsFiniteSet(D)
  BY AmountsAssumption, FS_Subset
<1>3. PICK paid : paid = SumFunctionOnSet(given, D)
  OBVIOUS
<1>4. MapThenSumSet(LAMBDA m : given[m], DOMAIN given) = paid
  BY <1>1, <1>3 DEF MapThenSumSet, SumFunctionOnSet, FoldFunctionOnSet
<1>5. PICK s \in [Members -> Nat] : s = stakes
  BY DEF AmountsHold
<1>6. PICK w \in Nat : w = Whole /\ w = SumFunctionOnSet(s, Members)
  <2>1. DOMAIN s = Members /\ SumFunction(s) \in Nat
    BY <1>2, SumNatural
  <2>2. QED
    BY <1>5, <2>1, WholeIsSum DEF SumFunction
<1>7. PICK v \in Int : v = purse
  BY DEF AmountsHold
<1>8. SUFFICES /\ paid <= Magnitude(v)
               /\ D = Members /\ w > 0 => v - paid < Cardinality(Members)
  BY <1>1, <1>4, <1>6, <1>7 DEF SharesFit
<1>9. CASE D = {}
  <2>1. paid = 0
    BY <1>2, <1>3, <1>9, SumTurns
  <2>2. D = Members => w = 0
    BY <1>2, <1>6, <1>9, SumTurns
  <2>3. QED
    BY <2>1, <2>2 DEF Magnitude
<1>10. CASE D # {}
  <2>1. v \in Nat /\ Magnitude(v) = v /\ \A m \in D : given[m] = proRataShare(v, s[m], w)
    BY <1>1, <1>5, <1>6, <1>7, <1>10 DEF AmountsHold, Magnitude
  <2>2. CASE w = 0
    <3>1. \A m \in D : given[m] \in Int /\ given[m] <= 0
      BY <2>1, <2>2 DEF proRataShare
    <3>2. PICK z : z = [m \in D |-> 0]
      OBVIOUS
    <3>3. z \in [D -> Nat] /\ DOMAIN z = D /\ \A m \in D : z[m] = 0
      BY <3>2
    <3>4. SumFunctionOnSet(z, D) = 0
      BY <1>2, <3>3, SumNatural DEF SumFunction
    <3>5. SumFunctionOnSet(given, D) <= SumFunctionOnSet(z, D)
      BY <1>2, <3>1, <3>3, SumWithin
    <3>6. SumFunctionOnSet(given, D) \in Int
      BY <1>2, <3>1, SumType
    <3>7. QED
      BY <1>3, <2>1, <2>2, <3>4, <3>5, <3>6
  <2>3. CASE w # 0
    <3>1. PICK g : g = [m \in D |-> proRataShare(v, s[m], w)]
      OBVIOUS
    <3>2. PICK r : r = [m \in D |-> s[m]]
      OBVIOUS
    <3>3. \A m \in D : s[m] \in Nat /\ r[m] = s[m] /\ g[m] = proRataShare(v, s[m], w)
      BY <3>1, <3>2
    <3>4. \A m \in D : g[m] \in Nat /\ w * g[m] <= v * r[m] /\ v * r[m] < w * g[m] + w
      BY <2>1, <2>3, <3>3, ShareIsPart
    <3>5. g \in [D -> Nat] /\ r \in [D -> Nat]
      BY <3>1, <3>2, <3>3, <3>4
    <3>6. PICK G \in Nat : G = SumFunctionOnSet(g, D)
      BY <1>2, <2>1, <2>3, <3>4, <3>5, SharesAddUp
    <3>7. PICK S \in Nat : S = SumFunctionOnSet(r, D)
      BY <1>2, <2>1, <2>3, <3>4, <3>5, SharesAddUp
    <3>8. PICK n \in Nat : n = Cardinality(D) /\ n > 0
      <4>1. Cardinality(D) \in Nat /\ Cardinality(D) # 0
        BY <1>2, <1>10, FS_CardinalityType, FS_EmptySet
      <4>2. QED
        BY <4>1
    <3>9. w * G <= v * S /\ v * S <= w * G + (w - 1) * n
      BY <1>2, <2>1, <2>3, <3>4, <3>5, <3>6, <3>7, <3>8, SharesAddUp
    <3>10. paid = G
      <4>1. \A m \in D : given[m] \in Int /\ g[m] \in Int /\ given[m] <= g[m] /\ g[m] <= given[m]
        BY <2>1, <3>3, <3>4
      <4>2. SumFunctionOnSet(given, D) <= SumFunctionOnSet(g, D) /\ SumFunctionOnSet(g, D) <= SumFunctionOnSet(given, D)
        BY <1>2, <4>1, SumMonotone
      <4>3. SumFunctionOnSet(given, D) \in Int
        BY <1>2, <4>1, SumType
      <4>4. QED
        BY <1>3, <3>6, <4>2, <4>3
    <3>11. S <= w
      <4>1. \A m \in D : r[m] \in Int /\ r[m] <= s[m]
        BY <3>3
      <4>2. SumFunctionOnSet(r, D) <= SumFunctionOnSet(s, Members)
        BY <1>2, <4>1, SumWithin
      <4>3. QED
        BY <1>6, <3>7, <4>2
    <3>12. v * S <= v * w
      <4>1. PICK d \in Nat : w = S + d
        <5>1. w - S \in Nat /\ w = S + (w - S)
          BY <3>11
        <5>2. QED
          BY <5>1
      <4>2. v * (S + d) = v * S + v * d /\ v * d >= 0
        BY <2>1
      <4>3. v * S \in Nat
        BY <2>1
      <4>4. QED
        BY <4>1, <4>2, <4>3
    <3>13. G <= v
      <4>1. w * G \in Nat /\ v * S \in Nat /\ v * w \in Nat
        BY <2>1
      <4>2. w * G <= v * w
        BY <3>9, <3>12, <4>1
      <4>3. QED
        BY <2>1, <2>3, <4>2, RestIsSmall
    <3>14. ASSUME D = Members PROVE v - G < n
      <4>1. r = s
        BY <3>2, <3>14
      <4>2. v * w <= w * G + (w - 1) * n
        BY <1>6, <3>7, <3>9, <3>14, <4>1
      <4>3. QED
        BY <2>1, <2>3, <3>8, <4>2, RestIsSmall
    <3>15. QED
      BY <2>1, <3>8, <3>10, <3>13, <3>14
  <2>4. QED
    BY <2>2, <2>3
<1>11. QED
  BY <1>9, <1>10

\* What is read is what was written: a value that authorizes was on chain in
\* the freshness window, a walk over the pages leaves no row out and repeats
\* none, but for the rows a list of submitted actions loses, nothing is claimable
\* that no event paid, an old list is cached for one of the causes the cache
\* knows, and amounts survive display and division (criticalReadPolicy.ts,
\* ledger.ts, cacheService.ts, safe-amount.ts).
THEOREM ReadsStayTrue == ViewSpec /\ CriticalSpec /\ CacheSpec /\ AmountSpec => []ReadsAreTrue
<1>1. RowsHold /\ WalkHolds /\ CriticalHolds /\ CacheHolds /\ AmountsHold => ReadsAreTrue
  <2> SUFFICES ASSUME RowsHold, WalkHolds, CriticalHolds, CacheHolds, AmountsHold PROVE ReadsAreTrue
    OBVIOUS
  <2>1. PagesCoverTheWalk /\ ClaimableWasPaid /\ SharesFit
    BY WalkCovers, ClaimsWerePaid, SharesAreCovered
  <2>2. AuthorizedWasTrue /\ OldListsHaveACause /\ purse \in Int
    BY DEF CriticalHolds, CacheHolds, AmountsHold
  <2>3. DisplayReadsBack
    BY <2>2, DisplayedReadsBack DEF DisplayReadsBack
  <2>4. QED
    BY <2>1, <2>2, <2>3 DEF ReadsAreTrue
<1>2. QED
  BY <1>1, RowsAreTyped, WalksHold, CriticalReadsHold, CachedHaveCauses, AmountsStay, PTL

-----------------------------------------------------------------------------
(* Reminders.                                                                *)

ReminderCall ==
  [op : {"idle", "find", "check", "insert", "prefs"}, todo : SUBSET ReminderTypes, want : SUBSET ReminderTypes,
   missing : SUBSET ReminderTypes]

\* What a sweep is about to insert is part of what it works on.
SweepHolds(c) == IF c.op = "insert" THEN c.missing \subseteq c.todo ELSE c.missing = {}

RemindersHold ==
  /\ note \in [ReminderTypes -> {"none", "open", "dismissed"}] /\ notes \in [ReminderTypes -> Nat]
  /\ disabled \subseteq ReminderTypes
  /\ reminding \in [Reminding -> ReminderCall] /\ \A r \in Reminding : SweepHolds(reminding[r])
  /\ RemindedOnce

LEMMA NoRemindingRests == NoReminding \in ReminderCall /\ SweepHolds(NoReminding)
BY DEF NoReminding, ReminderCall, SweepHolds

\* A call that moves and writes nothing else.
LEMMA SweepMoves ==
    ASSUME RemindersHold, NEW r \in Reminding, NEW c \in ReminderCall, SweepHolds(c),
           reminding' = [reminding EXCEPT ![r] = c],
           UNCHANGED <<note, notes>>, disabled' \subseteq ReminderTypes
    PROVE  RemindersHold'
<1>1. reminding' \in [Reminding -> ReminderCall] /\ \A s \in Reminding : SweepHolds(reminding[s])'
  BY DEF RemindersHold, SweepHolds
<1>2. QED
  BY <1>1 DEF RemindersHold, RemindedOnce

LEMMA SweepStarts ==
    ASSUME RemindersHold, NEW r \in Reminding, generateReminders_find(r) \/ setReminderTypeEnabled_read(r)
    PROVE  RemindersHold'
<1>1. CASE generateReminders_find(r)
  <2>1. PICK d \in SUBSET ReminderTypes : d = {t \in ReminderTypes : Due(t)}
    OBVIOUS
  <2>2. PICK c \in ReminderCall : c = [NoReminding EXCEPT !.op = "find", !.todo = d] /\ c.op = "find" /\ c.missing = {}
    <3>1. [NoReminding EXCEPT !.op = "find", !.todo = d] \in ReminderCall
      BY DEF NoReminding, ReminderCall
    <3>2. [NoReminding EXCEPT !.op = "find", !.todo = d].op = "find"
          /\ [NoReminding EXCEPT !.op = "find", !.todo = d].missing = {}
      BY DEF NoReminding
    <3>3. QED
      BY <3>1, <3>2
  <2>3. SweepHolds(c)
    BY <2>2 DEF SweepHolds
  <2>4. QED
    BY <1>1, <2>1, <2>2, <2>3, SweepMoves DEF generateReminders_find, RemindStart, RemindersHold
<1>2. CASE setReminderTypeEnabled_read(r)
  <2>1. PICK t \in ReminderTypes, on \in BOOLEAN :
          RemindStart(r, [NoReminding EXCEPT !.op = "prefs", !.want = IF on THEN disabled \ {t} ELSE disabled \cup {t}])
    BY <1>2 DEF setReminderTypeEnabled_read
  <2>2. PICK w \in SUBSET ReminderTypes : w = IF on THEN disabled \ {t} ELSE disabled \cup {t}
    BY DEF RemindersHold
  <2>3. PICK c \in ReminderCall : c = [NoReminding EXCEPT !.op = "prefs", !.want = w] /\ c.op = "prefs" /\ c.missing = {}
    <3>1. [NoReminding EXCEPT !.op = "prefs", !.want = w] \in ReminderCall
      BY DEF NoReminding, ReminderCall
    <3>2. [NoReminding EXCEPT !.op = "prefs", !.want = w].op = "prefs"
          /\ [NoReminding EXCEPT !.op = "prefs", !.want = w].missing = {}
      BY DEF NoReminding
    <3>3. QED
      BY <3>1, <3>2
  <2>4. SweepHolds(c)
    BY <2>3 DEF SweepHolds
  <2>5. QED
    BY <1>2, <2>1, <2>2, <2>3, <2>4, SweepMoves DEF setReminderTypeEnabled_read, RemindStart, RemindersHold
<1>3. QED
  BY <1>1, <1>2

LEMMA SweepIsOver ==
    ASSUME RemindersHold, NEW r \in Reminding, generateReminders_end(r) \/ setReminderTypeEnabled_write(r)
    PROVE  RemindersHold'
<1>1. reminding' = [reminding EXCEPT ![r] = NoReminding] /\ UNCHANGED <<note, notes>>
  BY DEF generateReminders_end, setReminderTypeEnabled_write, RemindEnd
<1>2. reminding[r] \in ReminderCall
  BY DEF RemindersHold
<1>3. disabled' \subseteq ReminderTypes
  BY <1>2 DEF generateReminders_end, setReminderTypeEnabled_write, RemindersHold, ReminderCall
<1>4. QED
  BY <1>1, <1>3, NoRemindingRests, SweepMoves

LEMMA SweepReadsPrefs ==
    ASSUME RemindersHold, NEW r \in Reminding, generateReminders_prefs(r)
    PROVE  RemindersHold'
<1>1. PICK c \in ReminderCall : c = reminding[r]
  BY DEF RemindersHold
<1>3. PICK w \in SUBSET ReminderTypes : w = c.todo \ disabled
  BY DEF ReminderCall
<1>4. c.missing = {}
  BY <1>1 DEF RemindersHold, SweepHolds, generateReminders_prefs
<1>5. PICK q \in ReminderCall :
        /\ q = [c EXCEPT !.op = "check", !.todo = w]
        /\ q.op = "check" /\ q.todo = w /\ q.missing = {}
  <2>1. [c EXCEPT !.op = "check", !.todo = w] \in ReminderCall
    BY DEF ReminderCall
  <2>2. PICK q : q = [c EXCEPT !.op = "check", !.todo = w]
    OBVIOUS
  <2>3. q.op = "check" /\ q.todo = w /\ q.missing = c.missing
    BY <2>2 DEF ReminderCall
  <2>4. QED
    BY <1>4, <2>1, <2>2, <2>3
<1>6. SweepHolds(q)
  BY <1>3, <1>5 DEF SweepHolds
<1>7. reminding' = [reminding EXCEPT ![r] = q] /\ UNCHANGED <<note, notes, disabled>>
  BY <1>1, <1>3, <1>5 DEF generateReminders_prefs, Wanted
<1>8. QED
  BY <1>6, <1>7, SweepMoves DEF RemindersHold

\* A type that has its notification is left out, another one is inserted next.
LEMMA SweepLooks ==
    ASSUME RemindersHold, NEW r \in Reminding, NEW t \in ReminderTypes, createIfMissing_find(r, t)
    PROVE  RemindersHold'
<1>1. PICK c \in ReminderCall : c = reminding[r] /\ SweepHolds(c)
  BY DEF RemindersHold
<1>2. c.op = "check" /\ t \in c.todo /\ UNCHANGED <<note, notes, disabled>>
  BY <1>1 DEF createIfMissing_find
<1>3. c.missing = {}
  BY <1>1, <1>2 DEF SweepHolds
<1>4. CASE note[t] = "none"
  <2>1. PICK m \in SUBSET ReminderTypes : m = {t}
    OBVIOUS
  <2>2. PICK q : q = [c EXCEPT !.op = "insert", !.missing = m]
    OBVIOUS
  <2>3. q \in ReminderCall
    BY <2>2 DEF ReminderCall
  <2>4. q.op = "insert" /\ q.todo = c.todo /\ q.missing = m
    BY <2>2 DEF ReminderCall
  <2>5. SweepHolds(q)
    BY <1>2, <1>3, <2>1, <2>4 DEF SweepHolds
  <2>6. reminding' = [reminding EXCEPT ![r] = q]
    BY <1>1, <1>4, <2>1, <2>2 DEF createIfMissing_find
  <2>7. QED
    BY <1>2, <2>3, <2>5, <2>6, SweepMoves DEF RemindersHold
<1>5. CASE note[t] # "none"
  <2>1. PICK w \in SUBSET ReminderTypes : w = c.todo \ {t}
    BY DEF ReminderCall
  <2>2. PICK q : q = [c EXCEPT !.todo = w]
    OBVIOUS
  <2>3. q \in ReminderCall
    BY <2>2 DEF ReminderCall
  <2>4. q.op = c.op /\ q.todo = w /\ q.missing = c.missing
    BY <2>2 DEF ReminderCall
  <2>5. SweepHolds(q)
    BY <1>2, <1>3, <2>1, <2>4 DEF SweepHolds
  <2>6. reminding' = [reminding EXCEPT ![r] = q]
    BY <1>1, <1>5, <2>1, <2>2 DEF createIfMissing_find
  <2>7. QED
    BY <1>2, <2>3, <2>5, <2>6, SweepMoves DEF RemindersHold
<1>6. QED
  BY <1>4, <1>5

\* The unique key lets one insert through.
LEMMA SweepInserts ==
    ASSUME RemindersHold, NEW r \in Reminding, NEW t \in ReminderTypes, createIfMissing_insert(r, t)
    PROVE  RemindersHold'
<1>1. PICK c \in ReminderCall : c = reminding[r] /\ SweepHolds(c)
  BY DEF RemindersHold
<1>2. c.op = "insert" /\ disabled' = disabled
  BY <1>1 DEF createIfMissing_insert
<1>3. CASE note[t] = "none"
  <2>1. PICK w \in SUBSET ReminderTypes : w = c.todo \ {t}
    BY DEF ReminderCall
  <2>2. PICK q : q = [c EXCEPT !.op = "check", !.todo = w, !.missing = {}]
    OBVIOUS
  <2>3. q \in ReminderCall
    <3>1. PICK m \in SUBSET ReminderTypes : m = {}
      OBVIOUS
    <3>2. q = [c EXCEPT !.op = "check", !.todo = w, !.missing = m]
      BY <2>2, <3>1
    <3>3. QED
      BY <3>2 DEF ReminderCall
  <2>4. q.op = "check" /\ q.todo = w /\ q.missing = {}
    BY <2>2 DEF ReminderCall
  <2>5. SweepHolds(q)
    BY <1>1, <1>2, <2>1, <2>4 DEF SweepHolds
  <2>6. /\ reminding' = [reminding EXCEPT ![r] = q]
        /\ note' = [note EXCEPT ![t] = "open"] /\ notes' = [notes EXCEPT ![t] = notes[t] + 1]
    BY <1>1, <1>3, <2>1, <2>2 DEF createIfMissing_insert, UniqueKey
  <2>7. reminding' \in [Reminding -> ReminderCall] /\ \A s \in Reminding : SweepHolds(reminding[s])'
    BY <2>3, <2>5, <2>6 DEF RemindersHold, SweepHolds
  <2>8. PICK n \in [ReminderTypes -> Nat] : n = notes /\ n[t] = 0
    BY <1>3 DEF RemindersHold, RemindedOnce
  <2>9. notes' = [n EXCEPT ![t] = 1]
    BY <2>6, <2>8
  <2>10. note' \in [ReminderTypes -> {"none", "open", "dismissed"}] /\ notes' \in [ReminderTypes -> Nat]
    BY <2>6, <2>8, <2>9 DEF RemindersHold
  <2>11. RemindedOnce'
    BY <2>6, <2>8, <2>9 DEF RemindersHold, RemindedOnce
  <2>12. QED
    BY <1>2, <2>7, <2>10, <2>11 DEF RemindersHold
<1>4. CASE note[t] # "none"
  <2>1. reminding' = [reminding EXCEPT ![r] = NoReminding] /\ UNCHANGED <<note, notes>>
    BY <1>4 DEF createIfMissing_insert, UniqueKey, RemindEnd
  <2>2. QED
    BY <1>2, <2>1, NoRemindingRests, SweepMoves DEF RemindersHold
<1>5. QED
  BY <1>3, <1>4

LEMMA RemindersStep ==
    ASSUME RemindersHold, [ReminderNext]_reminderVars
    PROVE  RemindersHold'
<1>1. CASE UNCHANGED <<note, notes, disabled, reminding>>
  BY <1>1 DEF RemindersHold, RemindedOnce, SweepHolds
<1>2. ASSUME NEW t \in ReminderTypes, dismiss(t) PROVE RemindersHold'
  <2>1. note' = [note EXCEPT ![t] = "dismissed"] /\ note[t] = "open" /\ UNCHANGED <<notes, disabled, reminding>>
    BY <1>2 DEF dismiss
  <2>2. note' \in [ReminderTypes -> {"none", "open", "dismissed"}] /\ RemindedOnce'
    BY <2>1 DEF RemindersHold, RemindedOnce
  <2>3. QED
    BY <2>1, <2>2 DEF RemindersHold, SweepHolds
<1>3. CASE savePool \/ unsavePool
  BY <1>1, <1>3 DEF savePool, unsavePool
<1>4. QED
  BY <1>1, <1>2, <1>3, SweepStarts, SweepIsOver, SweepReadsPrefs, SweepLooks, SweepInserts
     DEF ReminderNext, reminderVars

LEMMA RemindersStayOnce == ReminderSpec => []RemindersHold
<1>1. ReminderInit => RemindersHold
  <2> SUFFICES ASSUME ReminderInit PROVE RemindersHold
    OBVIOUS
  <2>1. /\ note = [t \in ReminderTypes |-> "none"] /\ notes = [t \in ReminderTypes |-> 0] /\ disabled = {}
        /\ reminding = [r \in Reminding |-> NoReminding]
    BY DEF ReminderInit
  <2>2. QED
    BY <2>1, NoRemindingRests DEF RemindersHold, RemindedOnce
<1>2. QED
  BY <1>1, RemindersStep, PTL DEF ReminderSpec

-----------------------------------------------------------------------------
(* Backups.                                                                  *)

Dump == [name : Nat, mtime : Nat, content : {"nothing", "listed", "complete"}]

\* Every file is of a second of its own, not younger than its last write.
FilesHold ==
  /\ day \in Nat /\ dumps \subseteq Dump
  /\ \A d \in dumps : d.name <= d.mtime /\ d.mtime <= day
  /\ \A d, e \in dumps : d.name = e.name => d = e

\* The dump under way is the newest file; pruning follows one that completed the
\* same day; and with dumps settled the newest file is complete.
DumpHolds ==
  /\ dumping \in [pc : {"idle", "dumping", "pruning"}, name : Nat] /\ dumping.name <= day
  /\ dumping.pc # "idle" => \A d \in dumps : d.name <= dumping.name
  /\ dumping.pc = "pruning" =>
       \E d \in dumps : d.name = dumping.name /\ d.content = "complete" /\ d.mtime = day
  /\ Settled => \A d \in getLatestBackupFile : d.content = "complete"
  /\ RestorableBackupKept

\* The file a drill has chosen with dumps settled stays complete; one that is gone
\* does not come back under its name.
DrillHolds ==
  drill.pc = "verified" =>
    \E n \in Nat : /\ drill.file = {n} /\ n <= day
                   /\ drill.settled => \A d \in Named(n) : d.content = "complete"
                   /\ n = day => Named(n) # {}

BackupsHold ==
  /\ FilesHold /\ DumpHolds /\ DrillHolds
  /\ scratch \in Urls /\ HalfRestoresAreExcused /\ ProductionNeverRestored

\* A scratch database that passes for another one is another one.
LEMMA OtherDatabase ==
    ASSUME NEW u \in Urls, ~ isProductionDatabase(u)
    PROVE  buildPgRestoreArgs(u) # buildPgRestoreArgs(Production)
<1>1. /\ u.host \in {"omitted", "primary", "other"} /\ u.port \in {"omitted", "5432", "5433"}
      /\ u.db \in {"omitted", "vault", "scratch"}
  BY DEF Urls
<1>2. u.host # "primary" \/ u.db # "vault" \/ OrDefault(u.port, "5432") # "5432"
  BY DEF isProductionDatabase, Production, OrDefault
<1>3. OrDefault(u.host, "localhost") # "primary" \/ OrDefault(u.port, "5432") # "5432"
      \/ OrDefault(u.db, "postgres") # "vault"
  BY <1>1, <1>2 DEF OrDefault
<1>4. buildPgRestoreArgs(Production) = <<"primary", "5432", "vault">>
  BY DEF buildPgRestoreArgs, Production, OrDefault
<1>5. QED
  BY <1>3, <1>4 DEF buildPgRestoreArgs

LEMMA BackupsStart == BackupInit => BackupsHold
<1> SUFFICES ASSUME BackupInit PROVE BackupsHold
  OBVIOUS
<1>1. FilesHold
  BY DEF BackupInit, FilesHold
<1>2. DumpHolds
  BY DEF BackupInit, DumpHolds, RestorableBackupKept, getLatestBackupFile
<1>3. DrillHolds
  BY DEF BackupInit, DrillHolds, NoDrill
<1>4. QED
  BY <1>1, <1>2, <1>3 DEF BackupInit, BackupsHold, HalfRestoresAreExcused, ProductionNeverRestored

LEMMA DumpStarts ==
    ASSUME BackupsHold, run_start
    PROVE  BackupsHold'
<1>1. PICK n \in Dump : n = [name |-> day, mtime |-> day, content |-> "nothing"] /\ n.name = day /\ n.mtime = day
  <2>1. [name |-> day, mtime |-> day, content |-> "nothing"] \in Dump
    BY DEF BackupsHold, FilesHold, Dump
  <2>2. QED
    BY <2>1
<1>2. /\ dumps' = dumps \cup {n} /\ Named(day) = {} /\ dumping' = [pc |-> "dumping", name |-> day]
      /\ UNCHANGED <<day, drill, scratch, restored, everDumped, lastRun>>
  BY <1>1 DEF run_start
<1>3. \A d \in dumps : d.name # day
  BY <1>2 DEF Named
<1>4. FilesHold'
  <2>1. day' \in Nat /\ dumps' \subseteq Dump
    BY <1>1, <1>2 DEF BackupsHold, FilesHold
  <2>2. \A d \in dumps' : d = n \/ d \in dumps
    BY <1>2
  <2>3. \A d \in dumps' : d.name <= d.mtime /\ d.mtime <= day'
    BY <1>1, <1>2, <2>2 DEF BackupsHold, FilesHold
  <2>4. \A d, e \in dumps' : d.name = e.name => d = e
    BY <1>1, <1>3, <2>2 DEF BackupsHold, FilesHold
  <2>5. QED
    BY <2>1, <2>3, <2>4 DEF FilesHold
<1>5. DumpHolds'
  <2>1. dumping'.pc = "dumping" /\ dumping'.name = day
        /\ dumping' \in [pc : {"idle", "dumping", "pruning"}, name : Nat]
    BY <1>2 DEF BackupsHold, FilesHold
  <2>2. \A d \in dumps' : d.name <= day
    BY <1>1, <1>2 DEF BackupsHold, FilesHold, Dump
  <2>3. day \in Nat /\ RestorableBackupKept'
    BY <1>2 DEF BackupsHold, FilesHold, DumpHolds, RestorableBackupKept
  <2>4. QED
    BY <1>2, <2>1, <2>2, <2>3 DEF DumpHolds, Settled
<1>6. DrillHolds'
  <2>1. ASSUME NEW k \in Nat, k # day PROVE Named(k)' = Named(k)
    BY <1>1, <1>2, <2>1 DEF Named
  <2>2. QED
    BY <1>2, <2>1 DEF BackupsHold, DrillHolds
<1>7. QED
  BY <1>2, <1>4, <1>5, <1>6 DEF BackupsHold, HalfRestoresAreExcused, ProductionNeverRestored

\* The file under way is written to; no file a drill relies on.
LEMMA ContentsWritten ==
    ASSUME BackupsHold, WriteContents
    PROVE  BackupsHold'
<1>1. PICK m \in Nat : m = dumping.name /\ m <= day
  BY DEF BackupsHold, DumpHolds
<1>2. PICK o \in dumps : o.name = m /\ o.content = "nothing"
  BY <1>1 DEF WriteContents, Named
<1>3. PICK n \in Dump : n = [name |-> m, mtime |-> day, content |-> "listed"] /\ n.name = m /\ n.mtime = day
                       /\ n.content = "listed"
  <2>1. [name |-> m, mtime |-> day, content |-> "listed"] \in Dump
    BY DEF BackupsHold, FilesHold, Dump
  <2>2. QED
    BY <2>1
<1>4. /\ dumps' = (dumps \ Named(m)) \cup {n} /\ dumping.pc = "dumping"
      /\ UNCHANGED <<day, dumping, drill, scratch, restored, everDumped, lastRun>>
  BY <1>1, <1>3 DEF WriteContents
<1>5. \A d \in dumps' : d = n \/ (d \in dumps /\ d.name # m)
  BY <1>4 DEF Named
<1>6. FilesHold'
  <2>1. day' \in Nat /\ dumps' \subseteq Dump
    BY <1>3, <1>4 DEF BackupsHold, FilesHold
  <2>2. \A d \in dumps' : d.name <= d.mtime /\ d.mtime <= day'
    BY <1>1, <1>3, <1>4, <1>5 DEF BackupsHold, FilesHold
  <2>3. \A d, e \in dumps' : d.name = e.name => d = e
    BY <1>3, <1>5 DEF BackupsHold, FilesHold
  <2>4. QED
    BY <2>1, <2>2, <2>3 DEF FilesHold
<1>7. RestorableBackupKept'
  <2>1. ASSUME NEW d \in dumps, d.content = "complete" PROVE d \in dumps'
    <3>1. d.name # m
      BY <1>2, <2>1 DEF BackupsHold, FilesHold
    <3>2. QED
      BY <1>4, <3>1 DEF Named
  <2>2. QED
    BY <1>4, <2>1 DEF BackupsHold, DumpHolds, RestorableBackupKept
<1>8. DumpHolds'
  <2>1. \A d \in dumps' : d.name <= dumping.name
    BY <1>1, <1>3, <1>4, <1>5 DEF BackupsHold, DumpHolds
  <2>2. QED
    BY <1>4, <1>7, <2>1 DEF BackupsHold, DumpHolds, Settled
<1>9. DrillHolds'
  <2>1. ASSUME NEW k \in Nat PROVE Named(k) # {} => Named(k)' # {}
    <3>1. k # m => Named(k) \subseteq Named(k)'
      BY <1>4 DEF Named
    <3>2. k = m => n \in Named(k)'
      BY <1>3, <1>4 DEF Named
    <3>3. QED
      BY <3>1, <3>2
  <2>2. ASSUME NEW k \in Nat, \A d \in Named(k) : d.content = "complete"
        PROVE  \A d \in Named(k)' : d.content = "complete"
    <3>1. k # m
      BY <1>2, <2>2 DEF Named
    <3>2. Named(k)' \subseteq Named(k)
      BY <1>3, <1>5, <3>1 DEF Named
    <3>3. QED
      BY <2>2, <3>2
  <2>3. QED
    BY <1>4, <2>1, <2>2 DEF BackupsHold, DrillHolds
<1>10. QED
  BY <1>4, <1>6, <1>8, <1>9 DEF BackupsHold, HalfRestoresAreExcused, ProductionNeverRestored

LEMMA DumpCompletes ==
    ASSUME BackupsHold, run_dumped
    PROVE  BackupsHold'
<1>1. PICK m \in Nat : m = dumping.name /\ m <= day
  BY DEF BackupsHold, DumpHolds
<1>2. PICK n \in Dump : n = [name |-> m, mtime |-> day, content |-> "complete"] /\ n.name = m /\ n.mtime = day
                       /\ n.content = "complete"
  <2>1. [name |-> m, mtime |-> day, content |-> "complete"] \in Dump
    BY DEF BackupsHold, FilesHold, Dump
  <2>2. QED
    BY <2>1
<1>3. /\ dumps' = (dumps \ Named(m)) \cup {n} /\ dumping' = [dumping EXCEPT !.pc = "pruning"]
      /\ UNCHANGED <<day, drill, scratch, restored>>
  BY <1>1, <1>2 DEF run_dumped
<1>4. \A d \in dumps' : d = n \/ (d \in dumps /\ d.name # m)
  BY <1>3 DEF Named
<1>5. FilesHold'
  <2>1. day' \in Nat /\ dumps' \subseteq Dump
    BY <1>2, <1>3 DEF BackupsHold, FilesHold
  <2>2. \A d \in dumps' : d.name <= d.mtime /\ d.mtime <= day'
    BY <1>1, <1>2, <1>3, <1>4 DEF BackupsHold, FilesHold
  <2>3. \A d, e \in dumps' : d.name = e.name => d = e
    BY <1>2, <1>4 DEF BackupsHold, FilesHold
  <2>4. QED
    BY <2>1, <2>2, <2>3 DEF FilesHold
<1>6. DumpHolds'
  <2>1. n \in dumps' /\ n.content = "complete" /\ n.mtime = day'
    BY <1>2, <1>3
  <2>2. dumping' \in [pc : {"idle", "dumping", "pruning"}, name : Nat] /\ dumping'.name = m
    BY <1>1, <1>3 DEF BackupsHold, DumpHolds
  <2>3. \A d \in dumps' : d.name <= m
    <3>1. dumping.pc = "dumping"
      BY DEF run_dumped
    <3>2. QED
      BY <1>1, <1>2, <1>4, <3>1 DEF BackupsHold, DumpHolds
  <2>4. \A d \in dumps' : (\A e \in dumps' : e.name <= d.name) => d = n
    <3>1. \A d \in dumps' : d.name \in Nat
      BY <1>5 DEF FilesHold, Dump
    <3>2. \A d \in dumps' : n.name <= d.name => d.name = n.name
      BY <1>2, <2>3, <3>1
    <3>3. QED
      BY <1>5, <2>1, <3>2 DEF FilesHold
  <2>5. \A d \in getLatestBackupFile' : d.content = "complete"
    BY <2>1, <2>4 DEF getLatestBackupFile
  <2>6. QED
    BY <1>1, <1>2, <1>3, <2>1, <2>2, <2>3, <2>5 DEF DumpHolds, RestorableBackupKept
<1>7. DrillHolds'
  <2>1. ASSUME NEW k \in Nat, \A d \in Named(k) : d.content = "complete"
        PROVE  \A d \in Named(k)' : d.content = "complete"
    <3>1. \A d \in Named(k)' : d = n \/ d \in Named(k)
      BY <1>4 DEF Named
    <3>2. QED
      BY <1>2, <2>1, <3>1
  <2>2. ASSUME NEW k \in Nat PROVE Named(k) # {} => Named(k)' # {}
    <3>1. k # m => Named(k) \subseteq Named(k)'
      BY <1>3 DEF Named
    <3>2. k = m => n \in Named(k)'
      BY <1>2, <1>3 DEF Named
    <3>3. QED
      BY <3>1, <3>2
  <2>3. QED
    BY <1>3, <2>1, <2>2 DEF BackupsHold, DrillHolds
<1>8. QED
  BY <1>3, <1>5, <1>6, <1>7 DEF BackupsHold, HalfRestoresAreExcused, ProductionNeverRestored

\* What completed today is not too old to keep.
LEMMA PruningHolds ==
    ASSUME BackupsHold, pruneOldBackups
    PROVE  BackupsHold'
<1>1. PICK gone \in SUBSET {d \in dumps : TooOld(d)} : dumps' = dumps \ gone
  BY DEF pruneOldBackups
<1>2. dumping.pc = "pruning" /\ dumping' = [dumping EXCEPT !.pc = "idle"] /\ UNCHANGED <<day, drill, scratch, restored>>
  BY DEF pruneOldBackups
<1>3. \A d \in dumps : d.mtime = day => d \in dumps'
  <2>1. \A d \in gone : d.mtime \in Nat /\ d.mtime + RetainDays < day
    BY DEF TooOld, BackupsHold, FilesHold, Dump
  <2>2. \A d \in gone : d.mtime # day
    BY <2>1, BackupAssumption DEF BackupsHold, FilesHold
  <2>3. QED
    BY <1>1, <2>2
<1>4. dumps' \subseteq dumps
  BY <1>1
<1>5. FilesHold'
  BY <1>2, <1>4 DEF BackupsHold, FilesHold
<1>6. DumpHolds'
  <2>1. PICK n \in dumps' : n.name = dumping.name /\ n.content = "complete"
    BY <1>2, <1>3 DEF BackupsHold, DumpHolds
  <2>0. \A d \in getLatestBackupFile' : d.content = "complete"
    <3>1. \A d \in dumps' : d.name \in Nat /\ d.name <= n.name
      BY <1>2, <1>4, <1>5, <2>1 DEF BackupsHold, DumpHolds, FilesHold, Dump
    <3>2. \A d \in dumps' : n.name <= d.name => d = n
      BY <1>5, <2>1, <3>1 DEF FilesHold
    <3>3. QED
      BY <2>1, <3>2 DEF getLatestBackupFile
  <2>2. /\ dumping' \in [pc : {"idle", "dumping", "pruning"}, name : Nat]
        /\ dumping'.name = dumping.name /\ dumping'.pc = "idle"
    BY <1>2 DEF BackupsHold, DumpHolds
  <2>3. QED
    BY <1>2, <2>0, <2>1, <2>2 DEF BackupsHold, DumpHolds, RestorableBackupKept
<1>7. DrillHolds'
  <2>1. ASSUME NEW k \in Nat PROVE Named(k)' \subseteq Named(k) /\ (k = day /\ Named(k) # {} => Named(k)' # {})
    <3>1. Named(k)' \subseteq Named(k)
      BY <1>4 DEF Named
    <3>2. ASSUME k = day, NEW d \in Named(k) PROVE d \in Named(k)'
      <4>1. d \in dumps /\ d.name = day /\ d.mtime = day
        BY <3>2 DEF Named, BackupsHold, FilesHold, Dump
      <4>2. QED
        BY <1>3, <3>2, <4>1 DEF Named
    <3>3. QED
      BY <3>1, <3>2
  <2>2. QED
    BY <1>2, <2>1 DEF BackupsHold, DrillHolds
<1>8. QED
  BY <1>2, <1>5, <1>6, <1>7 DEF BackupsHold, HalfRestoresAreExcused, ProductionNeverRestored

LEMMA DrillVerifies ==
    ASSUME BackupsHold, runRestoreDrill_verify
    PROVE  BackupsHold'
<1>1. PICK d \in getLatestBackupFile : drill' = [pc |-> "verified", file |-> {d.name}, settled |-> Settled]
  BY DEF runRestoreDrill_verify
<1>2. UNCHANGED <<day, dumps, dumping, scratch, restored, everDumped, lastRun>>
  BY DEF runRestoreDrill_verify
<1>3. d \in dumps /\ (Settled => d.content = "complete")
  BY DEF BackupsHold, DumpHolds, getLatestBackupFile
<1>4. PICK n \in Nat : n = d.name /\ n <= day
  BY <1>3 DEF BackupsHold, FilesHold, Dump
<1>5. Named(n)' = Named(n) /\ d \in Named(n) /\ \A e \in Named(n) : e = d
  BY <1>2, <1>3, <1>4 DEF Named, BackupsHold, FilesHold
<1>6. /\ drill'.file = {n} /\ Named(n)' # {}
      /\ drill'.settled => \A e \in Named(n)' : e.content = "complete"
  BY <1>1, <1>3, <1>4, <1>5
<1>7. DrillHolds'
  BY <1>2, <1>4, <1>6 DEF DrillHolds
<1>8. QED
  BY <1>2, <1>7
     DEF BackupsHold, FilesHold, DumpHolds, Settled, getLatestBackupFile, RestorableBackupKept,
         HalfRestoresAreExcused, ProductionNeverRestored

LEMMA DrillRestores ==
    ASSUME BackupsHold, runRestoreDrill_restore
    PROVE  BackupsHold'
<1>1. /\ drill.pc = "verified" /\ drill' = NoDrill
      /\ UNCHANGED <<day, dumps, dumping, scratch, everDumped, lastRun>>
  BY DEF runRestoreDrill_restore
<1>2. PICK n \in Nat : drill.file = {n} /\ (drill.settled => \A d \in Named(n) : d.content = "complete")
  BY <1>1 DEF BackupsHold, DrillHolds
<1>3. \A r \in restored' :
        \/ r \in restored
        \/ /\ r.into = buildPgRestoreArgs(scratch) /\ ~ isProductionDatabase(scratch)
           /\ r.content = "complete" \/ ~ r.settled
  <2>1. ASSUME NEW r \in restored', r \notin restored
        PROVE  /\ r.into = buildPgRestoreArgs(scratch) /\ ~ isProductionDatabase(scratch)
               /\ r.content = "complete" \/ ~ r.settled
    <3>1. /\ ~ isProductionDatabase(scratch)
          /\ \E d \in dumps : /\ d.name \in drill.file
                              /\ r = [content |-> d.content, into |-> buildPgRestoreArgs(scratch), settled |-> drill.settled]
      BY <2>1 DEF runRestoreDrill_restore
    <3>2. PICK d \in dumps : /\ d.name = n
                            /\ r = [content |-> d.content, into |-> buildPgRestoreArgs(scratch), settled |-> drill.settled]
      BY <1>2, <3>1
    <3>3. r.content = d.content /\ r.into = buildPgRestoreArgs(scratch) /\ r.settled = drill.settled
      BY <3>2
    <3>4. QED
      BY <1>2, <3>1, <3>2, <3>3 DEF Named
  <2>2. QED
    BY <2>1
<1>4. HalfRestoresAreExcused' /\ ProductionNeverRestored'
  BY <1>3, OtherDatabase DEF BackupsHold, HalfRestoresAreExcused, ProductionNeverRestored
<1>5. DrillHolds'
  BY <1>1 DEF DrillHolds, NoDrill
<1>6. QED
  BY <1>1, <1>4, <1>5
     DEF BackupsHold, FilesHold, DumpHolds, Settled, getLatestBackupFile, RestorableBackupKept

LEMMA BackupsStep ==
    ASSUME BackupsHold, [BackupNext]_backupVars
    PROVE  BackupsHold'
<1>1. CASE run_failed
  <2>1. /\ dumping.pc = "dumping" /\ dumping' = [dumping EXCEPT !.pc = "idle"] /\ lastRun' = "failed"
        /\ UNCHANGED <<day, dumps, drill, scratch, restored, everDumped>>
    BY <1>1 DEF run_failed, AfterFailure
  <2>2. /\ dumping' \in [pc : {"idle", "dumping", "pruning"}, name : Nat]
        /\ dumping'.name = dumping.name /\ dumping'.pc = "idle"
    BY <2>1 DEF BackupsHold, DumpHolds
  <2>3. QED
    BY <2>1, <2>2
       DEF BackupsHold, FilesHold, DumpHolds, Settled, DrillHolds, Named, RestorableBackupKept,
           HalfRestoresAreExcused, ProductionNeverRestored
<1>2. CASE NextDay
  <2>1. /\ day' = day + 1 /\ dumping.pc # "pruning"
        /\ UNCHANGED <<dumps, dumping, drill, scratch, restored, everDumped, lastRun>>
    BY <1>2 DEF NextDay
  <2>2. FilesHold'
    BY <2>1 DEF BackupsHold, FilesHold, Dump
  <2>3. DumpHolds'
    BY <2>1 DEF BackupsHold, FilesHold, DumpHolds, Settled, getLatestBackupFile, RestorableBackupKept
  <2>4. DrillHolds'
    <3> SUFFICES ASSUME drill.pc = "verified" PROVE DrillHolds'
      BY <2>1 DEF DrillHolds
    <3>1. PICK n \in Nat : /\ drill.file = {n} /\ n <= day
                           /\ drill.settled => \A d \in Named(n) : d.content = "complete"
      BY DEF BackupsHold, DrillHolds
    <3>2. n <= day + 1 /\ n # day + 1 /\ Named(n)' = Named(n)
      BY <2>1, <3>1 DEF BackupsHold, FilesHold, Named
    <3>3. /\ drill'.file = {n} /\ n <= day' /\ n # day'
          /\ drill'.settled => \A d \in Named(n)' : d.content = "complete"
      BY <2>1, <3>1, <3>2
    <3>4. QED
      BY <3>3 DEF DrillHolds
  <2>5. QED
    BY <2>1, <2>2, <2>3, <2>4 DEF BackupsHold, HalfRestoresAreExcused, ProductionNeverRestored
<1>3. CASE UNCHANGED backupVars
  BY <1>3
     DEF backupVars, BackupsHold, FilesHold, DumpHolds, Settled, getLatestBackupFile, DrillHolds, Named,
         RestorableBackupKept, HalfRestoresAreExcused, ProductionNeverRestored
<1>4. QED
  BY <1>1, <1>2, <1>3, DumpStarts, ContentsWritten, DumpCompletes, PruningHolds, DrillVerifies, DrillRestores DEF BackupNext

LEMMA BackupsStayHeld == BackupSpec => []BackupsHold
BY BackupsStart, BackupsStep, PTL DEF BackupSpec

-----------------------------------------------------------------------------
(* The deployment manifest.                                                  *)

\* What is written names its network, its RPC and its contract, and on mainnet
\* who administers it.
GoodManifest(m) ==
  /\ \A f \in ComparedFields : m[f] # Unset
  /\ m.network = "mainnet" => m.adminAuthority # Unset

\* What a backend or a page is attested against.
Attested(m, e) == GoodManifest(m) /\ validateManifestAgainstEnv(m, e) = {}

PageOf(open, env, cache, loader, verified) ==
  [open |-> open, env |-> env, cache |-> cache, loader |-> loader, verified |-> verified]

PageHolds ==
  /\ webPage = PageOf(webPage.open, webPage.env, webPage.cache, webPage.loader, webPage.verified)
  /\ webPage.open => parseFrontendEnv(webPage.env)
  /\ webPage.cache # NoManifest => GoodManifest(webPage.cache)
  /\ webPage.verified # NoManifest => webPage.open /\ Attested(webPage.verified, webPage.env)

ServerHolds ==
  ServerAttested => Attested(backend.cache, backend.env) /\ ~PassphraseRefused(backend.cache, backend.env)

DeployHolds ==
  /\ onDisk # NoManifest => GoodManifest(onDisk)
  /\ ServerHolds /\ PageHolds

LEMMA GeneratedIsGood ==
    ASSUME SchemaAccepts(Generated), validateManifestGovernance(Generated, hostEnv["build"].expectedAdmin)
    PROVE  GoodManifest(Generated)
<1>1. Generated.passphrase # Unset /\ Generated.rpcUrl # Unset
  BY DEF Generated, OrElse, Unset
<1>2. Generated.contractId # Unset
  BY DEF SchemaAccepts
<1>3. Generated.network = "mainnet" => Generated.adminAuthority # Unset
  BY DEF validateManifestGovernance
<1>4. QED
  BY <1>1, <1>2, <1>3 DEF GoodManifest, ComparedFields

LEMMA DeployStarts == DeployInit => DeployHolds
<1> SUFFICES ASSUME DeployInit PROVE DeployHolds
  OBVIOUS
<1>1. onDisk = NoManifest /\ ~backend.up /\ webPage = PageOf(FALSE, FirstEnv, NoManifest, FALSE, NoManifest)
  BY DEF DeployInit, StoppedBackend, ClosedPage, PageOf
<1>2. PageHolds
  BY <1>1 DEF PageHolds, PageOf
<1>3. QED
  BY <1>1, <1>2 DEF DeployHolds, ServerHolds, ServerAttested

\* A page after a step.
PageFits(o, e, c, v) ==
  /\ o => parseFrontendEnv(e)
  /\ c # NoManifest => GoodManifest(c)
  /\ v # NoManifest => o /\ Attested(v, e)

LEMMA PageMoves ==
    ASSUME NEW o, NEW e, NEW c, NEW l, NEW v, webPage' = PageOf(o, e, c, l, v), PageFits(o, e, c, v)
    PROVE  PageHolds'
<1>1. /\ webPage'.open = o /\ webPage'.env = e /\ webPage'.cache = c
      /\ webPage'.loader = l /\ webPage'.verified = v
  BY DEF PageOf
<1>2. PageFits(webPage.open, webPage.env, webPage.cache, webPage.verified)'
  BY <1>1 DEF PageFits, parseFrontendEnv, GoodManifest, Attested, validateManifestAgainstEnv
<1>3. webPage' = PageOf(webPage.open, webPage.env, webPage.cache, webPage.loader, webPage.verified)'
  BY <1>1 DEF PageOf
<1>4. QED
  BY <1>2, <1>3 DEF PageHolds, PageFits

\* A page keeps its environment, and shows as verified what it compared with it.
LEMMA PageStep ==
    ASSUME DeployHolds, UNCHANGED <<onDisk, backend>>,
           OpenPage \/ ClosePage \/ loadManifestAsync \/ clearManifestCache \/ registerManifestLoader \/ attestManifest
    PROVE  PageHolds'
<1>1. PICK w : /\ w = webPage /\ w = PageOf(w.open, w.env, w.cache, w.loader, w.verified)
               /\ PageFits(w.open, w.env, w.cache, w.verified)
  BY DEF DeployHolds, PageHolds, PageFits
<1>2. CASE OpenPage
  <2>1. PICK e : e = hostEnv["web"] /\ parseFrontendEnv(e)
    BY <1>2 DEF OpenPage
  <2>2. webPage' = PageOf(TRUE, e, NoManifest, FALSE, NoManifest)
    BY <1>2, <2>1 DEF OpenPage, ClosedPage, PageOf
  <2>3. QED
    BY <2>1, <2>2, PageMoves DEF PageFits
<1>3. CASE ClosePage
  <2>1. webPage' = PageOf(FALSE, FirstEnv, NoManifest, FALSE, NoManifest)
    BY <1>3 DEF ClosePage, ClosedPage, PageOf
  <2>2. QED
    BY <2>1, PageMoves DEF PageFits
<1>4. CASE loadManifestAsync
  <2>1. webPage' = PageOf(w.open, w.env, onDisk, w.loader, w.verified)
    BY <1>1, <1>4 DEF loadManifestAsync, PageOf
  <2>2. QED
    BY <1>1, <2>1, PageMoves DEF PageFits, DeployHolds
<1>5. CASE clearManifestCache
  <2>1. webPage' = PageOf(w.open, w.env, NoManifest, w.loader, w.verified)
    BY <1>1, <1>5 DEF clearManifestCache, PageOf
  <2>2. QED
    BY <1>1, <2>1, PageMoves DEF PageFits, DeployHolds
<1>6. CASE registerManifestLoader
  <2>1. webPage' = PageOf(w.open, w.env, w.cache, TRUE, w.verified)
    BY <1>1, <1>6 DEF registerManifestLoader, PageOf
  <2>2. QED
    BY <1>1, <2>1, PageMoves DEF PageFits, DeployHolds
<1>7. CASE attestManifest
  <2>1. w.open /\ w.cache # NoManifest /\ GoodManifest(w.cache)
    BY <1>1, <1>7 DEF attestManifest, DeployHolds, PageHolds
  <2>2. PICK v : v = IF validateManifestAgainstEnv(w.cache, w.env) = {} THEN w.cache ELSE NoManifest
    OBVIOUS
  <2>3. webPage' = PageOf(w.open, w.env, w.cache, w.loader, v)
    BY <1>1, <1>7, <2>2 DEF attestManifest, PageOf
  <2>4. v # NoManifest => Attested(v, w.env)
    BY <2>1, <2>2 DEF Attested
  <2>5. QED
    BY <1>1, <2>1, <2>3, <2>4, PageMoves DEF PageFits
<1>8. QED
  BY <1>2, <1>3, <1>4, <1>5, <1>6, <1>7

LEMMA DeployStep ==
    ASSUME DeployHolds, [DeployNext]_deployVars
    PROVE  DeployHolds'
<1>1. CASE UNCHANGED <<onDisk, backend, webPage>>
  BY <1>1
     DEF DeployHolds, ServerHolds, ServerAttested, PassphraseRefused, PageHolds, Attested, GoodManifest,
         parseFrontendEnv, PageOf, validateManifestAgainstEnv
<1>2. CASE UNCHANGED <<onDisk, backend>> /\ PageHolds'
  BY <1>2 DEF DeployHolds, ServerHolds, ServerAttested, PassphraseRefused, Attested, GoodManifest,
              validateManifestAgainstEnv
<1>3. CASE UNCHANGED <<onDisk, webPage>> /\ ServerHolds'
  BY <1>3 DEF DeployHolds, PageHolds, Attested, GoodManifest, parseFrontendEnv, PageOf, validateManifestAgainstEnv
<1>4. CASE generateManifest
  <2>1. /\ onDisk' = Generated /\ SchemaAccepts(Generated)
        /\ validateManifestGovernance(Generated, hostEnv["build"].expectedAdmin)
        /\ UNCHANGED <<backend, webPage>>
    BY <1>4 DEF generateManifest
  <2>2. GoodManifest(onDisk)'
    BY <2>1, GeneratedIsGood DEF GoodManifest
  <2>3. QED
    BY <2>1, <2>2
       DEF DeployHolds, ServerHolds, ServerAttested, PassphraseRefused, PageHolds, Attested, GoodManifest,
           parseFrontendEnv, PageOf, validateManifestAgainstEnv
<1>5. CASE startServer
  <2>1. PICK e, m : /\ e = hostEnv["server"] /\ m = onDisk
                    /\ m # NoManifest => /\ validateManifestAgainstEnv(m, e) = {}
                                         /\ ~PassphraseRefused(m, e) /\ GoodManifest(m)
    BY <1>5 DEF startServer, DeployHolds
  <2>2. backend' = [up |-> TRUE, cache |-> m, env |-> e] /\ UNCHANGED <<onDisk, webPage>>
    BY <1>5, <2>1 DEF startServer
  <2>3. backend'.cache = m /\ backend'.env = e
    BY <2>2
  <2>4. ServerHolds'
    BY <2>1, <2>3 DEF ServerHolds, ServerAttested, Attested
  <2>5. QED
    BY <1>3, <2>2, <2>4
<1>6. CASE StopServer
  <2>1. ~backend'.up /\ UNCHANGED <<onDisk, webPage>>
    BY <1>6 DEF StopServer, StoppedBackend
  <2>2. QED
    BY <1>3, <2>1 DEF ServerHolds, ServerAttested
<1>7. CASE OpenPage \/ ClosePage \/ loadManifestAsync \/ clearManifestCache \/ registerManifestLoader
           \/ attestManifest
  <2>1. UNCHANGED <<onDisk, backend>>
    BY <1>7
       DEF OpenPage, ClosePage, loadManifestAsync, clearManifestCache, registerManifestLoader, attestManifest
  <2>2. QED
    BY <1>2, <1>7, <2>1, PageStep
<1>8. CASE EditEnv \/ CheckOut \/ \E h \in Hosts : runDriftCheck(h)
  BY <1>1, <1>8 DEF EditEnv, CheckOut, runDriftCheck
<1>9. QED
  BY <1>1, <1>4, <1>5, <1>6, <1>7, <1>8 DEF DeployNext, deployVars

LEMMA DeploymentStaysAttested == DeploySpec => []DeployHolds
BY DeployStarts, DeployStep, PTL DEF DeploySpec

\* Two environments without a mismatch with one manifest agree.
LEMMA AttestedAgrees ==
    ASSUME NEW m, NEW e, Attested(m, e), NEW f \in ComparedFields, e[f] # Unset
    PROVE  e[f] = m[f]
<1>1. m[f] # Unset
  BY DEF Attested, GoodManifest
<1>2. ~(m[f] # Unset /\ e[f] # Unset /\ m[f] # e[f])
  BY DEF Attested, validateManifestAgainstEnv
<1>3. QED
  BY <1>1, <1>2

LEMMA DeploymentAgrees == DeployHolds => AttestedServerOnOneNetwork /\ AttestedPartsAgree /\ MainnetIsGoverned
<1> SUFFICES ASSUME DeployHolds, ServerAttested
             PROVE  AttestedServerOnOneNetwork /\ AttestedPartsAgree /\ MainnetIsGoverned
  BY DEF AttestedServerOnOneNetwork, AttestedPartsAgree, MainnetIsGoverned
<1>1. PICK m, e : m = backend.cache /\ e = backend.env /\ Attested(m, e) /\ ~PassphraseRefused(m, e)
  BY DEF DeployHolds, ServerHolds
<1>2. AttestedServerOnOneNetwork
  <2>1. "passphrase" \in ComparedFields
    BY DEF ComparedFields
  <2>2. e.passphrase # Unset => e.passphrase = m.passphrase
    BY <1>1, <2>1, AttestedAgrees
  <2>3. QED
    BY <1>1, <2>2 DEF AttestedServerOnOneNetwork, PassphraseRefused
<1>3. AttestedPartsAgree
  <2>1. SUFFICES ASSUME webPage.verified = m, NEW f \in ComparedFields, e[f] # Unset PROVE webPage.env[f] = e[f]
    BY <1>1 DEF AttestedPartsAgree
  <2>2. PICK p : p = webPage.env /\ parseFrontendEnv(p) /\ Attested(m, p)
    BY <1>1, <2>1 DEF DeployHolds, PageHolds, ServerAttested
  <2>3. p[f] # Unset
    BY <2>2 DEF parseFrontendEnv, ComparedFields
  <2>4. QED
    BY <1>1, <2>1, <2>2, <2>3, AttestedAgrees
<1>4. MainnetIsGoverned
  <2>1. m.network = "mainnet" => m.adminAuthority # Unset
    BY <1>1 DEF Attested, GoodManifest
  <2>2. m.network = "mainnet" => OrElse(e.nodeEnv, "production") = "production"
    BY <1>1 DEF Attested, validateManifestAgainstEnv
  <2>3. QED
    BY <1>1, <2>1, <2>2 DEF MainnetIsGoverned
<1>5. QED
  BY <1>2, <1>3, <1>4

-----------------------------------------------------------------------------
(* The TTL checks.                                                           *)

\* What was read of an entry is no more than what it has.
WasRead(entries) ==
  /\ DOMAIN entries \subseteq LedgerEntries
  /\ \A k \in DOMAIN entries : entries[k] \in Nat /\ entries[k] <= liveUntil[k]

ScanOf(phase, latest, entries, json) == [phase |-> phase, latest |-> latest, entries |-> entries, json |-> json]

ScanHolds ==
  /\ scan = ScanOf(scan.phase, scan.latest, scan.entries, scan.json)
  /\ scan.latest \in Nat /\ WasRead(scan.entries)

ReleaseHolds ==
  /\ ledgerSeq \in Nat /\ liveUntil \in [LedgerEntries -> Nat]
  /\ ScanHolds
  /\ ttlReport.at \in Nat /\ CleanReportIsAhead

LEMMA QueryReads ==
    ASSUME ReleaseHolds, NEW keys, keys \subseteq LedgerEntries
    PROVE  WasRead(queryLedgerEntries(keys))
BY DEF ReleaseHolds, WasRead, queryLedgerEntries

LEMMA IdleScanHolds ==
  IdleScan = ScanOf("idle", 0, <<>>, FALSE) /\ WasRead(<<>>)
<1>1. DOMAIN <<>> = {}
  OBVIOUS
<1>2. QED
  BY <1>1 DEF IdleScan, ScanOf, WasRead

LEMMA ReleaseStarts == ReleaseInit => ReleaseHolds
<1> SUFFICES ASSUME ReleaseInit PROVE ReleaseHolds
  OBVIOUS
<1>1. ledgerSeq \in Nat /\ liveUntil \in [LedgerEntries -> Nat]
  BY DEF ReleaseInit
<1>2. ScanHolds
  BY IdleScanHolds DEF ReleaseInit, ScanHolds, ScanOf
<1>3. ttlReport.at \in Nat /\ CleanReportIsAhead
  BY DEF ReleaseInit, NoReport, CleanReportIsAhead
<1>4. QED
  BY <1>1, <1>2, <1>3 DEF ReleaseHolds

\* A scan moves and the rest stays.
LEMMA ScanMoves ==
    ASSUME ReleaseHolds, UNCHANGED <<ledgerSeq, liveUntil, ttlReport>>,
           NEW phase, NEW latest \in Nat, NEW entries, NEW json,
           scan' = ScanOf(phase, latest, entries, json), WasRead(entries)
    PROVE  ReleaseHolds'
<1>1. scan'.phase = phase /\ scan'.latest = latest /\ scan'.entries = entries /\ scan'.json = json
  BY DEF ScanOf
<1>2. ScanHolds'
  BY <1>1 DEF ScanHolds, ScanOf, WasRead
<1>3. QED
  BY <1>2 DEF ReleaseHolds, CleanReportIsAhead

LEMMA ScanBegins ==
    ASSUME ReleaseHolds, beginScan
    PROVE  ReleaseHolds'
<1>1. PICK addresses \in fetchAddressesFromDb, json \in BOOLEAN :
        scan' = [phase |-> IF "instance" \in DOMAIN queryLedgerEntries({"instance"} \cup addresses)
                           THEN "code" ELSE "report",
                 latest |-> ledgerSeq, entries |-> queryLedgerEntries({"instance"} \cup addresses), json |-> json]
  BY DEF beginScan
<1>2. PICK found : found = queryLedgerEntries({"instance"} \cup addresses) /\ WasRead(found)
  <2>1. {"instance"} \cup addresses \subseteq LedgerEntries
    BY DEF fetchAddressesFromDb, LedgerEntries
  <2>2. QED
    BY <2>1, QueryReads
<1>3. scan' = ScanOf(IF "instance" \in DOMAIN found THEN "code" ELSE "report", ledgerSeq, found, json)
  BY <1>1, <1>2 DEF ScanOf
<1>4. UNCHANGED <<ledgerSeq, liveUntil, ttlReport>> /\ ledgerSeq \in Nat
  BY DEF beginScan, ReleaseHolds
<1>5. QED
  BY <1>2, <1>3, <1>4, ScanMoves

LEMMA CodeIsRead ==
    ASSUME ReleaseHolds, processInstanceWasm
    PROVE  ReleaseHolds'
<1>1. PICK found : found = queryLedgerEntries({"code"}) /\ WasRead(found)
  BY QueryReads DEF LedgerEntries
<1>2. PICK had : had = scan.entries /\ WasRead(had)
  BY DEF ReleaseHolds, ScanHolds
<1>3. PICK all : all = [k \in DOMAIN had \cup DOMAIN found |-> IF k \in DOMAIN found THEN found[k] ELSE had[k]]
  OBVIOUS
<1>4. WasRead(all)
  BY <1>1, <1>2, <1>3 DEF WasRead
<1>5. /\ scan' = [scan EXCEPT !.phase = "report", !.latest = ledgerSeq, !.entries = all]
      /\ UNCHANGED <<ledgerSeq, liveUntil, ttlReport>>
  BY <1>1, <1>2, <1>3 DEF processInstanceWasm
<1>6. PICK s : s = scan /\ s = ScanOf(s.phase, s.latest, s.entries, s.json)
  BY DEF ReleaseHolds, ScanHolds
<1>7. scan' = ScanOf("report", ledgerSeq, all, s.json)
  BY <1>5, <1>6 DEF ScanOf
<1>8. QED
  BY <1>4, <1>5, <1>7, ScanMoves DEF ReleaseHolds

LEMMA ReportHolds ==
    ASSUME ReleaseHolds, ReportTTL
    PROVE  ReleaseHolds'
<1>1. PICK status : status = [k \in LedgerEntries |-> checkTTL(k)]
  OBVIOUS
<1>2. PICK exit : exit = IF (\E k \in LedgerEntries : status[k] = "CRITICAL") /\ ~scan.json THEN 1 ELSE 0
  OBVIOUS
<1>3. /\ ttlReport' = [at |-> scan.latest, exit |-> exit, status |-> status, json |-> scan.json]
      /\ scan' = IdleScan /\ UNCHANGED <<ledgerSeq, liveUntil>>
  BY <1>1, <1>2 DEF ReportTTL
<1>4. ASSUME exit = 0, ~scan.json, NEW k \in LedgerEntries, status[k] # "NOT_FOUND"
      PROVE  10 * (liveUntil[k] - scan.latest) >= TtlThreshold
  <2>1. checkTTL(k) # "CRITICAL" /\ checkTTL(k) # "NOT_FOUND"
    BY <1>1, <1>2, <1>4
  <2>2. k \in DOMAIN scan.entries
    BY <2>1 DEF checkTTL
  <2>3. PICK e, u, a \in Nat : e = scan.entries[k] /\ u = liveUntil[k] /\ a = scan.latest /\ e <= u
    BY <2>2 DEF ReleaseHolds, ScanHolds, WasRead
  <2>4. 10 * (e - a) >= TtlThreshold
    BY <2>1, <2>2, <2>3, ReleaseAssumption DEF checkTTL
  <2>5. QED
    BY <2>3, <2>4, ReleaseAssumption
<1>5. CleanReportIsAhead'
  BY <1>3, <1>4 DEF CleanReportIsAhead, LedgerEntries
<1>6. ttlReport'.at \in Nat
  BY <1>3 DEF ReleaseHolds, ScanHolds
<1>7. ScanHolds'
  BY <1>3, IdleScanHolds DEF ScanHolds, WasRead, ScanOf
<1>8. QED
  BY <1>3, <1>5, <1>6, <1>7 DEF ReleaseHolds

LEMMA TtlIsExtended ==
    ASSUME ReleaseHolds, ExtendTtl
    PROVE  ReleaseHolds'
<1>1. PICK k \in LedgerEntries : liveUntil[k] < MaxLive /\ liveUntil' = [liveUntil EXCEPT ![k] = MaxLive]
  BY DEF ExtendTtl
<1>2. UNCHANGED <<ledgerSeq, scan, ttlReport>>
  BY DEF ExtendTtl
<1>3. liveUntil' \in [LedgerEntries -> Nat] /\ \A e \in LedgerEntries : liveUntil[e] <= liveUntil'[e]
  BY <1>1, ReleaseAssumption DEF ReleaseHolds
<1>4. ScanHolds'
  BY <1>2, <1>3 DEF ReleaseHolds, ScanHolds, WasRead
<1>5. CleanReportIsAhead'
  <2>1. PICK at \in Nat : at = ttlReport.at
    BY DEF ReleaseHolds
  <2>2. \A e \in LedgerEntries : liveUntil[e] - at <= liveUntil'[e] - at
    BY <1>3 DEF ReleaseHolds
  <2>3. \A e \in LedgerEntries :
          10 * (liveUntil[e] - at) >= TtlThreshold => 10 * (liveUntil'[e] - at) >= TtlThreshold
    BY <1>3, <2>2, ReleaseAssumption DEF ReleaseHolds
  <2>4. QED
    BY <1>2, <2>1, <2>3 DEF ReleaseHolds, CleanReportIsAhead
<1>6. QED
  BY <1>2, <1>3, <1>4, <1>5 DEF ReleaseHolds

LEMMA ReleasesStep ==
    ASSUME ReleaseHolds, [ReleaseNext]_releaseVars
    PROVE  ReleaseHolds'
<1>1. CASE QueryFails
  BY <1>1, IdleScanHolds, ScanMoves DEF QueryFails
<1>2. CASE UNCHANGED <<liveUntil, scan, ttlReport>> /\ ledgerSeq' \in Nat
  BY <1>2 DEF ReleaseHolds, ScanHolds, WasRead, CleanReportIsAhead
<1>3. CASE CloseLedger
  BY <1>2, <1>3 DEF CloseLedger, ReleaseHolds
<1>4. CASE RecordProvenance \/ VerifyRelease \/ UNCHANGED releaseVars
  BY <1>2, <1>4 DEF RecordProvenance, VerifyRelease, releaseVars, ReleaseHolds
<1>5. QED
  BY <1>1, <1>3, <1>4, ScanBegins, CodeIsRead, ReportHolds, TtlIsExtended DEF ReleaseNext

LEMMA ReleasesStayHeld == ReleaseSpec => []ReleaseHolds
BY ReleaseStarts, ReleasesStep, PTL DEF ReleaseSpec

-----------------------------------------------------------------------------
(* The back-fill script.                                                     *)

Stages == {"none", "fetching", "running", "completed", "fatal"}
Counters == {"processed", "skipped", "failed"}
Script == [stage : Stages, got : Nat, heldBack : BOOLEAN, at : Nat, dryRun : BOOLEAN,
           processed : Nat, skipped : Nat, failed : Nat, wrote : SUBSET Nat]

\* Every event before the position is counted once, and is on record unless a
\* failure is counted; events are counted when all are fetched, and all are what
\* the range has, up to the limit, unless some were held back.
ScriptHolds(c, seen) ==
  /\ c.at >= 1 /\ c.at <= c.got + 1
  /\ c.got <= Len(range) /\ c.got <= FetchLimit
  /\ c.processed + c.skipped + c.failed = c.at - 1
  /\ c.dryRun => c.wrote = {}
  /\ c.failed = 0 /\ ~c.dryRun => \A i \in 1..(c.at - 1) : range[i].tx \in seen
  /\ c.stage = "fetching" => c.at = 1
  /\ c.stage = "completed" => c.at = c.got + 1
  /\ c.stage \in {"running", "completed"} /\ ~c.heldBack => c.got = Lesser(Len(range), FetchLimit)

BackfillHolds ==
  /\ range \in Seq([tx : Nat, decodes : BOOLEAN])
  /\ script \in Script /\ ScriptHolds(script, onRecord)

LEMMA NoScriptHolds == range \in Seq([tx : Nat, decodes : BOOLEAN]) => NoScript \in Script /\ ScriptHolds(NoScript, {})
BY BackfillAssumption DEF NoScript, Script, Stages, ScriptHolds

\* The script moves on, and what is on record stays there.
LEMMA ScriptMoves ==
    ASSUME BackfillHolds, range' = range, onRecord \subseteq onRecord',
           NEW c \in Script, script' = c, ScriptHolds(c, onRecord')
    PROVE  BackfillHolds'
BY DEF BackfillHolds, ScriptHolds

\* One more event is counted.
CountedOn(q, c, f) ==
  /\ q \in Script /\ q.at = c.at + 1
  /\ q.processed + q.skipped + q.failed = c.processed + c.skipped + c.failed + 1
  /\ q.failed = IF f = "failed" THEN c.failed + 1 ELSE c.failed
  /\ q.stage = c.stage /\ q.dryRun = c.dryRun /\ q.wrote = c.wrote /\ q.got = c.got /\ q.heldBack = c.heldBack

LEMMA CountedOnce ==
    ASSUME NEW c \in Script, NEW f \in Counters, NEW q, q = [c EXCEPT !.at = @ + 1, ![f] = @ + 1]
    PROVE  CountedOn(q, c, f)
<1>1. CASE f = "processed"
  <2>1. PICK n, m \in Nat : n = c.at + 1 /\ m = c.processed + 1
    BY DEF Script
  <2>2. q = [c EXCEPT !.at = n, !.processed = m]
    BY <1>1, <2>1 DEF Script
  <2>3. q \in Script
    BY <2>2 DEF Script
  <2>4. /\ q.at = n /\ q.processed = m /\ q.skipped = c.skipped /\ q.failed = c.failed
        /\ q.stage = c.stage /\ q.dryRun = c.dryRun /\ q.wrote = c.wrote /\ q.got = c.got /\ q.heldBack = c.heldBack
    BY <2>2 DEF Script
  <2>5. c.at \in Nat /\ c.processed \in Nat /\ c.skipped \in Nat /\ c.failed \in Nat
    BY DEF Script
  <2>6. QED
    BY <1>1, <2>1, <2>3, <2>4, <2>5 DEF CountedOn
<1>2. CASE f = "skipped"
  <2>1. PICK n, m \in Nat : n = c.at + 1 /\ m = c.skipped + 1
    BY DEF Script
  <2>2. q = [c EXCEPT !.at = n, !.skipped = m]
    BY <1>2, <2>1 DEF Script
  <2>3. q \in Script
    BY <2>2 DEF Script
  <2>4. /\ q.at = n /\ q.skipped = m /\ q.processed = c.processed /\ q.failed = c.failed
        /\ q.stage = c.stage /\ q.dryRun = c.dryRun /\ q.wrote = c.wrote /\ q.got = c.got /\ q.heldBack = c.heldBack
    BY <2>2 DEF Script
  <2>5. c.at \in Nat /\ c.processed \in Nat /\ c.skipped \in Nat /\ c.failed \in Nat
    BY DEF Script
  <2>6. QED
    BY <1>2, <2>1, <2>3, <2>4, <2>5 DEF CountedOn
<1>3. CASE f = "failed"
  <2>1. PICK n, m \in Nat : n = c.at + 1 /\ m = c.failed + 1
    BY DEF Script
  <2>2. q = [c EXCEPT !.at = n, !.failed = m]
    BY <1>3, <2>1 DEF Script
  <2>3. q \in Script
    BY <2>2 DEF Script
  <2>4. /\ q.at = n /\ q.failed = m /\ q.processed = c.processed /\ q.skipped = c.skipped
        /\ q.stage = c.stage /\ q.dryRun = c.dryRun /\ q.wrote = c.wrote /\ q.got = c.got /\ q.heldBack = c.heldBack
    BY <2>2 DEF Script
  <2>5. c.at \in Nat /\ c.processed \in Nat /\ c.skipped \in Nat /\ c.failed \in Nat
    BY DEF Script
  <2>6. QED
    BY <1>3, <2>1, <2>3, <2>4, <2>5 DEF CountedOn
<1>4. QED
  BY <1>1, <1>2, <1>3 DEF Counters

\* An event may be counted as anything but failed when it is on record, or in a
\* dry run; what is written for it is written by a run that is not dry.
LEMMA EventCounted ==
    ASSUME BackfillHolds, AtEvent, NEW f \in Counters, NEW wrote \in SUBSET {script.at},
           script.dryRun => wrote = {},
           range' = range, onRecord \subseteq onRecord',
           f = "failed" \/ script.dryRun \/ Event.tx \in onRecord',
           script' = [CountAs(f) EXCEPT !.wrote = script.wrote \cup wrote]
    PROVE  BackfillHolds'
<1>1. PICK c \in Script : c = script /\ ScriptHolds(c, onRecord) /\ c.stage = "running" /\ c.at <= c.got
  BY DEF BackfillHolds, AtEvent
<1>2. PICK p : p = [c EXCEPT !.at = @ + 1, ![f] = @ + 1]
  OBVIOUS
<1>3. CountedOn(p, c, f)
  BY <1>2, CountedOnce
<1>4. PICK w \in SUBSET Nat : w = c.wrote \cup wrote /\ (c.dryRun => w = {})
  <2>1. c.wrote \in SUBSET Nat /\ c.at \in Nat
    BY DEF Script
  <2>2. wrote \in SUBSET Nat
    BY <1>1, <2>1
  <2>3. c.dryRun => c.wrote = {} /\ wrote = {}
    BY <1>1 DEF ScriptHolds
  <2>4. QED
    BY <2>1, <2>2, <2>3
<1>5. PICK q : q = [p EXCEPT !.wrote = w]
  OBVIOUS
<1>6. p \in Script
  BY <1>3 DEF CountedOn
<1>7. q \in Script
  BY <1>5, <1>6 DEF Script
<1>8. /\ q.at = p.at /\ q.processed = p.processed /\ q.skipped = p.skipped /\ q.failed = p.failed
      /\ q.stage = p.stage /\ q.dryRun = p.dryRun /\ q.wrote = w /\ q.got = p.got /\ q.heldBack = p.heldBack
  BY <1>5, <1>6 DEF Script
<1>9. script' = q
  BY <1>1, <1>2, <1>4, <1>5 DEF CountAs
<1>10. Len(range) \in Nat /\ c.got \in Nat /\ c.at \in Nat /\ c.failed \in Nat /\ c.processed \in Nat /\ c.skipped \in Nat
  BY DEF BackfillHolds, Script
<1>11. q.failed = 0 /\ ~q.dryRun => \A i \in 1..(q.at - 1) : range[i].tx \in onRecord'
  <2>1. SUFFICES ASSUME q.failed = 0, ~q.dryRun, NEW i \in 1..(q.at - 1) PROVE range[i].tx \in onRecord'
    OBVIOUS
  <2>2. f # "failed" /\ c.failed = 0 /\ ~c.dryRun
    BY <1>3, <1>8, <1>10, <2>1 DEF CountedOn
  <2>3. i \in 1..(c.at - 1) \/ i = c.at
    BY <1>3, <1>8, <1>10 DEF CountedOn
  <2>4. CASE i = c.at
    BY <1>1, <2>2, <2>4 DEF Event
  <2>5. CASE i \in 1..(c.at - 1)
    BY <1>1, <2>2, <2>5 DEF ScriptHolds
  <2>6. QED
    BY <2>3, <2>4, <2>5
<1>12. ScriptHolds(q, onRecord')
  BY <1>1, <1>3, <1>4, <1>8, <1>10, <1>11 DEF ScriptHolds, CountedOn
<1>13. QED
  BY <1>7, <1>9, <1>12, ScriptMoves

\* Without a write the record of what was written stays.
LEMMA NothingWritten ==
    ASSUME BackfillHolds, NEW f \in Counters, script' = CountAs(f)
    PROVE  script' = [CountAs(f) EXCEPT !.wrote = script.wrote \cup {}]
<1>1. PICK c \in Script : c = script
  BY DEF BackfillHolds
<1>2. PICK p : p = [c EXCEPT !.at = @ + 1, ![f] = @ + 1]
  OBVIOUS
<1>3. p \in Script /\ p.wrote = c.wrote
  BY <1>2, CountedOnce DEF CountedOn
<1>4. p = [p EXCEPT !.wrote = c.wrote \cup {}]
  <2>1. c.wrote \cup {} = c.wrote
    OBVIOUS
  <2>2. \A r \in Script : r = [r EXCEPT !.wrote = r.wrote]
    BY DEF Script
  <2>3. QED
    BY ONLY <1>3, <2>1, <2>2, Zenon
<1>5. QED
  BY <1>1, <1>2, <1>4 DEF CountAs

\* The position stays and the script ends.
LEMMA ScriptStops ==
    ASSUME BackfillHolds, NEW s \in {"completed", "fatal"},
           s = "completed" => script.stage = "running" /\ script.at > script.got,
           script' = [script EXCEPT !.stage = s], UNCHANGED <<range, onRecord>>
    PROVE  BackfillHolds'
<1>1. PICK c \in Script : c = script /\ ScriptHolds(c, onRecord)
  BY DEF BackfillHolds
<1>2. PICK q : q = [c EXCEPT !.stage = s]
  OBVIOUS
<1>3. q \in Script
  BY <1>2 DEF Script, Stages
<1>4. /\ q.at = c.at /\ q.processed = c.processed /\ q.skipped = c.skipped /\ q.failed = c.failed
      /\ q.stage = s /\ q.dryRun = c.dryRun /\ q.wrote = c.wrote /\ q.got = c.got /\ q.heldBack = c.heldBack
  BY <1>2 DEF Script
<1>5. Len(range) \in Nat /\ c.at \in Nat /\ c.got \in Nat
  BY DEF BackfillHolds, Script
<1>6. ScriptHolds(q, onRecord')
  BY <1>1, <1>4, <1>5 DEF ScriptHolds
<1>7. QED
  BY <1>1, <1>2, <1>3, <1>6, ScriptMoves

LEMMA ScriptStarts ==
    ASSUME BackfillHolds, NEW dry \in BOOLEAN, StartScript(dry)
    PROVE  BackfillHolds'
<1>1. script' = [NoScript EXCEPT !.stage = "fetching", !.dryRun = dry]
  BY DEF StartScript
<1>2. PICK n \in Script : /\ n = NoScript /\ n.at = 1 /\ n.processed = 0 /\ n.skipped = 0 /\ n.failed = 0
                         /\ n.wrote = {} /\ n.got = 0
  BY NoScriptHolds DEF BackfillHolds, NoScript
<1>3. PICK q : q = [n EXCEPT !.stage = "fetching", !.dryRun = dry]
  OBVIOUS
<1>4. q \in Script
  BY <1>3 DEF Script, Stages
<1>5. /\ q.at = 1 /\ q.processed = 0 /\ q.skipped = 0 /\ q.failed = 0
      /\ q.stage = "fetching" /\ q.wrote = {} /\ q.got = 0
  BY <1>2, <1>3 DEF Script
<1>6. Len(range) \in Nat
  BY DEF BackfillHolds
<1>7. ScriptHolds(q, onRecord')
  BY <1>5, <1>6, BackfillAssumption DEF ScriptHolds
<1>8. script' = q /\ UNCHANGED <<range, onRecord>>
  BY <1>1, <1>2, <1>3 DEF StartScript
<1>9. QED
  BY <1>4, <1>7, <1>8, ScriptMoves

\* A page: the fetch ends with all that the range has, with the limit, or with
\* events held back.
LEMMA PageFetched ==
    ASSUME BackfillHolds, FetchPage
    PROVE  BackfillHolds'
<1>1. PICK c \in Script : c = script /\ ScriptHolds(c, onRecord) /\ c.stage = "fetching"
  BY DEF BackfillHolds, FetchPage
<1>2. /\ Len(range) \in Nat /\ FetchLimit \in Nat /\ RpcPageLimit \in Nat /\ c.got \in Nat
      /\ c.got <= Len(range) /\ c.got <= FetchLimit /\ c.at = 1
  BY <1>1, BackfillAssumption DEF BackfillHolds, Script, ScriptHolds
<1>3. PICK size \in Nat, left \in Nat : /\ size = Lesser(RpcPageLimit, FetchLimit - c.got) /\ size <= FetchLimit - c.got
                                       /\ left = Len(range) - c.got
  <2>1. FetchLimit - c.got \in Nat /\ Len(range) - c.got \in Nat
    BY <1>2
  <2>2. QED
    BY <1>2, <2>1 DEF Lesser
<1>4. PICK n \in 0 .. Lesser(size, left) :
        script' = [c EXCEPT !.got = @ + n, !.heldBack = @ \/ n < Lesser(size, left),
                    !.stage = IF n < size \/ c.got + n = FetchLimit THEN "running" ELSE "fetching"]
  BY <1>1, <1>3 DEF FetchPage, PageSizeNow, InRange
<1>5. PICK got \in Nat, held \in BOOLEAN, s \in {"running", "fetching"} :
        /\ got = c.got + n /\ held = (c.heldBack \/ n < Lesser(size, left))
        /\ s = IF n < size \/ got = FetchLimit THEN "running" ELSE "fetching"
  <2>1. c.got + n \in Nat /\ c.heldBack \in BOOLEAN
    BY <1>2, <1>4 DEF Script
  <2>2. QED
    BY <2>1
<1>6. PICK q : q = [c EXCEPT !.got = got, !.heldBack = held, !.stage = s]
  OBVIOUS
<1>7. q \in Script
  BY <1>6 DEF Script, Stages
<1>8. /\ q.at = c.at /\ q.processed = c.processed /\ q.skipped = c.skipped /\ q.failed = c.failed
      /\ q.stage = s /\ q.dryRun = c.dryRun /\ q.wrote = c.wrote /\ q.got = got /\ q.heldBack = held
  BY <1>6 DEF Script
<1>9. script' = q /\ UNCHANGED <<range, onRecord>>
  BY <1>1, <1>4, <1>5, <1>6 DEF FetchPage
<1>10. got <= Len(range) /\ got <= FetchLimit
  BY <1>2, <1>3, <1>4, <1>5 DEF Lesser
<1>11. s = "running" /\ ~held => got = Lesser(Len(range), FetchLimit)
  <2> SUFFICES ASSUME s = "running", ~held PROVE got = Lesser(Len(range), FetchLimit)
    OBVIOUS
  <2>1. n \in Nat /\ got = c.got + n /\ n <= size /\ n <= left /\ (n = size \/ n = left)
    <3>1. n \in 0 .. Lesser(size, left) /\ ~ (n < Lesser(size, left)) /\ got = c.got + n
      BY <1>5
    <3>2. QED
      BY ONLY <3>1, size \in Nat, left \in Nat DEF Lesser
  <2>2. n < size \/ got = FetchLimit
    BY <1>5
  <2>3. got = Len(range) \/ got = FetchLimit
    <3>1. left = Len(range) - c.got /\ size \in Nat /\ left \in Nat
      BY <1>3
    <3>2. QED
      BY ONLY <1>2, <2>1, <2>2, <3>1
  <2>4. QED
    BY <1>2, <1>10, <2>3 DEF Lesser
<1>12. ScriptHolds(q, onRecord')
  BY <1>1, <1>2, <1>5, <1>8, <1>9, <1>10, <1>11 DEF ScriptHolds
<1>13. QED
  BY <1>7, <1>9, <1>12, ScriptMoves

LEMMA BackfillStep ==
    ASSUME BackfillHolds, [BackfillNext]_backfillVars
    PROVE  BackfillHolds'
<1>1. PICK c \in Script : c = script /\ ScriptHolds(c, onRecord)
  BY DEF BackfillHolds
<1>2. CASE UNCHANGED backfillVars \/ \E i \in DOMAIN range : RecordedElsewhere(i)
  <2>1. range' = range /\ onRecord \subseteq onRecord' /\ script' = script
    BY <1>2 DEF RecordedElsewhere, backfillVars
  <2>2. ScriptHolds(c, onRecord')
    BY <1>1, <2>1 DEF ScriptHolds
  <2>3. QED
    BY <1>1, <2>1, <2>2, ScriptMoves
<1>3. CASE QuarantineMalformed
  <2>1. AtEvent /\ "failed" \in Counters /\ UNCHANGED <<range, onRecord>>
    BY <1>3 DEF QuarantineMalformed, Counters
  <2>2. CASE script.dryRun
    <3>1. script' = [CountAs("failed") EXCEPT !.wrote = script.wrote \cup {}]
      BY <1>3, <2>1, <2>2, NothingWritten DEF QuarantineMalformed
    <3>2. QED
      BY <2>1, <3>1, EventCounted
  <2>3. CASE ~script.dryRun /\ script' = [CountAs("failed") EXCEPT !.wrote = @ \cup {script.at}]
    <3>1. script' = [CountAs("failed") EXCEPT !.wrote = script.wrote \cup {script.at}]
      BY <1>1, <2>1, <2>3, CountedOnce DEF CountAs, CountedOn, Script
    <3>2. QED
      BY <2>1, <2>3, <3>1, EventCounted
  <2>4. CASE script' = [script EXCEPT !.stage = "fatal"]
    BY <2>1, <2>4, ScriptStops
  <2>5. QED
    BY <1>3, <2>2, <2>3, <2>4 DEF QuarantineMalformed
<1>4. CASE ForecastEvent
  <2>1. PICK f \in Counters : script' = CountAs(f)
    BY <1>4 DEF ForecastEvent, Counters
  <2>2. AtEvent /\ script.dryRun /\ UNCHANGED <<range, onRecord>>
    BY <1>4 DEF ForecastEvent
  <2>3. PICK w \in SUBSET {script.at} : w = {}
    OBVIOUS
  <2>4. script' = [CountAs(f) EXCEPT !.wrote = script.wrote \cup w]
    BY <2>1, <2>3, NothingWritten
  <2>5. QED
    BY <2>1, <2>2, <2>3, <2>4, EventCounted
<1>5. CASE ReconcileOne
  <2>1. /\ AtEvent /\ "processed" \in Counters /\ ~script.dryRun /\ range' = range
        /\ onRecord \subseteq onRecord' /\ Event.tx \in onRecord'
    BY <1>5 DEF ReconcileOne, Counters
  <2>2. script' = [CountAs("processed") EXCEPT !.wrote = script.wrote \cup {script.at}]
    BY <1>1, <1>5, <2>1, CountedOnce DEF ReconcileOne, CountAs, Script
  <2>3. QED
    BY <2>1, <2>2, EventCounted
<1>6. ASSUME NEW error \in {"P2002", "database"}, ReconcileThrows(error) PROVE BackfillHolds'
  <2>1. PICK f \in Counters : script' = CountAs(f) /\ (f = "failed" \/ Event.tx \in onRecord)
    BY <1>6 DEF ReconcileThrows, isDuplicate, Counters
  <2>2. AtEvent /\ ~script.dryRun /\ UNCHANGED <<range, onRecord>>
    BY <1>6 DEF ReconcileThrows
  <2>3. PICK w \in SUBSET {script.at} : w = {}
    OBVIOUS
  <2>4. script' = [CountAs(f) EXCEPT !.wrote = script.wrote \cup w]
    BY <2>1, <2>3, NothingWritten
  <2>5. QED
    BY <2>1, <2>2, <2>3, <2>4, EventCounted
<1>7. CASE CompleteScript
  BY <1>7, ScriptStops DEF CompleteScript
<1>8. CASE FetchFails
  BY <1>8, ScriptStops DEF FetchFails
<1>9. QED
  BY <1>2, <1>3, <1>4, <1>5, <1>6, <1>7, <1>8, PageFetched, ScriptStarts DEF BackfillNext

LEMMA BackfillsStayHeld == BackfillSpec => []BackfillHolds
<1>1. BackfillInit => BackfillHolds
  <2> SUFFICES ASSUME BackfillInit PROVE BackfillHolds
    OBVIOUS
  <2>1. range \in Seq([tx : Nat, decodes : BOOLEAN]) /\ script = NoScript /\ onRecord = {}
    BY BackfillAssumption DEF BackfillInit
  <2>2. QED
    BY <2>1, NoScriptHolds DEF BackfillHolds
<1>2. QED
  BY <1>1, BackfillStep, PTL DEF BackfillSpec

LEMMA BackfillIsComplete == BackfillHolds => BackfillComplete
<1> SUFFICES ASSUME BackfillHolds PROVE BackfillComplete
  OBVIOUS
<1>1. PICK c \in Script : c = script /\ ScriptHolds(c, onRecord)
  BY DEF BackfillHolds
<1>2. Len(range) \in Nat /\ DOMAIN range = 1..Len(range)
  BY DEF BackfillHolds
<1>3. c.at \in Nat /\ c.got \in Nat
  BY DEF Script
<1>4. c.dryRun => c.wrote = {}
  BY <1>1 DEF ScriptHolds
<1>5. c.stage = "completed" => /\ c.at - 1 = c.got /\ c.processed + c.skipped + c.failed = c.at - 1
                               /\ ~c.heldBack => c.got = Lesser(Len(range), FetchLimit)
                               /\ c.failed = 0 /\ ~c.dryRun => \A i \in 1..(c.at - 1) : range[i].tx \in onRecord
  BY <1>1, <1>3 DEF ScriptHolds
<1>6. QED
  BY <1>1, <1>4, <1>5 DEF BackfillComplete

-----------------------------------------------------------------------------
\* What the operators rely on holds in every state of the reminders, the
\* backups, the deployment, its checks and the back-fill: a complete dump is
\* kept, half of one is restored only by a drill that chose its file while a
\* dump was under way or after a failed one, none is restored into production,
\* attested parts agree, a clean TTL report is ahead of every expiry, nobody is
\* reminded twice, and a back-fill without failures has recorded what it fetched,
\* the whole range unless a node held events back or the limit was reached.
THEOREM OperationsStaySafe ==
  ReminderSpec /\ BackupSpec /\ DeploySpec /\ ReleaseSpec /\ BackfillSpec => []OperationsSafe
<1>1. RemindersHold => RemindedOnce
  BY DEF RemindersHold
<1>2. BackupsHold => RestorableBackupKept /\ HalfRestoresAreExcused /\ ProductionNeverRestored
  BY DEF BackupsHold, DumpHolds
<1>3. ReleaseHolds => CleanReportIsAhead
  BY DEF ReleaseHolds
<1>4. RemindersHold /\ BackupsHold /\ DeployHolds /\ ReleaseHolds /\ BackfillHolds => OperationsSafe
  BY <1>1, <1>2, <1>3, DeploymentAgrees, BackfillIsComplete DEF OperationsSafe
<1>5. QED
  BY <1>4, RemindersStayOnce, BackupsStayHeld, DeploymentStaysAttested, ReleasesStayHeld, BackfillsStayHeld, PTL

-----------------------------------------------------------------------------
(* The services as a whole: in the composition one of them runs and the    *)
(* others wait.                                                            *)

\* A step of the services is a step of each of them, or leaves it as it is.
LEMMA StepsOfServices ==
    [MCNext]_mcVars =>
      /\ [LedgerNext]_ledgerVars
      /\ [RepairNext]_repairVars
      /\ [EscrowNext]_escrowVars
      /\ [QuestNext]_questVars
      /\ [SessionNext]_sessionVars
      /\ [ReminderNext]_reminderVars
      /\ [BackupNext]_backupVars
      /\ [ProofsNext]_proofVars
      /\ [ViewNext]_viewVars
      /\ [DeployNext]_deployVars
      /\ [ReleaseNext]_releaseVars
      /\ [CriticalNext]_criticalVars
      /\ [AmountNext]_amountVars
      /\ [CacheNext]_cacheVars
      /\ [BackfillNext]_backfillVars
<1>1. UNCHANGED mcVars =>
        /\ UNCHANGED ledgerVars
        /\ UNCHANGED repairVars
        /\ UNCHANGED escrowVars
        /\ UNCHANGED questVars
        /\ UNCHANGED sessionVars
        /\ UNCHANGED reminderVars
        /\ UNCHANGED backupVars
        /\ UNCHANGED proofVars
        /\ UNCHANGED viewVars
        /\ UNCHANGED deployVars
        /\ UNCHANGED releaseVars
        /\ UNCHANGED criticalVars
        /\ UNCHANGED amountVars
        /\ UNCHANGED cacheVars
        /\ UNCHANGED backfillVars
  BY DEF mcVars
<1>2. MCNext => Frame
  BY DEF MCNext
<1>3. MCNext => LedgerNext \/ UNCHANGED ledgerVars
  <2>1. MCNext /\ scenario = "ledger" => LedgerNext
    BY DEF MCNext, MCLedgerNext
  <2>2. QED
    BY <1>2, <2>1 DEF Frame, Keeps
<1>4. MCNext => RepairNext \/ UNCHANGED repairVars
  <2>1. MCNext /\ scenario = "repair" => RepairNext
    BY DEF MCNext, MCRepairNext
  <2>2. QED
    BY <1>2, <2>1 DEF Frame, Keeps
<1>5. MCNext => EscrowNext \/ UNCHANGED escrowVars
  <2>1. MCNext /\ scenario = "escrow" => EscrowNext
    BY DEF MCNext, MCEscrowNext
  <2>2. QED
    BY <1>2, <2>1 DEF Frame, Keeps
<1>6. MCNext => QuestNext \/ UNCHANGED questVars
  <2>1. MCNext /\ scenario = "quests" => QuestNext
    BY DEF MCNext, MCQuestNext
  <2>2. QED
    BY <1>2, <2>1 DEF Frame, Keeps
<1>7. MCNext => SessionNext \/ UNCHANGED sessionVars
  <2>1. MCNext /\ scenario = "sessions" => SessionNext
    BY DEF MCNext
  <2>2. QED
    BY <1>2, <2>1 DEF Frame, Keeps
<1>8. MCNext => ReminderNext \/ UNCHANGED reminderVars
  <2>1. MCNext /\ scenario = "reminders" => ReminderNext
    BY DEF MCNext
  <2>2. QED
    BY <1>2, <2>1 DEF Frame, Keeps
<1>9. MCNext => BackupNext \/ UNCHANGED backupVars
  <2>1. MCNext /\ scenario = "backups" => BackupNext
    BY DEF MCNext, MCBackupNext
  <2>2. QED
    BY <1>2, <2>1 DEF Frame, Keeps
<1>10. MCNext => ProofsNext \/ UNCHANGED proofVars
  <2>1. MCNext /\ scenario = "proofs" => ProofsNext
    BY DEF MCNext, MCProofsNext
  <2>2. QED
    BY <1>2, <2>1 DEF Frame, Keeps
<1>11. MCNext => ViewNext \/ UNCHANGED viewVars
  <2>1. MCNext /\ scenario = "views" => ViewNext
    BY DEF MCNext, MCViewNext
  <2>2. QED
    BY <1>2, <2>1 DEF Frame, Keeps
<1>12. MCNext => DeployNext \/ UNCHANGED deployVars
  <2>1. MCNext /\ scenario = "deployment" => DeployNext
    BY DEF MCNext
  <2>2. QED
    BY <1>2, <2>1 DEF Frame, Keeps
<1>13. MCNext => ReleaseNext \/ UNCHANGED releaseVars
  <2>1. MCNext /\ scenario = "release" => ReleaseNext
    BY DEF MCNext, MCReleaseNext
  <2>2. QED
    BY <1>2, <2>1 DEF Frame, Keeps
<1>14. MCNext => CriticalNext \/ UNCHANGED criticalVars
  <2>1. MCNext /\ scenario = "critical reads" => CriticalNext
    BY DEF MCNext, MCCriticalNext
  <2>2. QED
    BY <1>2, <2>1 DEF Frame, Keeps
<1>15. MCNext => AmountNext \/ UNCHANGED amountVars
  <2>1. MCNext /\ scenario = "amounts" => AmountNext
    BY DEF MCNext
  <2>2. QED
    BY <1>2, <2>1 DEF Frame, Keeps
<1>16. MCNext => CacheNext \/ UNCHANGED cacheVars
  <2>1. MCNext /\ scenario = "cache" => CacheNext
    BY DEF MCNext
  <2>2. QED
    BY <1>2, <2>1 DEF Frame, Keeps
<1>17. MCNext => BackfillNext \/ UNCHANGED backfillVars
  <2>1. MCNext /\ scenario = "backfill" => BackfillNext
    BY DEF MCNext
  <2>2. QED
    BY <1>2, <2>1 DEF Frame, Keeps
<1>18. QED
  BY <1>1, <1>3, <1>4, <1>5, <1>6, <1>7, <1>8, <1>9, <1>10, <1>11, <1>12, <1>13, <1>14, <1>15,
     <1>16, <1>17

\* A behaviour of the services is one of each of them.
LEMMA EachServiceRuns ==
    MCSpec =>
      /\ LedgerSpec /\ RepairSpec /\ EscrowSpec /\ QuestSpec /\ SessionSpec /\ ReminderSpec
      /\ BackupSpec /\ ProofsSpec /\ ViewSpec /\ DeploySpec /\ ReleaseSpec /\ CriticalSpec
      /\ AmountSpec /\ CacheSpec /\ BackfillSpec
<1>1. MCInit =>
      /\ LedgerInit /\ RepairInit /\ EscrowInit /\ QuestInit /\ SessionInit /\ ReminderInit
      /\ BackupInit /\ ProofsInit /\ ViewInit /\ DeployInit /\ ReleaseInit /\ CriticalInit
      /\ AmountInit /\ CacheInit /\ BackfillInit
  BY DEF MCInit, MCProofsInit, MCCriticalInit
<1>2. QED
  BY <1>1, StepsOfServices, PTL
  DEF MCSpec, LedgerSpec, RepairSpec, EscrowSpec, QuestSpec, SessionSpec, ReminderSpec, BackupSpec,
      ProofsSpec, ViewSpec, DeploySpec, ReleaseSpec, CriticalSpec, AmountSpec, CacheSpec,
      BackfillSpec

\* The services as the runs compose them keep all of these properties, for
\* any constants: the ledger, repairs, escrow, grants, sessions and draw proofs
\* are sound, operations safe, reads true, and a portfolio stands firm.
THEOREM ServicesAreSound ==
    MCSpec => /\ [](LedgerSound /\ RepairsControlled /\ SettlementSound /\ GrantsCreditOnce)
              /\ [](SessionsSound /\ ProofsSound /\ OperationsSafe /\ ReadsAreTrue)
              /\ StandsFirm
BY EachServiceRuns, LedgerStaysSound, RepairsStayControlled, SettlementStaysSound, GrantsStayCreditedOnce,
   SessionsStaySound, DrawProofsStaySound, OperationsStaySafe, ReadsStayTrue, PortfolioStandsFirm, PTL
=============================================================================
