--------------------------- MODULE RepairProposals ---------------------------
(***************************************************************************)
(* Dual-controlled repair of ledger drift (services/reconciler.ts and      *)
(* routes/reconciliation.ts): drift is detected, a plan is proposed,       *)
(* approved by people other than its proposer, and executed.  Every        *)
(* statement of approveRepairProposal and executeRepairProposal is a step  *)
(* of its own, because operators call them concurrently and the rows that  *)
(* the plan is about keep changing.                                        *)
(*                                                                         *)
(* The rows are one action with its parked event, one event without an     *)
(* action and one settlement; duplicate_tx_hash cannot occur (tx_hash is   *)
(* unique).                                                                *)
(***************************************************************************)
EXTENDS FiniteSets, Naturals

CONSTANTS
  Operators,              \* identities that propose, approve and execute
  DualControlStepThreshold,
  MaxStepsPerProposal,
  MaxDrift                \* bound on changes of the rows by the rest of the system

VARIABLES
  rows,       \* what the tables say of the action, the events and the settlement
  proposal,   \* the repair_proposals row, its plan and its approvals
  ops,        \* locals of each operator's call
  quarantine, \* drift types with an open repair_quarantine row
  drift       \* changes of the rows so far, bounded by MaxDrift

repairVars == <<rows, proposal, ops, quarantine, drift>>

Steps == {"orphan_action", "delete_stray", "delete_stale", "roll_back_settlement"}
ReviewOnly == {"contradiction", "missing_settlement", "insolvency_drift"}
DriftTypes == ReviewOnly \cup {"missing_event", "missing_action", "stale_orphan",
                               "orphaned_settlement", "stale_pending_event"}

NoOp == [op |-> "idle", pc |-> "idle", seen |-> 0, todo |-> {}]
NoProposal == [status |-> "absent", steps |-> {}, drifts |-> {}, proposer |-> "nobody",
               required |-> 0, approvals |-> {}, expired |-> FALSE]

RepairInit ==
  /\ rows = [action |-> "submitted", old |-> FALSE, event |-> "none", stray |-> "none",
             settlement |-> "none", overdrawn |-> FALSE]
  /\ proposal = NoProposal
  /\ ops = [o \in Operators |-> NoOp]
  /\ quarantine = {}
  /\ drift = 0

-----------------------------------------------------------------------------
(* Detection and planning.                                                   *)
\* Actions against parked events.
eventDrifts ==
  {d \in DriftTypes :
    \/ d = "missing_event" /\ rows.action = "submitted" /\ rows.event = "none"
    \/ d = "missing_action" /\ rows.stray # "none"
    \/ d = "stale_orphan" /\ rows.action = "orphaned" /\ rows.old
    \/ /\ d = "contradiction" /\ rows.action \in {"confirmed", "reverted"}
       /\ rows.event \notin {"none", rows.action}}

\* Settlements, old events and the deposits and withdrawals of a vault.
settlementDrifts ==
  {d \in DriftTypes :
    \/ d = "orphaned_settlement" /\ rows.settlement = "stuck"
    \/ d = "missing_settlement" /\ rows.action = "confirmed" /\ rows.settlement = "none"
    \/ d = "stale_pending_event" /\ rows.stray = "day"
    \/ d = "insolvency_drift" /\ rows.overdrawn}

detectDrift == eventDrifts \cup settlementDrifts

\* Drifts of the other types are logged or quarantined, never repaired.
buildRepairPlan(drifts) ==
  {s \in Steps :
    CASE s = "orphan_action"        -> "missing_event" \in drifts /\ rows.old
      [] s = "delete_stray"         -> "missing_action" \in drifts /\ rows.stray # "new"
      [] s = "delete_stale"         -> "stale_pending_event" \in drifts
      [] s = "roll_back_settlement" -> "orphaned_settlement" \in drifts}

requiredApprovals_OffByOne(steps) == IF Cardinality(steps) > DualControlStepThreshold + 1 THEN 2 ELSE 1

\* No step carries an amount, so only the number of steps counts.
requiredApprovals(steps) == IF Cardinality(steps) > DualControlStepThreshold THEN 2 ELSE 1

createRepairProposal(o) ==
  LET drifts == detectDrift
      steps  == buildRepairPlan(drifts) IN
  /\ proposal.status = "absent"
  /\ steps # {} /\ Cardinality(steps) <= MaxStepsPerProposal
  /\ proposal' = [NoProposal EXCEPT !.status = "pending", !.steps = steps, !.drifts = drifts,
                                    !.proposer = o, !.required = requiredApprovals(steps)]
  /\ UNCHANGED <<rows, ops, quarantine, drift>>

-----------------------------------------------------------------------------
(* approveRepairProposal: read, insert the approval, write the status that  *)
(* follows from the number of approvals read.                                *)
approveRepairProposal_read(o) ==
  /\ ops[o] = NoOp
  /\ proposal.status \in {"pending", "approved"}
  /\ \/ /\ proposal.expired
        /\ proposal' = [proposal EXCEPT !.status = "expired"]
        /\ UNCHANGED ops
     \/ /\ ~ proposal.expired
        /\ o # proposal.proposer /\ o \notin proposal.approvals
        /\ ops' = [ops EXCEPT ![o] = [NoOp EXCEPT !.op = "approve", !.pc = "read",
                                                  !.seen = Cardinality(proposal.approvals)]]
        /\ UNCHANGED proposal
  /\ UNCHANGED <<rows, quarantine, drift>>

approveRepairProposal_insert(o) ==
  /\ ops[o].op = "approve" /\ ops[o].pc = "read"
  /\ proposal' = [proposal EXCEPT !.approvals = @ \cup {o}]
  /\ ops' = [ops EXCEPT ![o].pc = "inserted"]
  /\ UNCHANGED <<rows, quarantine, drift>>

approveRepairProposal_status(o) ==
  /\ ops[o].op = "approve" /\ ops[o].pc = "inserted"
  /\ proposal' = [proposal EXCEPT !.status =
                    IF ops[o].seen + 1 >= proposal.required THEN "approved" ELSE "pending"]
  /\ ops' = [ops EXCEPT ![o] = NoOp]
  /\ UNCHANGED <<rows, quarantine, drift>>

-----------------------------------------------------------------------------
(* executeRepairProposal: read and check, applyRepairPlan step by step,      *)
(* quarantine, status.                                                       *)
executeRepairProposal_read(o) ==
  /\ ops[o] = NoOp
  /\ proposal.status = "approved"
  /\ \/ /\ proposal.expired
        /\ proposal' = [proposal EXCEPT !.status = "expired"]
        /\ UNCHANGED ops
     \/ /\ ~ proposal.expired /\ Cardinality(proposal.approvals) >= proposal.required
        /\ ops' = [ops EXCEPT ![o] = [NoOp EXCEPT !.op = "execute", !.pc = "applying",
                                                  !.todo = proposal.steps]]
        /\ UNCHANGED proposal
  /\ UNCHANGED <<rows, quarantine, drift>>

\* Rows after a step: updates are by id and unconditional; deleting a row that
\* is gone fails and is skipped.
Repaired(s) ==
  CASE s = "orphan_action"        -> [rows EXCEPT !.action = "orphaned", !.old = FALSE]
    [] s = "roll_back_settlement" -> [rows EXCEPT !.settlement = "Unresolved"]
    [] OTHER                      -> [rows EXCEPT !.stray = "none"]

\* The audit lookup compares a path the stored plan does not have, so it never
\* finds a step that was applied before.
applyRepairPlan_step(o, s) ==
  /\ ops[o].pc = "applying" /\ s \in ops[o].todo
  /\ rows' = Repaired(s)
  /\ ops' = [ops EXCEPT ![o].todo = @ \ {s}]
  /\ UNCHANGED <<proposal, quarantine, drift>>

Reviewed(drifts) == drifts \cap ReviewOnly

applyRepairPlan_quarantine(o) ==
  /\ ops[o].pc = "applying" /\ ops[o].todo = {}
  /\ quarantine' = quarantine \cup Reviewed(proposal.drifts)
  /\ ops' = [ops EXCEPT ![o].pc = "quarantined"]
  /\ UNCHANGED <<rows, proposal, drift>>

executeRepairProposal_status(o) ==
  /\ ops[o].pc = "quarantined"
  /\ proposal' = [proposal EXCEPT !.status = "executed"]
  /\ ops' = [ops EXCEPT ![o] = NoOp]
  /\ UNCHANGED <<rows, quarantine, drift>>

\* The request dies between two statements.
RepairCrash(o) ==
  /\ ops[o] # NoOp
  /\ ops' = [ops EXCEPT ![o] = NoOp]
  /\ UNCHANGED <<rows, proposal, quarantine, drift>>

-----------------------------------------------------------------------------
(* The rest of the system: events arrive, settlements proceed, time passes.  *)
RowsChange ==
  /\ drift < MaxDrift /\ drift' = drift + 1
  /\ \/ /\ rows.action \in {"submitted", "orphaned"}
        /\ \E s \in {"confirmed", "reverted"} : rows' = [rows EXCEPT !.action = s]
     \/ rows.action = "orphaned" /\ rows' = [rows EXCEPT !.action = "submitted", !.old = FALSE]
     \/ ~ rows.old /\ rows' = [rows EXCEPT !.old = TRUE]
     \/ rows.event = "none" /\ \E s \in {"confirmed", "reverted"} : rows' = [rows EXCEPT !.event = s]
     \/ rows.stray = "none" /\ rows' = [rows EXCEPT !.stray = "new"]
     \/ rows.stray = "new" /\ \E a \in {"hour", "day"} : rows' = [rows EXCEPT !.stray = a]
     \/ rows.settlement \in {"none", "Unresolved"} /\ rows' = [rows EXCEPT !.settlement = "Resolving"]
     \/ rows.settlement = "Resolving" /\ rows' = [rows EXCEPT !.settlement = "stuck"]
     \/ rows.settlement = "stuck" /\ rows' = [rows EXCEPT !.settlement = "Resolved"]
     \/ rows' = [rows EXCEPT !.overdrawn = TRUE]
  /\ UNCHANGED <<proposal, ops, quarantine>>

RepairExpires ==
  /\ proposal.status # "absent" /\ ~ proposal.expired
  /\ proposal' = [proposal EXCEPT !.expired = TRUE]
  /\ UNCHANGED <<rows, ops, quarantine, drift>>

RepairNext ==
  \/ \E o \in Operators :
       \/ createRepairProposal(o)
       \/ approveRepairProposal_read(o) \/ approveRepairProposal_insert(o)
       \/ approveRepairProposal_status(o)
       \/ executeRepairProposal_read(o) \/ (\E s \in Steps : applyRepairPlan_step(o, s))
       \/ applyRepairPlan_quarantine(o) \/ executeRepairProposal_status(o)
       \/ RepairCrash(o)
  \/ RowsChange \/ RepairExpires

RepairSpec == RepairInit /\ [][RepairNext]_repairVars

-----------------------------------------------------------------------------
(* The repair tables and calls keep the shapes of the schema.                *)
RepairTypeOK ==
  /\ proposal.status \in {"absent", "pending", "approved", "executed", "expired"}
  /\ proposal.steps \subseteq Steps /\ proposal.drifts \subseteq DriftTypes
  /\ proposal.approvals \subseteq Operators /\ proposal.required \in 0 .. 2
  /\ quarantine \subseteq ReviewOnly
  /\ \A o \in Operators : ops[o].todo \subseteq proposal.steps

(* However approvals, executions and statuses race, no step of a plan above  *)
(* the limit is applied before two people, and of any other plan before one  *)
(* person, other than the proposer approved it: "proposals above the         *)
(* configured limits need two distinct approvers".                           *)
DualControl ==
  \A o \in Operators : ops[o].op = "execute" =>
    Cardinality(proposal.approvals \ {proposal.proposer}) >=
      IF Cardinality(proposal.steps) > DualControlStepThreshold THEN 2 ELSE 1

(* An executed proposal leaves no financial drift of its plan without an     *)
(* open quarantine row for an operator, even if earlier executions crashed.  *)
FinancialDriftReviewed ==
  proposal.status = "executed" => proposal.drifts \cap ReviewOnly \subseteq quarantine

\* Nothing reconciler.ts executes escaped the approvals it needs, although
\* proposals are made, approved and executed by racing operators.
RepairsControlled ==
  /\ RepairTypeOK
  /\ DualControl
  /\ FinancialDriftReviewed
=============================================================================
