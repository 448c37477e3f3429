---------------------------- MODULE ApprovalQueue ---------------------------
(***************************************************************************)
(* The queue of actions parked for a human ruling (features/governance/    *)
(* approvals.ts).  A component that parks an action enqueues it, a         *)
(* supervisor decides it, and the component redeems the decision once.     *)
(*                                                                         *)
(* `subject` stands for the (agent, action) pair an approval is bound to.  *)
(***************************************************************************)
EXTENDS Naturals

CONSTANTS
  ApprovalId,  \* ids newApprovalId() can return
  Subject      \* (agent, action) pairs, up to policyActionMatches

VARIABLE approval  \* [ApprovalId -> Row \cup {NoRow}], the repository

Decision == {"approved", "denied"}
NoRow == [status |-> "none"]
Row == [status : {"pending", "consumed"} \cup Decision,
        decision : {"none"} \cup Decision,
        subject : Subject]

Parked(id) == approval[id] # NoRow
Pending(id) == approval[id].status = "pending"

Enqueue(id, s) ==
  /\ ~Parked(id)
  /\ approval' = [approval EXCEPT ![id] =
                    [status |-> "pending", decision |-> "none", subject |-> s]]

(* A second, identical decision changes nothing; the opposite one throws.  *)
Resolve(id, target) ==
  /\ Pending(id)
  /\ approval' = [approval EXCEPT ![id].status = target, ![id].decision = target]

Redeemable(id, s) ==
  /\ approval[id].status \in Decision
  /\ approval[id].subject = s

Consume(id, s) ==
  /\ Redeemable(id, s)
  /\ approval' = [approval EXCEPT ![id].status = "consumed"]

Init == approval = [id \in ApprovalId |-> NoRow]
TypeOK == approval \in [ApprovalId -> Row \cup {NoRow}]
=============================================================================
