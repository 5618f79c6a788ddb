-------------------------- MODULE WorkflowRegister --------------------------
(***************************************************************************)
(* What WorkflowRepository promises of the stored workflows, without       *)
(* locks, reads and writes: every operation happens at one moment, to the  *)
(* record as it is at that moment, and only if the state machine allows    *)
(* it; the release of a workflow asks for no permission.                   *)
(***************************************************************************)
EXTENDS WorkflowStateMachine

CONSTANTS Workflow, NoRecord

VARIABLE workflows

RegisterInit ==
  workflows \in [Workflow -> {NoRecord} \cup
                              {Submitted(s) : s \in Signature \cup {Undefined}}]

Create(w, s) ==
  /\ workflows[w] = NoRecord
  /\ workflows' = [workflows EXCEPT ![w] = Submitted(s)]

Set(w, to, k, v) ==
  /\ workflows[w] # NoRecord
  /\ MaySet(workflows[w], to)
  /\ to = "CLAIMED" => k \in Worker
  /\ workflows' = [workflows EXCEPT ![w] = Moved(@, to, k, v)]

RegisterNext ==
  \E w \in Workflow :
    \/ \E s \in Signature \cup {Undefined} : Create(w, s)
    \/ \E to \in Wanted, k \in Worker \cup {Undefined}, v \in Value : Set(w, to, k, v)

RegisterSpec == RegisterInit /\ [][RegisterNext]_workflows
=============================================================================
