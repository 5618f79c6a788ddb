------------------------ MODULE WorkflowStateMachine ------------------------
(***************************************************************************)
(* The life of a workflow: its states, the transitions the code allows     *)
(* (src/core/state/WorkflowStateMachine.ts), and what the operations of    *)
(* WorkflowRepository (src/core/repositories/index.ts) write into its      *)
(* record.  Names, payloads, reasons and times are left out; a result is   *)
(* named by what produced it.                                              *)
(***************************************************************************)
CONSTANTS
  Worker,      \* worker ids
  Signature,   \* signatures workflows may be submitted with
  Value,       \* results
  Undefined    \* no worker, no signature, no result

WorkflowState ==
  {"CREATED", "QUEUED", "CLAIMED", "RUNNING", "WAITING",
   "COMPLETED", "FAILED", "CANCELLED", "EXPIRED"}

allowedTransitions ==
  [CREATED   |-> {"QUEUED", "CLAIMED", "RUNNING", "CANCELLED"},
   QUEUED    |-> {"CLAIMED", "RUNNING", "CANCELLED", "EXPIRED"},
   CLAIMED   |-> {"RUNNING", "COMPLETED", "FAILED", "CANCELLED", "EXPIRED"},
   RUNNING   |-> {"WAITING", "COMPLETED", "FAILED", "CANCELLED", "EXPIRED"},
   WAITING   |-> {"RUNNING", "FAILED", "CANCELLED", "EXPIRED"},
   COMPLETED |-> {},
   FAILED    |-> {"QUEUED", "CLAIMED"},
   CANCELLED |-> {},
   EXPIRED   |-> {"QUEUED", "CLAIMED"}]

canTransition(from, to) == from = to \/ to \in allowedTransitions[from]

WorkflowRecord ==
  [state : WorkflowState,
   workerId : Worker \cup {Undefined},
   result : Value \cup {Undefined},
   signature : Signature \cup {Undefined}]

Submitted(s) ==
  [state |-> "CREATED", workerId |-> Undefined, result |-> Undefined,
   signature |-> s]

(* The states the repository sets. *)
Wanted == {"CLAIMED", "COMPLETED", "FAILED", "CANCELLED", "QUEUED"}

(* releaseWorkflow sets QUEUED without a look at the transitions. *)
MaySet(r, to) == to = "QUEUED" \/ canTransition(r.state, to)

(* Mutant of Moved: worker and result swapped. *)
MovedSwapped(r, to, k, v) ==
  [r EXCEPT !.state = to,
            !.workerId = IF to = "CLAIMED" THEN v ELSE @,
            !.result = IF to = "COMPLETED" THEN k ELSE @]

(* The record r set to state `to`: a claim puts the worker k into it, a     *)
(* release removes it, a completion puts in the result v.  An earlier      *)
(* result stays in the record.                                             *)
Moved(r, to, k, v) ==
  [r EXCEPT !.state = to,
            !.workerId = IF to = "CLAIMED" THEN k
                         ELSE IF to = "QUEUED" THEN Undefined ELSE @,
            !.result = IF to = "COMPLETED" THEN v ELSE @]
=============================================================================
