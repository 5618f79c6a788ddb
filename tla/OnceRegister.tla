---------------------------- MODULE OnceRegister ----------------------------
(***************************************************************************)
(* What executeOnce promises (src/diary.ts:154-158), without the lock, the *)
(* history and the writes: one register per task signature.  The first     *)
(* call takes a new task and runs its function; the register then has the  *)
(* result, or the fact that there is none; later calls are answered from   *)
(* it, and nobody is answered while the function is running.  A failed     *)
(* task is not run again and its callers get no result: that is what the   *)
(* code does.                                                              *)
(***************************************************************************)
CONSTANTS Call, Signature, NoCall, Undefined,
          Raw(_),      \* what the function of a call returns
          Text(_)      \* what is stored of a value

VARIABLES asks,     \* the signature each call asks for, NoCall before it does
          task,     \* "new", "running", "done" or "failed"
          runner,   \* the call that runs the function
          memo,     \* the stored result
          answers   \* how each call ended: "none", "returned", "threw" and a result

registerVars == <<asks, task, runner, memo, answers>>

Unanswered == [how |-> "none", value |-> Undefined]

RegisterInit ==
  /\ asks = [c \in Call |-> NoCall]
  /\ task = [s \in Signature |-> "new"]
  /\ runner = [s \in Signature |-> NoCall]
  /\ memo = [s \in Signature |-> Undefined]
  /\ answers = [c \in Call |-> Unanswered]

AskFor(c, s) ==
  /\ asks[c] = NoCall
  /\ asks' = [asks EXCEPT ![c] = s]
  /\ UNCHANGED <<task, runner, memo, answers>>

Open(c, s) == asks[c] = s /\ answers[c] = Unanswered

Answer(c, how, value) ==
  answers' = [answers EXCEPT ![c] = [how |-> how, value |-> value]]

Take(c, s) ==
  /\ Open(c, s) /\ task[s] = "new"
  /\ task' = [task EXCEPT ![s] = "running"]
  /\ runner' = [runner EXCEPT ![s] = c]
  /\ UNCHANGED <<asks, memo, answers>>

Complete(c, s) ==
  /\ Open(c, s) /\ runner[s] = c
  /\ task' = [task EXCEPT ![s] = "done"]
  /\ runner' = [runner EXCEPT ![s] = NoCall]
  /\ memo' = [memo EXCEPT ![s] = Text(Raw(c))]
  /\ Answer(c, "returned", Raw(c))
  /\ UNCHANGED asks

Fail(c, s) ==
  /\ Open(c, s) /\ runner[s] = c
  /\ task' = [task EXCEPT ![s] = "failed"]
  /\ runner' = [runner EXCEPT ![s] = NoCall]
  /\ Answer(c, "threw", Undefined)
  /\ UNCHANGED <<asks, memo>>

Recall(c, s) ==
  /\ Open(c, s) /\ task[s] \in {"done", "failed"}
  /\ Answer(c, "returned", memo[s])
  /\ UNCHANGED <<asks, task, runner, memo>>

RegisterNext ==
  \E c \in Call, s \in Signature :
    AskFor(c, s) \/ Take(c, s) \/ Complete(c, s) \/ Fail(c, s) \/ Recall(c, s)

(* Who has asked is answered. *)
RegisterSpec ==
  /\ RegisterInit /\ [][RegisterNext]_registerVars
  /\ \A c \in Call : WF_registerVars(\E s \in Signature :
                       Take(c, s) \/ Complete(c, s) \/ Fail(c, s) \/ Recall(c, s))
=============================================================================
