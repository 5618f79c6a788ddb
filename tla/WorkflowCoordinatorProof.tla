---------------------- MODULE WorkflowCoordinatorProof ----------------------
(***************************************************************************)
(* The operations on a workflow are atomic, for any number of calls,       *)
(* workers and workflows: each save is one step of WorkflowRegister.       *)
(*                                                                         *)
(* The argument: a call that has read a record holds the workflow's lock   *)
(* until it has written it, only a holder of the lock writes to a workflow *)
(* that exists, and a submission writes only to one that does not.  So the *)
(* copy that is written is still the stored record with the change made.   *)
(*                                                                         *)
(* What an execution says of its workflow is so, too: while its function   *)
(* runs the workflow is in its worker's name unless another call claimed   *)
(* or released it, and what it tells its caller is what is stored.         *)
(*                                                                         *)
(* The argument: from the save of its claim on, the workflow exists and    *)
(* has the worker of the execution, and only a save of another claim or of *)
(* a release changes that; the call that does it is there to be named from *)
(* then on.  Of a workflow no other call is about, only the execution's    *)
(* own saves change the record.                                            *)
(***************************************************************************)
EXTENDS WorkflowCoordinator, TLAPS

(* A call that asks for the lock knows the state it is about to set, and a *)
(* call that is about to claim has a worker.                               *)
WantInv ==
  \A c \in Call : pc[c] \in {"asking", "locked", "saving"} =>
    /\ want[c] \in Wanted
    /\ want[c] = "CLAIMED" => op[c].worker \in Worker

(* Who is between the grant of the lock and its return holds it. *)
HolderInv ==
  \A c \in Call : pc[c] \in {"locked", "saving", "leaving"} => holder[target[c]] = c

(* What is about to be saved is the stored record, changed as allowed. *)
CopyInv ==
  \A c \in Call : pc[c] = "saving" =>
    /\ target[c] \in Known
    /\ MaySet(workflows[target[c]], want[c])
    /\ copy[c] = Moved(workflows[target[c]], want[c], op[c].worker, c)

IInv == TypeOK /\ WantInv /\ HolderInv /\ CopyInv

-----------------------------------------------------------------------------
(* Changing a record, as the repository's operations do, gives a record.   *)
LEMMA MovedIsRecord ==
  ASSUME NEW r \in WorkflowRecord, NEW to \in Wanted,
         NEW k \in Worker \cup {Undefined}, NEW v \in Call
  PROVE  Moved(r, to, k, v) \in WorkflowRecord
<1>1. to \in WorkflowState
  BY DEF Wanted, WorkflowState
<1>2. (IF to = "CLAIMED" THEN k ELSE IF to = "QUEUED" THEN Undefined ELSE r.workerId)
        \in Worker \cup {Undefined}
  BY DEF WorkflowRecord
<1>3. (IF to = "COMPLETED" THEN v ELSE r.result) \in Call \cup {Undefined}
  BY DEF WorkflowRecord
<1> QED BY <1>1, <1>2, <1>3 DEF Moved, WorkflowRecord

(* What is submitted is a record. *)
LEMMA SubmittedIsRecord ==
  ASSUME NEW s \in Signature \cup {Undefined}
  PROVE  Submitted(s) \in WorkflowRecord
BY DEF Submitted, WorkflowRecord, WorkflowState

(* What an operation wants first is a state the repository sets. *)
LEMMA FirstWantedIsWanted ==
  ASSUME NEW o \in Op, o.kind # "submit"
  PROVE  /\ FirstWanted[o.kind] \in Wanted
         /\ FirstWanted[o.kind] = "CLAIMED" => o.worker \in Worker
BY OpAssumption DEF OpRecord, Kinds, FirstWanted, Wanted

(* An unknown workflow ends a visit with a verdict. *)
LEMMA NotFoundIsVerdict ==
  ASSUME NEW c \in Call, want[c] \in Wanted
  PROVE  NotFound(c) \in Errors \cup {"ok"}
BY DEF NotFound, Wanted, Errors

-----------------------------------------------------------------------------
(* The initial states satisfy the invariant. *)
LEMMA InitIInv == Init => IInv
<1> SUFFICES ASSUME Init PROVE IInv
  OBVIOUS
<1>1. PICK sig \in [Earlier -> Signature \cup {Undefined}] :
        workflows = [w \in Workflow |-> IF w \in Earlier THEN Submitted(sig[w]) ELSE NoRecord]
  BY DEF Init
<1>2. workflows \in [Workflow -> WorkflowRecord \cup {NoRecord}]
  <2>1. \A w \in Earlier : Submitted(sig[w]) \in WorkflowRecord
    BY <1>1, SubmittedIsRecord
  <2> QED BY <1>1, <2>1
<1>3. TypeOK
  BY <1>2 DEF Init, TypeOK, NoOp, OpRecord, Kinds, Where, Ids, Errors
<1>4. WantInv /\ HolderInv /\ CopyInv
  BY DEF Init, WantInv, HolderInv, CopyInv
<1> QED BY <1>3, <1>4 DEF IInv

(* Where a call goes on to, and what its outcome is then, has its type; the *)
(* other calls stay where they are.                                        *)
LEMMA ContinueTypes ==
  ASSUME TypeOK, NEW c \in Call, Continue(c)
  PROVE  /\ pc' \in [Call -> Where]
         /\ outcome' \in [Call -> Errors \cup {"none", "returned"}]
         /\ \A d \in Call \ {c} : pc'[d] = pc[d]
         /\ pc'[c] \in {"running", "done"}
BY DEF Continue, TypeOK, Goto, End, Where

(* The same of a call that may have something to append first. *)
LEMMA LogTypes ==
  ASSUME TypeOK, NEW c \in Call, Log(c)
  PROVE  /\ pc' \in [Call -> Where]
         /\ outcome' \in [Call -> Errors \cup {"none", "returned"}]
         /\ \A d \in Call \ {c} : pc'[d] = pc[d]
         /\ pc'[c] \in {"logging", "running", "done"}
<1>1. CASE Logs(c)
  BY <1>1 DEF Log, TypeOK, Goto, Where
<1>2. CASE ~Logs(c)
  <2>1. Continue(c)
    BY <1>2 DEF Log
  <2> QED BY <2>1, ContinueTypes
<1> QED BY <1>1, <1>2

(* The same of an error; whoever asks for the lock after it wants FAILED. *)
LEMMA ThrowTypes ==
  ASSUME TypeOK, NEW c \in Call, NEW e \in Errors, Throw(c, e)
  PROVE  /\ pc' \in [Call -> Where]
         /\ want' \in [Call -> Wanted \cup {Undefined}]
         /\ outcome' \in [Call -> Errors \cup {"none", "returned"}]
         /\ \A d \in Call \ {c} : pc'[d] = pc[d] /\ want'[d] = want[d]
         /\ pc'[c] \in {"asking", "done"}
         /\ pc'[c] = "asking" => want'[c] = "FAILED"
BY DEF Throw, TypeOK, Goto, End, Where, Wanted

(* Every step keeps the invariant. *)
LEMMA NextIInv == IInv /\ [Next]_vars => IInv'
<1> SUFFICES ASSUME IInv, [Next]_vars PROVE IInv'
  OBVIOUS
<1> USE DEF IInv
<1>1. ASSUME NEW c \in Call, Invoke(c) PROVE IInv'
  <2>1. PICK o \in Op, w \in Known \cup {Unknown} :
          /\ o.kind # "submit"
          /\ op' = [op EXCEPT ![c] = o]
          /\ target' = [target EXCEPT ![c] = w]
          /\ want' = [want EXCEPT ![c] = FirstWanted[o.kind]]
    BY <1>1 DEF Invoke
  <2>2. /\ FirstWanted[o.kind] \in Wanted
        /\ FirstWanted[o.kind] = "CLAIMED" => o.worker \in Worker
    BY <2>1, FirstWantedIsWanted
  <2>3. TypeOK'
    BY <1>1, <2>1, <2>2, OpAssumption DEF Invoke, TypeOK, Goto, Where, Ids, Known
  <2>4. WantInv' /\ HolderInv' /\ CopyInv'
    BY <1>1, <2>1, <2>2 DEF Invoke, TypeOK, Goto, WantInv, HolderInv, CopyInv, Known
  <2> QED BY <2>3, <2>4
<1>2. ASSUME NEW c \in Call, Submit(c) PROVE IInv'
  <2>1. TypeOK'
    BY <1>2, OpAssumption DEF Submit, TypeOK, Goto, Where
  <2>2. WantInv' /\ HolderInv' /\ CopyInv'
    BY <1>2 DEF Submit, TypeOK, Goto, WantInv, HolderInv, CopyInv, Known
  <2> QED BY <2>1, <2>2
<1>3. ASSUME NEW c \in Call, FindReusable(c) PROVE IInv'
  <2>1. /\ pc' \in [Call -> Where]
        /\ outcome' \in [Call -> Errors \cup {"none", "returned"}]
        /\ target' \in [Call -> Ids]
        /\ \A d \in Call \ {c} : pc'[d] = pc[d] /\ target'[d] = target[d]
        /\ pc'[c] \in {"creating", "logging", "running", "done"}
    <3>1. CASE Reusable(op[c].signature) = {}
      BY <1>3, <3>1 DEF FindReusable, TypeOK, Goto, Where
    <3>2. CASE Reusable(op[c].signature) # {}
      <4>1. Log(c)
        BY <1>3, <3>2 DEF FindReusable
      <4>2. target' \in [Call -> Ids] /\ \A d \in Call \ {c} : target'[d] = target[d]
        BY <1>3, <3>2 DEF FindReusable, Reusable, Known, TypeOK, Ids
      <4> QED BY <4>1, <4>2, LogTypes
    <3> QED BY <3>1, <3>2
  <2>2. TypeOK'
    BY <1>3, <2>1 DEF FindReusable, TypeOK
  <2>3. WantInv' /\ HolderInv' /\ CopyInv'
    BY <1>3, <2>1 DEF FindReusable, WantInv, HolderInv, CopyInv, Known
  <2> QED BY <2>2, <2>3
<1>4. ASSUME NEW c \in Call, CreateWorkflow(c) PROVE IInv'
  <2>1. PICK w \in Workflow \ Known :
          /\ workflows' = [workflows EXCEPT ![w] = Submitted(op[c].signature)]
          /\ target' = [target EXCEPT ![c] = w]
    BY <1>4 DEF CreateWorkflow
  <2>2. Submitted(op[c].signature) \in WorkflowRecord
    BY SubmittedIsRecord DEF TypeOK, OpRecord
  <2>3. /\ pc' \in [Call -> Where]
        /\ outcome' \in [Call -> Errors \cup {"none", "returned"}]
        /\ \A d \in Call \ {c} : pc'[d] = pc[d]
        /\ pc'[c] \in {"logging", "running", "done"}
    BY <1>4, LogTypes DEF CreateWorkflow
  <2>4. TypeOK'
    BY <1>4, <2>1, <2>2, <2>3 DEF CreateWorkflow, TypeOK, Ids
  <2>5. WantInv' /\ HolderInv'
    BY <1>4, <2>1, <2>3 DEF CreateWorkflow, WantInv, HolderInv, TypeOK
  <2>6. CopyInv'
    BY <1>4, <2>1, <2>3 DEF CreateWorkflow, CopyInv, Known, TypeOK
  <2> QED BY <2>4, <2>5, <2>6
<1>5. ASSUME NEW c \in Call, Acquire(c) PROVE IInv'
  <2>1. TypeOK'
    BY <1>5 DEF Acquire, TypeOK, Goto, Where
  <2>2. WantInv' /\ CopyInv'
    BY <1>5 DEF Acquire, TypeOK, Goto, WantInv, CopyInv, Known
  <2>3. HolderInv'
    BY <1>5, IdAssumption DEF Acquire, TypeOK, Goto, HolderInv
  <2> QED BY <2>1, <2>2, <2>3
<1>6. ASSUME NEW c \in Call, ReadWorkflow(c) PROVE IInv'
  <2> DEFINE r == RecordOf(target[c])
  <2>1. want[c] \in Wanted /\ (want[c] = "CLAIMED" => op[c].worker \in Worker)
    BY <1>6 DEF ReadWorkflow, WantInv
  <2>2. /\ r \in WorkflowRecord \cup {NoRecord}
        /\ r # NoRecord => target[c] \in Known /\ r = workflows[target[c]]
    BY DEF RecordOf, TypeOK, Ids, Known
  <2>3. op[c].worker \in Worker \cup {Undefined}
    BY DEF TypeOK, OpRecord
  <2>4. CASE r = NoRecord \/ ~MaySet(r, want[c])
    <3>1. PICK v \in Errors \cup {"ok"} : Conclude(c, v) /\ UNCHANGED copy
      BY <1>6, <2>1, <2>4, NotFoundIsVerdict DEF ReadWorkflow, Errors
    <3>2. TypeOK'
      BY <1>6, <3>1 DEF ReadWorkflow, Conclude, Goto, TypeOK, Where
    <3>3. WantInv' /\ HolderInv' /\ CopyInv'
      BY <1>6, <3>1 DEF ReadWorkflow, Conclude, Goto, TypeOK, WantInv, HolderInv, CopyInv, Known
    <3> QED BY <3>2, <3>3
  <2>5. CASE r # NoRecord /\ MaySet(r, want[c])
    <3>1. /\ copy' = [copy EXCEPT ![c] = Moved(r, want[c], op[c].worker, c)]
          /\ Goto(c, "saving")
          /\ UNCHANGED <<verdict, persistence, workflows, holder, op, target, want, outcome>>
      BY <1>6, <2>5 DEF ReadWorkflow
    <3>2. Moved(r, want[c], op[c].worker, c) \in WorkflowRecord
      BY <2>1, <2>2, <2>3, <2>5, MovedIsRecord
    <3>3. TypeOK'
      BY <3>1, <3>2 DEF Goto, TypeOK, Where
    <3>4. WantInv' /\ HolderInv'
      BY <1>6, <2>1, <3>1 DEF ReadWorkflow, Goto, TypeOK, WantInv, HolderInv
    <3>5. CopyInv'
      BY <2>2, <2>5, <3>1 DEF Goto, TypeOK, CopyInv, Known
    <3> QED BY <3>3, <3>4, <3>5
  <2> QED BY <2>4, <2>5
<1>7. ASSUME NEW c \in Call,
             pc[c] = "saving",
             workflows' \in {workflows, [workflows EXCEPT ![target[c]] = copy[c]]},
             copy' = [copy EXCEPT ![c] = NoRecord],
             NEW v \in Errors \cup {"ok"}, Conclude(c, v),
             UNCHANGED <<persistence, holder, op, target, want, outcome>>
      PROVE  IInv'
  <2>1. target[c] \in Workflow /\ copy[c] \in WorkflowRecord \cup {NoRecord}
    BY <1>7 DEF CopyInv, Known, TypeOK
  <2>2. TypeOK'
    BY <1>7, <2>1 DEF Conclude, Goto, TypeOK, Where
  <2>3. WantInv' /\ HolderInv'
    BY <1>7 DEF Conclude, Goto, TypeOK, WantInv, HolderInv
  <2>4. CopyInv'
    <3> SUFFICES ASSUME NEW d \in Call, pc'[d] = "saving"
                 PROVE  /\ target'[d] \in Known'
                        /\ MaySet(workflows'[target'[d]], want'[d])
                        /\ copy'[d] = Moved(workflows'[target'[d]], want'[d], op'[d].worker, d)
      BY DEF CopyInv
    <3>1. d # c /\ pc[d] = "saving"
      BY <1>7 DEF Conclude, Goto, TypeOK
    <3>2. target[d] # target[c]
      BY <1>7, <3>1 DEF HolderInv
    <3>3. target[d] \in Workflow /\ workflows'[target[d]] = workflows[target[d]]
      BY <1>7, <2>1, <3>1, <3>2 DEF CopyInv, Known, TypeOK
    <3> QED BY <1>7, <3>1, <3>3 DEF CopyInv, Known, TypeOK
  <2> QED BY <2>2, <2>3, <2>4
<1>8. ASSUME NEW c \in Call, SaveWorkflow(c) \/ SaveFails(c) PROVE IInv'
  BY <1>7, <1>8 DEF SaveWorkflow, SaveFails, Errors
<1>9. ASSUME NEW c \in Call, Leave(c) PROVE IInv'
  <2>1. /\ pc' \in [Call -> Where]
        /\ want' \in [Call -> Wanted \cup {Undefined}]
        /\ outcome' \in [Call -> Errors \cup {"none", "returned"}]
        /\ \A d \in Call \ {c} : pc'[d] = pc[d] /\ want'[d] = want[d]
        /\ pc'[c] \in {"logging", "running", "asking", "done"}
        /\ pc'[c] = "asking" => want'[c] = "FAILED"
    <3>1. CASE verdict[c] = "ok"
      <4>1. Log(c) /\ UNCHANGED want
        BY <1>9, <3>1 DEF Leave
      <4>2. want \in [Call -> Wanted \cup {Undefined}]
        BY DEF TypeOK
      <4> QED BY <4>1, <4>2, LogTypes
    <3>2. CASE verdict[c] # "ok"
      <4>1. verdict[c] \in Errors
        BY <3>2 DEF TypeOK
      <4>2. Throw(c, verdict[c])
        BY <1>9, <3>2 DEF Leave
      <4> QED BY <4>1, <4>2, ThrowTypes
    <3> QED BY <3>1, <3>2
  <2>2. TypeOK'
    BY <1>9, <2>1 DEF Leave, TypeOK, Errors
  <2>3. WantInv' /\ CopyInv'
    BY <1>9, <2>1 DEF Leave, WantInv, CopyInv, Known, Wanted
  <2>4. HolderInv'
    BY <1>9, <2>1 DEF Leave, TypeOK, HolderInv
  <2> QED BY <2>2, <2>3, <2>4
<1>10. ASSUME NEW c \in Call, AppendEntries(c) PROVE IInv'
  <2>1. /\ pc' \in [Call -> Where]
        /\ outcome' \in [Call -> Errors \cup {"none", "returned"}]
        /\ \A d \in Call \ {c} : pc'[d] = pc[d]
        /\ pc'[c] \in {"running", "done"}
    BY <1>10, ContinueTypes DEF AppendEntries
  <2> QED BY <1>10, <2>1 DEF AppendEntries, TypeOK, WantInv, HolderInv, CopyInv, Known
<1>11. ASSUME NEW c \in Call, FnReturns(c) PROVE IInv'
  BY <1>11 DEF FnReturns, Goto, TypeOK, Where, Wanted, WantInv, HolderInv, CopyInv, Known
<1>12. ASSUME NEW c \in Call, NEW e \in Errors, Throw(c, e),
              UNCHANGED <<persistence, workflows, holder, op, target, copy, verdict>>
       PROVE  IInv'
  <2>1. /\ pc' \in [Call -> Where]
        /\ want' \in [Call -> Wanted \cup {Undefined}]
        /\ outcome' \in [Call -> Errors \cup {"none", "returned"}]
        /\ \A d \in Call \ {c} : pc'[d] = pc[d] /\ want'[d] = want[d]
        /\ pc'[c] \in {"asking", "done"}
        /\ pc'[c] = "asking" => want'[c] = "FAILED"
    BY <1>12, ThrowTypes
  <2> QED BY <1>12, <2>1 DEF TypeOK, WantInv, HolderInv, CopyInv, Known, Wanted
<1>13. ASSUME NEW c \in Call, FnThrows(c) \/ AcquireFails(c) \/ AppendFails(c)
       PROVE  IInv'
  BY <1>12, <1>13 DEF FnThrows, AcquireFails, AppendFails, Errors
<1>14. ASSUME NEW c \in Call, GetFails(c) PROVE IInv'
  BY <1>14 DEF GetFails, Conclude, Goto, TypeOK, Where, Errors, WantInv, HolderInv, CopyInv, Known
<1>15. ASSUME NEW c \in Call, CreateFails(c) PROVE IInv'
  BY <1>15 DEF CreateFails, End, Goto, TypeOK, Where, Errors, WantInv, HolderInv, CopyInv, Known
<1>16. ASSUME NEW c \in Call, Crash(c) PROVE IInv'
  <2>1. TypeOK'
    BY <1>16 DEF Crash, Goto, TypeOK, Where
  <2>2. WantInv' /\ HolderInv' /\ CopyInv'
    BY <1>16 DEF Crash, Goto, TypeOK, WantInv, HolderInv, CopyInv, Known
  <2> QED BY <2>1, <2>2
<1>17. CASE UNCHANGED vars
  BY <1>17 DEF vars, callVars, TypeOK, WantInv, HolderInv, CopyInv, Known
<1> QED BY <1>1, <1>2, <1>3, <1>4, <1>5, <1>6, <1>8, <1>9, <1>10, <1>11, <1>13,
           <1>14, <1>15, <1>16, <1>17 DEF Next, Proceed, Fails

-----------------------------------------------------------------------------
(* The invariant holds in every state a behaviour reaches, faults included. *)
LEMMA Invariance == SafeSpec => []IInv
<1>1. Init => IInv
  BY InitIInv
<1>2. IInv /\ [Next]_vars => IInv'
  BY NextIInv
<1> QED BY <1>1, <1>2, PTL DEF SafeSpec

(* Whatever storage, the functions of the callers and crashes do, records  *)
(* stay records and calls stay where the code has a place for them.        *)
THEOREM WorkflowTypeCorrect == SafeSpec => []TypeOK
<1>1. IInv => TypeOK
  BY DEF IInv
<1> QED BY <1>1, Invariance, PTL

(* What a store starts from, the register may start from. *)
LEMMA InitIsRegisterInit == Init => Register!RegisterInit
<1> SUFFICES ASSUME Init PROVE Register!RegisterInit
  OBVIOUS
<1>1. PICK sig \in [Earlier -> Signature \cup {Undefined}] :
        workflows = [w \in Workflow |-> IF w \in Earlier THEN Submitted(sig[w]) ELSE NoRecord]
  BY DEF Init
<1> QED BY <1>1 DEF Register!RegisterInit, Register!Submitted, Submitted

(* A submission that gets its id is one creation. *)
LEMMA CreationIsOneStep ==
  ASSUME IInv, NEW c \in Call, CreateWorkflow(c)
  PROVE  Register!RegisterNext
<1>1. PICK w \in Workflow \ Known :
        workflows' = [workflows EXCEPT ![w] = Submitted(op[c].signature)]
  BY DEF CreateWorkflow
<1>2. op[c].signature \in Signature \cup {Undefined}
  BY DEF IInv, TypeOK, OpRecord
<1>3. Register!Create(w, op[c].signature)
  BY <1>1 DEF Register!Create, Register!Submitted, Submitted, Known
<1> QED BY <1>1, <1>2, <1>3 DEF Register!RegisterNext

(* A save that lands is one change of the record as it is at that moment:  *)
(* the copy was made under the lock the call still holds.                  *)
LEMMA SaveIsOneStep ==
  ASSUME IInv, NEW c \in Call, pc[c] = "saving",
         workflows' = [workflows EXCEPT ![target[c]] = copy[c]]
  PROVE  Register!RegisterNext
<1> DEFINE w == target[c]
           to == want[c]
           k == op[c].worker
<1>1. /\ w \in Workflow /\ workflows[w] # NoRecord
      /\ MaySet(workflows[w], to)
      /\ copy[c] = Moved(workflows[w], to, k, c)
  BY DEF IInv, CopyInv, Known
<1>2. to \in Wanted /\ (to = "CLAIMED" => k \in Worker)
  BY DEF IInv, WantInv
<1>3. k \in Worker \cup {Undefined}
  BY DEF IInv, TypeOK, OpRecord
<1>4. Register!MaySet(workflows[w], to)
  BY <1>1 DEF Register!MaySet, MaySet, Register!canTransition, canTransition,
              Register!allowedTransitions, allowedTransitions
<1>5. copy[c] = Register!Moved(workflows[w], to, k, c)
  BY <1>1 DEF Register!Moved, Moved
<1>6. workflows' = [workflows EXCEPT ![w] = Register!Moved(workflows[w], to, k, c)]
  BY <1>5
<1>7. Register!Set(w, to, k, c)
  BY <1>1, <1>2, <1>4, <1>6 DEF Register!Set
<1>8. to \in Register!Wanted
  BY <1>2 DEF Register!Wanted, Wanted
<1> QED BY <1>1, <1>3, <1>7, <1>8 DEF Register!RegisterNext

(* Every other step leaves the stored workflows alone. *)
LEMMA OthersLeaveWorkflows ==
  ASSUME NEW c \in Call,
         \/ Invoke(c) \/ Submit(c) \/ FindReusable(c) \/ Acquire(c)
         \/ ReadWorkflow(c) \/ Leave(c) \/ AppendEntries(c) \/ FnReturns(c)
         \/ FnThrows(c) \/ AcquireFails(c) \/ GetFails(c) \/ CreateFails(c)
         \/ AppendFails(c) \/ Crash(c)
  PROVE  UNCHANGED workflows
BY DEF Invoke, Submit, FindReusable, Acquire, ReadWorkflow, Leave, AppendEntries,
       FnReturns, FnThrows, AcquireFails, GetFails, CreateFails, AppendFails, Crash

(* Claims, completions, failures, cancellations and releases read, check   *)
(* and write in separate steps, and yet each takes effect at one moment,   *)
(* only where the state machine allows it at that moment, with any number  *)
(* of calls by any workers, whatever fails.                                *)
THEOREM Atomicity == SafeSpec => OperationsAreAtomic
<1>1. Init => Register!RegisterInit
  BY InitIsRegisterInit
<1>2. IInv /\ [Next]_vars => [Register!RegisterNext]_workflows
  <2> SUFFICES ASSUME IInv, [Next]_vars
               PROVE  Register!RegisterNext \/ UNCHANGED workflows
    OBVIOUS
  <2>1. CASE UNCHANGED vars
    BY <2>1 DEF vars
  <2>2. ASSUME NEW c \in Call, CreateWorkflow(c)
        PROVE  Register!RegisterNext
    BY <2>2, CreationIsOneStep
  <2>3. ASSUME NEW c \in Call, SaveWorkflow(c) \/ SaveFails(c)
        PROVE  Register!RegisterNext \/ UNCHANGED workflows
    <3>1. /\ pc[c] = "saving"
          /\ workflows' \in {workflows, [workflows EXCEPT ![target[c]] = copy[c]]}
      BY <2>3 DEF SaveWorkflow, SaveFails
    <3> QED BY <3>1, SaveIsOneStep
  <2> QED BY <2>1, <2>2, <2>3, OthersLeaveWorkflows DEF Next, Proceed, Fails
<1> QED BY <1>1, <1>2, Invariance, PTL
        DEF SafeSpec, OperationsAreAtomic, Register!RegisterSpec

-----------------------------------------------------------------------------
(* What an execution says of its workflow *)


(* The call may have changed the worker of its workflow. *)
Disturbs(d) ==
  /\ op[d].kind \in {"claim", "execute", "release"}
  /\ pc[d] \in {"asking", "locked"} => want[d] \notin {"CLAIMED", "QUEUED"}

Disturbed(c) == \E d \in Call \ {c} : target[d] = target[c] /\ Disturbs(d)

(* The save the call wanted has landed, and it has been told so. *)
Saved(c) == pc[c] = "logging" \/ (pc[c] = "leaving" /\ verdict[c] = "ok")

(* What a call wants, and what it is about, goes with its kind. *)
KindInv(c) ==
  /\ pc[c] \in {"idle", "listing", "creating"} =>
       op[c].kind = "submit" /\ target[c] = Unknown
  /\ op[c].kind = "submit" =>
       pc[c] \in {"idle", "listing", "creating", "logging", "done", "crashed"}
  /\ pc[c] \in {"asking", "locked", "saving"} =>
       /\ want[c] = "CLAIMED" => op[c].kind \in {"claim", "execute"}
       /\ want[c] = "QUEUED" => op[c].kind = "release"
  /\ op[c].kind = "execute" => want[c] \in {"CLAIMED", "COMPLETED", "FAILED"}
  /\ pc[c] = "running" => op[c].kind = "execute" /\ want[c] = "CLAIMED"

(* A return follows a completion, fn's error a failure. *)
OutcomeInv(c) ==
  /\ pc[c] = "idle" => outcome[c] = "none"
  /\ verdict[c] # "fn"
  /\ op[c].kind = "execute" =>
       /\ outcome[c] = "returned" => pc[c] = "done" /\ want[c] = "COMPLETED"
       /\ outcome[c] = "fn" => want[c] = "FAILED"

(* From the save of its claim on, an execution has the workflow. *)
HasClaimed(c) ==
  /\ op[c].kind = "execute"
  /\ want[c] = "CLAIMED" => Saved(c) \/ pc[c] = "running"

OwnInv(c) ==
  HasClaimed(c) =>
    /\ target[c] \in Known
    /\ workflows[target[c]].workerId = op[c].worker \/ Disturbed(c)

(* What an undisturbed execution has saved is still there. *)
SoleInv(c) ==
  op[c].kind = "execute" /\ Alone(c) =>
    /\ want[c] = "COMPLETED" /\ (Saved(c) \/ outcome[c] = "returned") =>
         workflows[target[c]].state = "COMPLETED" /\ workflows[target[c]].result = c
    /\ want[c] = "FAILED" /\ (Saved(c) \/ (pc[c] = "done" /\ outcome[c] = "fn")) =>
         workflows[target[c]].state = "FAILED"

SoundInv(c) == KindInv(c) /\ OutcomeInv(c) /\ OwnInv(c) /\ SoleInv(c)
AllSound == \A c \in Call : SoundInv(c)

-----------------------------------------------------------------------------
(* What a step of the call c does to the others: it leaves them where they *)
(* are ...                                                                 *)
Apart(c) ==
  \A e \in Call \ {c} :
    /\ pc'[e] = pc[e] /\ op'[e] = op[e] /\ target'[e] = target[e]
    /\ want'[e] = want[e] /\ verdict'[e] = verdict[e] /\ outcome'[e] = outcome[e]

(* ... it stays with its workflow, once it has one ... *)
Stays(c) ==
  /\ target'[c] = target[c] \/ target[c] = Unknown
  /\ Disturbs(c) => Disturbs(c)' /\ target'[c] = target[c]

(* ... and of the stored workflows it changes its own at most, the worker  *)
(* only if it disturbs.                                                    *)
Stores(c) ==
  \A w \in Known :
    /\ w \in Known'
    /\ \/ workflows'[w] = workflows[w]
       \/ /\ w = target[c] /\ w = target'[c]
          /\ workflows'[w].workerId = workflows[w].workerId \/ Disturbs(c)'

(* Then what was so of another call is so. *)
LEMMA OthersStaySound ==
  ASSUME NEW c \in Call, Apart(c), Stays(c), Stores(c),
         NEW e \in Call \ {c}, SoundInv(e)
  PROVE  SoundInv(e)'
<1>1. KindInv(e)' /\ OutcomeInv(e)'
  BY DEF Apart, SoundInv, KindInv, OutcomeInv
<1>2. HasClaimed(e)' = HasClaimed(e)
  BY DEF Apart, HasClaimed, Saved
<1>3. HasClaimed(e) => target[e] \in Known /\ target[e] # Unknown
  BY IdAssumption DEF SoundInv, OwnInv, Known
<1>4. OwnInv(e)'
  <2> SUFFICES ASSUME HasClaimed(e)
               PROVE  /\ target'[e] \in Known'
                      /\ workflows'[target'[e]].workerId = op'[e].worker \/ Disturbed(e)'
    BY <1>2 DEF OwnInv
  <2>1. target'[e] = target[e] /\ op'[e] = op[e] /\ target[e] \in Known'
    BY <1>3 DEF Apart, Stores
  <2>2. Disturbed(e) => Disturbed(e)'
    <3> SUFFICES ASSUME NEW d \in Call \ {e}, target[d] = target[e], Disturbs(d)
                 PROVE  target'[d] = target'[e] /\ Disturbs(d)'
      BY DEF Disturbed
    <3>1. CASE d = c
      BY <2>1, <3>1 DEF Stays
    <3>2. CASE d # c
      BY <2>1, <3>2 DEF Apart, Disturbs
    <3> QED BY <3>1, <3>2
  <2>3. target'[c] = target[e] /\ Disturbs(c)' => Disturbed(e)'
    BY <2>1 DEF Disturbed
  <2>4. \/ workflows'[target[e]].workerId = workflows[target[e]].workerId
        \/ target'[c] = target[e] /\ Disturbs(c)'
    BY <1>3 DEF Stores
  <2>5. workflows[target[e]].workerId = op[e].worker \/ Disturbed(e)
    BY DEF SoundInv, OwnInv
  <2> QED BY <2>1, <2>2, <2>3, <2>4, <2>5
<1>5. SoleInv(e)'
  <2> SUFFICES ASSUME op'[e].kind = "execute", Alone(e)',
                      want'[e] \in {"COMPLETED", "FAILED"}
               PROVE  SoleInv(e)'
    BY DEF SoleInv
  <2>1. HasClaimed(e) /\ op[e].kind = "execute"
    BY DEF Apart, HasClaimed
  <2>2. Alone(e)
    <3> SUFFICES ASSUME NEW d \in Call \ {e} PROVE target[d] # target[e]
      BY DEF Alone
    <3>1. target'[d] # target[e]
      BY DEF Alone, Apart
    <3>2. CASE d = c
      BY <1>3, <2>1, <3>1, <3>2 DEF Stays
    <3>3. CASE d # c
      BY <3>1, <3>3 DEF Apart
    <3> QED BY <3>2, <3>3
  <2>3. target'[c] # target[e] /\ target'[e] = target[e]
    BY DEF Alone, Apart
  <2>4. workflows'[target[e]] = workflows[target[e]]
    BY <1>3, <2>1, <2>3 DEF Stores
  <2> QED BY <2>1, <2>2, <2>3, <2>4 DEF SoundInv, SoleInv, Apart, Saved
<1> QED BY <1>1, <1>4, <1>5 DEF SoundInv

(* A step of c itself that stores nothing: what it has claimed before, it  *)
(* has.                                                                    *)
LEMMA OwnStaysOwn ==
  ASSUME NEW c \in Call, Apart(c), UNCHANGED workflows,
         op'[c] = op[c], target'[c] = target[c],
         OwnInv(c), HasClaimed(c)' => HasClaimed(c)
  PROVE  OwnInv(c)'
<1>1. Disturbed(c) => Disturbed(c)'
  BY DEF Apart, Disturbed, Disturbs
<1> QED BY <1>1 DEF OwnInv, Known

(* Nobody joins it, nobody leaves. *)
LEMMA AloneStaysAlone ==
  ASSUME NEW c \in Call, Apart(c), target'[c] = target[c]
  PROVE  Alone(c)' = Alone(c)
BY DEF Apart, Alone

(* The fields of a changed record. *)
LEMMA MovedFields ==
  ASSUME NEW r \in WorkflowRecord, NEW to \in Wanted, NEW k, NEW v
  PROVE  /\ Moved(r, to, k, v).state = to
         /\ to = "CLAIMED" => Moved(r, to, k, v).workerId = k
         /\ to \notin {"CLAIMED", "QUEUED"} => Moved(r, to, k, v).workerId = r.workerId
         /\ to = "COMPLETED" => Moved(r, to, k, v).result = v
BY DEF Moved, WorkflowRecord, Wanted

-----------------------------------------------------------------------------
(* A fresh call has nothing to say yet. *)
LEMMA InitSound == Init => AllSound
BY DEF Init, AllSound, SoundInv, KindInv, OutcomeInv, OwnInv, HasClaimed, SoleInv,
       NoOp

(* The beginnings of calls. *)
LEMMA BeginSound ==
  ASSUME IInv, AllSound, NEW c \in Call, Invoke(c) \/ Submit(c)
  PROVE  Apart(c) /\ Stays(c) /\ Stores(c) /\ SoundInv(c)'
<1>1. pc[c] = "idle" /\ SoundInv(c) /\ UNCHANGED <<workflows, verdict, outcome>>
  BY DEF Invoke, Submit, AllSound
<1>2. op[c].kind = "submit" /\ target[c] = Unknown
  BY <1>1 DEF SoundInv, KindInv
<1>3. Stays(c) /\ Stores(c)
  BY <1>1, <1>2 DEF Stays, Stores, Disturbs, Known
<1>4. CASE Invoke(c)
  <2>1. PICK o \in Op, w \in Known \cup {Unknown} :
          /\ o.kind # "submit"
          /\ op' = [op EXCEPT ![c] = o]
          /\ target' = [target EXCEPT ![c] = w]
          /\ want' = [want EXCEPT ![c] = FirstWanted[o.kind]]
    BY <1>4 DEF Invoke
  <2>2. pc' = [pc EXCEPT ![c] = "asking"]
    BY <1>4 DEF Invoke, Goto
  <2>3. Apart(c)
    BY <1>1, <2>1, <2>2 DEF Apart, IInv, TypeOK
  <2>4. /\ pc'[c] = "asking" /\ op'[c] = o /\ want'[c] = FirstWanted[o.kind]
        /\ o.kind \in Kinds
    BY <2>1, <2>2, OpAssumption DEF IInv, TypeOK, OpRecord
  <2>5. /\ want'[c] = "CLAIMED" => o.kind \in {"claim", "execute"}
        /\ want'[c] = "QUEUED" => o.kind = "release"
        /\ o.kind = "execute" => want'[c] = "CLAIMED"
    BY <2>1, <2>4 DEF Kinds, FirstWanted
  <2>6. KindInv(c)' /\ OutcomeInv(c)'
    BY <1>1, <2>1, <2>4, <2>5 DEF SoundInv, KindInv, OutcomeInv
  <2>7. OwnInv(c)' /\ SoleInv(c)'
    BY <2>4, <2>5 DEF OwnInv, SoleInv, HasClaimed, Saved
  <2> QED BY <1>3, <2>3, <2>6, <2>7 DEF SoundInv
<1>5. CASE Submit(c)
  <2>1. PICK o \in Op :
          /\ o.kind = "submit"
          /\ op' = [op EXCEPT ![c] = o]
          /\ Goto(c, IF o.signature = Undefined THEN "creating" ELSE "listing")
          /\ UNCHANGED <<target, want>>
    BY <1>5 DEF Submit
  <2>2. Apart(c) /\ pc'[c] \in {"creating", "listing"} /\ op'[c] = o
    BY <1>1, <2>1 DEF Apart, Goto, IInv, TypeOK
  <2>3. SoundInv(c)'
    BY <1>1, <1>2, <2>1, <2>2 DEF SoundInv, KindInv, OutcomeInv, OwnInv, HasClaimed, SoleInv
  <2> QED BY <1>3, <2>2, <2>3
<1> QED BY <1>4, <1>5

(* A submission ends, or goes on to create its workflow or to log. *)
LEMMA SubmissionSound ==
  ASSUME IInv, AllSound, NEW c \in Call,
         FindReusable(c) \/ CreateWorkflow(c) \/ CreateFails(c)
  PROVE  Apart(c) /\ Stays(c) /\ Stores(c) /\ SoundInv(c)'
<1>1. /\ pc[c] \in {"listing", "creating"} /\ SoundInv(c)
      /\ UNCHANGED <<op, want, verdict>>
  BY DEF FindReusable, CreateWorkflow, CreateFails, AllSound
<1>2. op[c].kind = "submit" /\ target[c] = Unknown
  BY <1>1 DEF SoundInv, KindInv
<1>3. Stays(c)
  BY <1>2 DEF Stays, Disturbs
<1>4. Log(c) => Goto(c, "logging") /\ UNCHANGED outcome
  BY <1>2 DEF Log, Logs
<1>5. /\ \A e \in Call \ {c} : pc'[e] = pc[e] /\ target'[e] = target[e]
                               /\ outcome'[e] = outcome[e]
      /\ \/ pc'[c] = "creating" /\ target'[c] = target[c]
         \/ pc'[c] \in {"logging", "done"}
  BY <1>4 DEF FindReusable, CreateWorkflow, CreateFails, Goto, End, IInv, TypeOK
<1>6. Apart(c)
  BY <1>1, <1>5 DEF Apart
<1>7. Stores(c)
  <2>1. CASE UNCHANGED workflows
    BY <2>1 DEF Stores, Known
  <2>2. CASE CreateWorkflow(c)
    BY <2>2 DEF CreateWorkflow, Stores, Known, IInv, TypeOK
  <2> QED BY <2>1, <2>2 DEF FindReusable, CreateFails
<1>8. SoundInv(c)'
  BY <1>1, <1>2, <1>5 DEF SoundInv, KindInv, OutcomeInv, OwnInv, HasClaimed, SoleInv
<1> QED BY <1>3, <1>6, <1>7, <1>8

-----------------------------------------------------------------------------
(* The visits to the repository. *)

(* The way there, and the way out without a save. *)
LEMMA VisitSound ==
  ASSUME IInv, AllSound, NEW c \in Call,
         Acquire(c) \/ ReadWorkflow(c) \/ GetFails(c)
  PROVE  Apart(c) /\ Stays(c) /\ Stores(c) /\ SoundInv(c)'
<1>1. /\ pc[c] \in {"asking", "locked"} /\ SoundInv(c)
      /\ UNCHANGED <<workflows, op, target, want, outcome>>
  BY DEF Acquire, ReadWorkflow, GetFails, AllSound
<1>2. /\ \A e \in Call \ {c} : pc'[e] = pc[e] /\ verdict'[e] = verdict[e]
      /\ pc'[c] \in {"locked", "saving", "leaving"}
  BY DEF Acquire, ReadWorkflow, GetFails, Conclude, Goto, IInv, TypeOK
<1>3. Apart(c)
  BY <1>1, <1>2 DEF Apart
<1>4. Stays(c) /\ Stores(c)
  BY <1>1, <1>2 DEF Stays, Stores, Disturbs, Known
<1>5. \/ pc'[c] # "leaving" /\ verdict'[c] = verdict[c]
      \/ /\ pc'[c] = "leaving" /\ verdict'[c] # "fn"
         /\ verdict'[c] = "ok" => want[c] = "QUEUED"
  <2>1. want[c] \in Wanted
    BY <1>1 DEF IInv, WantInv
  <2>2. NotFound(c) # "fn" /\ (NotFound(c) = "ok" => want[c] = "QUEUED")
    BY <2>1 DEF NotFound, Wanted
  <2>3. CASE Acquire(c)
    BY <2>3 DEF Acquire, Goto, IInv, TypeOK
  <2>4. CASE GetFails(c)
    BY <2>4 DEF GetFails, Conclude, Goto, IInv, TypeOK
  <2>5. CASE ReadWorkflow(c)
    <3>1. \/ Conclude(c, NotFound(c))
          \/ Conclude(c, "transition")
          \/ Goto(c, "saving") /\ UNCHANGED verdict
      BY <2>5 DEF ReadWorkflow
    <3> QED BY <2>2, <3>1 DEF Conclude, Goto, IInv, TypeOK
  <2> QED BY <2>3, <2>4, <2>5
<1>6. KindInv(c)' /\ OutcomeInv(c)'
  BY <1>1, <1>2, <1>5 DEF SoundInv, KindInv, OutcomeInv
<1>7. op[c].kind = "execute" => ~Saved(c)'
  BY <1>1, <1>2, <1>5 DEF SoundInv, KindInv, Saved
<1>8. OwnInv(c)'
  <2>1. HasClaimed(c)' => HasClaimed(c)
    BY <1>1, <1>2, <1>7 DEF HasClaimed
  <2> QED BY <1>1, <1>3, <2>1, OwnStaysOwn DEF SoundInv
<1>9. SoleInv(c)'
  BY <1>1, <1>2, <1>7 DEF SoundInv, OutcomeInv, SoleInv
<1> QED BY <1>3, <1>4, <1>6, <1>8, <1>9 DEF SoundInv

(* The save, landed or not. *)
LEMMA SaveSound ==
  ASSUME IInv, AllSound, NEW c \in Call, SaveWorkflow(c) \/ SaveFails(c)
  PROVE  Apart(c) /\ Stays(c) /\ Stores(c) /\ SoundInv(c)'
<1> DEFINE w == target[c]
           r == workflows[w]
<1>1. /\ pc[c] = "saving" /\ SoundInv(c)
      /\ UNCHANGED <<op, target, want, outcome>>
      /\ \/ workflows' = workflows /\ verdict'[c] = "storage"
         \/ workflows' = [workflows EXCEPT ![w] = copy[c]]
      /\ pc' = [pc EXCEPT ![c] = "leaving"]
      /\ verdict'[c] \in {"ok", "storage"}
      /\ \A e \in Call \ {c} : verdict'[e] = verdict[e]
  BY DEF SaveWorkflow, SaveFails, Conclude, Goto, AllSound, IInv, TypeOK
<1>2. pc'[c] = "leaving" /\ \A e \in Call \ {c} : pc'[e] = pc[e]
  BY <1>1 DEF IInv, TypeOK
<1>3. Apart(c)
  BY <1>1, <1>2 DEF Apart
<1>4. Stays(c)
  BY <1>1, <1>2 DEF Stays, Disturbs
<1>5. /\ w \in Known /\ w \in Workflow /\ r \in WorkflowRecord /\ want[c] \in Wanted
      /\ copy[c] = Moved(r, want[c], op[c].worker, c) /\ op[c].worker \in Worker \cup {Undefined}
  BY <1>1 DEF IInv, CopyInv, WantInv, Known, TypeOK, OpRecord
<1>6. /\ copy[c] \in WorkflowRecord
      /\ copy[c].state = want[c]
      /\ want[c] = "CLAIMED" => copy[c].workerId = op[c].worker
      /\ want[c] \notin {"CLAIMED", "QUEUED"} => copy[c].workerId = r.workerId
      /\ want[c] = "COMPLETED" => copy[c].result = c
  BY <1>5, MovedFields, MovedIsRecord
<1>7. KindInv(c)' /\ OutcomeInv(c)'
  BY <1>1, <1>2 DEF SoundInv, KindInv, OutcomeInv
<1>8. CASE workflows' = workflows /\ verdict'[c] = "storage"
  <2>1. Stores(c)
    BY <1>8 DEF Stores, Known
  <2>2. ~Saved(c)'
    BY <1>2, <1>8 DEF Saved
  <2>3. HasClaimed(c)' => HasClaimed(c)
    BY <1>1, <1>2, <2>2 DEF HasClaimed
  <2>4. OwnInv(c)'
    BY <1>1, <1>3, <1>8, <2>3, OwnStaysOwn DEF SoundInv
  <2>5. SoleInv(c)'
    BY <1>1, <1>2, <2>2 DEF SoundInv, OutcomeInv, SoleInv
  <2> QED BY <1>3, <1>4, <1>7, <2>1, <2>4, <2>5 DEF SoundInv
<1>9. CASE workflows' = [workflows EXCEPT ![w] = copy[c]]
  <2>1. /\ workflows'[w] = copy[c]
        /\ \A v \in Workflow \ {w} : workflows'[v] = workflows[v]
        /\ \A v \in Known : v \in Known'
    BY <1>5, <1>6, <1>9, RecordAssumption DEF IInv, TypeOK, Known
  <2>2. want[c] \in {"CLAIMED", "QUEUED"} => Disturbs(c)'
    BY <1>1, <1>2 DEF SoundInv, KindInv, Disturbs
  <2>3. Stores(c)
    BY <1>1, <1>6, <2>1, <2>2 DEF Stores, Known
  <2>4. Disturbed(c) => Disturbed(c)'
    BY <1>1, <1>3 DEF Apart, Disturbed, Disturbs
  <2>5. OwnInv(c)'
    BY <1>1, <1>2, <1>5, <1>6, <2>1, <2>4 DEF SoundInv, KindInv, OwnInv, HasClaimed
  <2>6. SoleInv(c)'
    BY <1>1, <1>6, <2>1 DEF SoleInv
  <2> QED BY <1>3, <1>4, <1>7, <2>3, <2>5, <2>6 DEF SoundInv
<1> QED BY <1>1, <1>8, <1>9

-----------------------------------------------------------------------------
(* The way on. *)

(* After a save that landed: to the appends, to the function, or home. *)
LEMMA GoOnSound ==
  ASSUME IInv, AllSound, NEW c \in Call, Saved(c), Log(c) \/ Continue(c),
         UNCHANGED <<workflows, op, target, want>>,
         verdict'[c] \in {verdict[c], "ok"},
         \A e \in Call \ {c} : verdict'[e] = verdict[e]
  PROVE  Apart(c) /\ Stays(c) /\ Stores(c) /\ SoundInv(c)'
<1>1. /\ pc[c] \in {"leaving", "logging"} /\ SoundInv(c)
      /\ op[c].kind = "submit" => pc[c] = "logging"
  BY DEF Saved, AllSound, SoundInv, KindInv
<1>2. /\ \A e \in Call \ {c} : pc'[e] = pc[e] /\ outcome'[e] = outcome[e]
      /\ \/ pc'[c] = "logging" /\ outcome'[c] = outcome[c]
         \/ /\ op[c].kind = "execute" /\ want[c] = "CLAIMED"
            /\ pc'[c] = "running" /\ outcome'[c] = outcome[c]
         \/ /\ op[c].kind = "execute" /\ want[c] = "FAILED"
            /\ pc'[c] = "done" /\ outcome'[c] = outcome[c]
         \/ /\ op[c].kind = "execute" => want[c] \notin {"CLAIMED", "FAILED"}
            /\ pc'[c] = "done" /\ outcome'[c] = "returned"
  BY DEF Log, Continue, Goto, End, IInv, TypeOK
<1>3. Apart(c)
  BY <1>2 DEF Apart
<1>4. Stays(c) /\ Stores(c)
  BY <1>2 DEF Stays, Stores, Disturbs, Known
<1>5. KindInv(c)' /\ OutcomeInv(c)'
  BY <1>1, <1>2 DEF SoundInv, KindInv, OutcomeInv
<1>6. OwnInv(c)'
  BY <1>1, <1>3, OwnStaysOwn DEF SoundInv, HasClaimed
<1>7. SoleInv(c)'
  <2>1. Alone(c)' = Alone(c)
    BY <1>3, AloneStaysAlone
  <2> QED BY <1>1, <2>1 DEF SoundInv, SoleInv
<1> QED BY <1>3, <1>4, <1>5, <1>6, <1>7 DEF SoundInv

(* After an error: from the try block to the failure, or home. *)
LEMMA ThrowSound ==
  ASSUME IInv, AllSound, NEW c \in Call,
         pc[c] \in {"asking", "leaving", "logging", "running"},
         NEW error \in Errors, Throw(c, error),
         error = "fn" => pc[c] = "running",
         UNCHANGED <<workflows, op, target>>,
         verdict'[c] \in {verdict[c], "ok"},
         \A e \in Call \ {c} : verdict'[e] = verdict[e]
  PROVE  Apart(c) /\ Stays(c) /\ Stores(c) /\ SoundInv(c)'
<1>1. SoundInv(c) /\ error # "returned"
  BY DEF AllSound, Errors
<1>2. /\ \A e \in Call \ {c} : pc'[e] = pc[e] /\ outcome'[e] = outcome[e]
                               /\ want'[e] = want[e]
      /\ outcome'[c] = error
      /\ \/ /\ InTryBlock(c)
            /\ pc'[c] = "asking" /\ want'[c] = "FAILED"
         \/ ~InTryBlock(c) /\ pc'[c] = "done" /\ want'[c] = want[c]
  BY DEF Throw, Goto, End, IInv, TypeOK
<1>3. Apart(c)
  BY <1>2 DEF Apart
<1>4. Stays(c) /\ Stores(c)
  BY <1>2 DEF Stays, Stores, Disturbs, Known
<1>5. KindInv(c)' /\ OutcomeInv(c)'
  BY <1>1, <1>2 DEF SoundInv, KindInv, OutcomeInv, InTryBlock
<1>6. OwnInv(c)'
  <2>1. HasClaimed(c)' => HasClaimed(c)
    BY <1>2 DEF HasClaimed, InTryBlock, Saved
  <2> QED BY <1>1, <1>3, <2>1, OwnStaysOwn DEF SoundInv
<1>7. SoleInv(c)'
  <2>1. ~Saved(c)' /\ outcome'[c] # "returned"
    BY <1>1, <1>2 DEF Saved
  <2>2. pc'[c] = "done" /\ op[c].kind = "execute" => outcome'[c] # "fn"
    BY <1>1, <1>2 DEF InTryBlock
  <2> QED BY <2>1, <2>2 DEF SoleInv
<1> QED BY <1>3, <1>4, <1>5, <1>6, <1>7 DEF SoundInv

(* The end of a function. *)
LEMMA FnReturnsSound ==
  ASSUME IInv, AllSound, NEW c \in Call, FnReturns(c)
  PROVE  Apart(c) /\ Stays(c) /\ Stores(c) /\ SoundInv(c)'
<1>1. /\ pc[c] = "running" /\ SoundInv(c)
      /\ UNCHANGED <<workflows, op, target, verdict, outcome>>
      /\ pc'[c] = "asking" /\ want'[c] = "COMPLETED"
      /\ \A e \in Call \ {c} : pc'[e] = pc[e] /\ want'[e] = want[e]
  BY DEF FnReturns, Goto, AllSound, IInv, TypeOK
<1>2. Apart(c)
  BY <1>1 DEF Apart
<1>3. Stays(c) /\ Stores(c)
  BY <1>1 DEF Stays, Stores, Disturbs, Known
<1>4. KindInv(c)' /\ OutcomeInv(c)' /\ SoleInv(c)'
  BY <1>1 DEF SoundInv, KindInv, OutcomeInv, SoleInv, Saved
<1>5. OwnInv(c)'
  BY <1>1, <1>2, OwnStaysOwn DEF SoundInv, HasClaimed
<1> QED BY <1>2, <1>3, <1>4, <1>5 DEF SoundInv

(* The end of a process. *)
LEMMA CrashSound ==
  ASSUME IInv, AllSound, NEW c \in Call, Crash(c)
  PROVE  Apart(c) /\ Stays(c) /\ Stores(c) /\ SoundInv(c)'
<1>1. /\ pc[c] \notin {"idle", "done"} /\ SoundInv(c)
      /\ UNCHANGED <<workflows, op, target, want, verdict, outcome>>
      /\ pc'[c] = "crashed"
      /\ \A e \in Call \ {c} : pc'[e] = pc[e]
  BY DEF Crash, Goto, AllSound, IInv, TypeOK
<1>2. Apart(c)
  BY <1>1 DEF Apart
<1>3. Stays(c) /\ Stores(c)
  BY <1>1 DEF Stays, Stores, Disturbs, Known
<1>4. KindInv(c)' /\ OutcomeInv(c)' /\ SoleInv(c)'
  BY <1>1 DEF SoundInv, KindInv, OutcomeInv, SoleInv, Saved
<1>5. OwnInv(c)'
  BY <1>1, <1>2, OwnStaysOwn DEF SoundInv, HasClaimed, Saved
<1> QED BY <1>2, <1>3, <1>4, <1>5 DEF SoundInv

-----------------------------------------------------------------------------
(* Every step keeps all of it. *)
LEMMA NextSound == IInv /\ AllSound /\ [Next]_vars => AllSound'
<1> SUFFICES ASSUME IInv, AllSound, [Next]_vars PROVE AllSound'
  OBVIOUS
<1>1. CASE UNCHANGED vars
  BY <1>1 DEF vars, callVars, AllSound, SoundInv, KindInv, OutcomeInv, OwnInv, SoleInv,
              HasClaimed, Saved, Disturbed, Disturbs, Alone, Known
<1>2. ASSUME NEW c \in Call, Invoke(c) \/ Submit(c) \/ Proceed(c) \/ Fails(c)
      PROVE  Apart(c) /\ Stays(c) /\ Stores(c) /\ SoundInv(c)'
  <2>1. CASE Leave(c)
    <3>1. /\ pc[c] = "leaving" /\ UNCHANGED <<workflows, op, target>>
          /\ verdict'[c] = "ok" /\ verdict[c] # "fn"
          /\ \A e \in Call \ {c} : verdict'[e] = verdict[e]
      BY <2>1 DEF Leave, IInv, TypeOK, AllSound, SoundInv, OutcomeInv
    <3>2. CASE verdict[c] = "ok"
      BY <2>1, <3>1, <3>2, GoOnSound DEF Leave, Saved
    <3>3. CASE verdict[c] # "ok"
      <4>1. verdict[c] \in Errors /\ Throw(c, verdict[c])
        BY <2>1, <3>3 DEF Leave, IInv, TypeOK
      <4> QED BY <3>1, <4>1, ThrowSound
    <3> QED BY <3>2, <3>3
  <2>2. CASE AppendEntries(c)
    BY <2>2, GoOnSound DEF AppendEntries, Saved
  <2>3. CASE FnThrows(c) \/ AcquireFails(c) \/ AppendFails(c)
    BY <2>3, ThrowSound DEF FnThrows, AcquireFails, AppendFails, Errors
  <2> QED BY <1>2, <2>1, <2>2, <2>3, BeginSound, SubmissionSound, VisitSound, SaveSound,
             FnReturnsSound, CrashSound DEF Proceed, Fails
<1>3. ASSUME NEW c \in Call, Invoke(c) \/ Submit(c) \/ Proceed(c) \/ Fails(c)
      PROVE  AllSound'
  <2>1. Apart(c) /\ Stays(c) /\ Stores(c) /\ SoundInv(c)'
    BY <1>2, <1>3
  <2>2. \A e \in Call \ {c} : SoundInv(e)'
    BY <2>1, OthersStaySound DEF AllSound
  <2> QED BY <2>1, <2>2 DEF AllSound
<1> QED BY <1>1, <1>3 DEF Next

(* What it says of the workflows' users. *)
LEMMA SoundExecutions == AllSound => ExecutionIsSound
<1> SUFFICES ASSUME AllSound PROVE ExecutionIsSound
  OBVIOUS
<1>1. ASSUME NEW c \in Call, HasClaimed(c)
      PROVE  /\ RecordOf(target[c]) = workflows[target[c]]
             /\ RecordOf(target[c]).workerId = op[c].worker \/ Disturbed(c)
  BY <1>1, IdAssumption DEF AllSound, SoundInv, OwnInv, RecordOf, Known
<1>2. OwnedWhileRunning
  <2> SUFFICES ASSUME NEW c \in Call, pc[c] = "running"
               PROVE  RecordOf(target[c]).workerId = op[c].worker \/ Disturbed(c)
    BY DEF OwnedWhileRunning, Disturbed, Disturbs
  <2>1. HasClaimed(c)
    BY DEF AllSound, SoundInv, KindInv, HasClaimed
  <2> QED BY <1>1, <2>1
<1>3. SoleExecutionAgrees
  <2> SUFFICES ASSUME NEW c \in Call, op[c].kind = "execute", pc[c] = "done", Alone(c)
               PROVE  LET r == RecordOf(target[c])
                      IN  /\ outcome[c] = "returned" =>
                               r.state = "COMPLETED" /\ r.result = c
                               /\ r.workerId = op[c].worker
                          /\ outcome[c] = "fn" => r.state = "FAILED"
    BY DEF SoleExecutionAgrees, Executes
  <2>1. ~Disturbed(c)
    BY DEF Alone, Disturbed
  <2>2. SoundInv(c)
    BY DEF AllSound
  <2>3. ASSUME outcome[c] \in {"returned", "fn"} PROVE HasClaimed(c)
    BY <2>2, <2>3 DEF SoundInv, OutcomeInv, HasClaimed
  <2> QED BY <1>1, <2>1, <2>2, <2>3 DEF SoundInv, OutcomeInv, SoleInv
<1> QED BY <1>2, <1>3 DEF ExecutionIsSound

(* executeWorkflow tells the truth: its function runs in the name of the   *)
(* worker the record has, unless another call claimed or released the      *)
(* workflow, and, if no other call was about it, a result is the stored    *)
(* result of a completed workflow and fn's error comes of a failed one.    *)
(* So it is with any number of calls and workflows and under every fault.  *)
THEOREM ExecutionSoundness == SafeSpec => []ExecutionIsSound
<1>1. Init => AllSound
  BY InitSound
<1>2. IInv /\ AllSound /\ [Next]_vars => AllSound'
  BY NextSound
<1>3. AllSound => ExecutionIsSound
  BY SoundExecutions
<1> QED BY <1>1, <1>2, <1>3, Invariance, PTL DEF SafeSpec
=============================================================================
