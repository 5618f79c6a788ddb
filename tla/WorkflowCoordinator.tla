------------------------ MODULE WorkflowCoordinator ------------------------
(***************************************************************************)
(* Workflows: WorkflowRepository (src/core/repositories/index.ts) and the  *)
(* WorkflowCoordinator above it (src/core/coordinator).  A member of Call  *)
(* is one call of one operation.  The operations on a workflow read,       *)
(* check and write its record under withLock("wf_lock_<id>"), cut here     *)
(* where they await; a submission takes no lock.                           *)
(*                                                                         *)
(* The lock excludes (MemoryLockProvider: module FifoMutex; the adapters   *)
(* behind StorageAdapterBridge: module LeaseLock, where no lease is        *)
(* overrun); the order in which it lets calls in is left open.  What the   *)
(* timeline and the metrics hold is left out, each append being a step     *)
(* that may fail; so is what an emit does, whose handlers' errors EventBus *)
(* keeps to itself, and the heartbeat, which nothing here reads.           *)
(***************************************************************************)
EXTENDS Naturals, FiniteSets

CONSTANTS
  Call,         \* calls of operations
  Op,           \* the operations a call may be
  Worker, Signature,
  Workflow,     \* bound: the workflows there is room for
  Earlier,      \* those of them that were submitted before
  Unknown,      \* an id nobody has given out
  Persistence,  \* the providers the process may be built with
  Fault,        \* which of FaultKinds may happen
  NoRecord, NoCall, Undefined

INSTANCE WorkflowStateMachine WITH Value <- Call

Kinds == {"submit", "claim", "execute", "complete", "fail", "cancel", "release"}
OpRecord == [kind : Kinds, worker : Worker \cup {Undefined},
             signature : Signature \cup {Undefined}]
Providers == {"memory", "bridge"}
FaultKinds == {"fn", "lock", "get", "save", "log", "crash"}

ASSUME OpAssumption ==
  /\ Op \subseteq OpRecord
  /\ \A o \in Op : o.kind \in {"claim", "execute"} => o.worker \in Worker
ASSUME IdAssumption ==
  Earlier \subseteq Workflow /\ Unknown \notin Workflow /\ NoCall \notin Call
ASSUME RecordAssumption == NoRecord \notin WorkflowRecord
ASSUME ProviderAssumption == Persistence \subseteq Providers /\ Fault \subseteq FaultKinds

VARIABLES
  persistence,  \* the provider in use
  workflows,    \* the records in it
  holder,       \* the call inside wf_lock_<id>
  pc,           \* where each call is
  op,           \* what it does
  target,       \* the workflow it is about
  want,         \* the state it is about to set
  copy,         \* its `wf`
  verdict,      \* how its last visit to the repository ended
  outcome       \* what its caller gets: the error, once there is one

callVars == <<pc, op, target, want, copy, verdict, outcome>>
vars == <<persistence, workflows, holder, callVars>>

Ids == Workflow \cup {Unknown}
Known == {w \in Workflow : workflows[w] # NoRecord}
RecordOf(w) == IF w = Unknown THEN NoRecord ELSE workflows[w]

Where == {"idle", "listing", "creating", "asking", "locked", "saving",
          "leaving", "logging", "running", "done", "crashed"}
Errors == {"unclaimed", "missing", "transition", "storage", "fn"}

TypeOK ==
  /\ persistence \in Persistence
  /\ workflows \in [Workflow -> WorkflowRecord \cup {NoRecord}]
  /\ holder \in [Ids -> Call \cup {NoCall}]
  /\ pc \in [Call -> Where]
  /\ op \in [Call -> OpRecord]
  /\ target \in [Call -> Ids]
  /\ want \in [Call -> Wanted \cup {Undefined}]
  /\ copy \in [Call -> WorkflowRecord \cup {NoRecord}]
  /\ verdict \in [Call -> Errors \cup {"ok"}]
  /\ outcome \in [Call -> Errors \cup {"none", "returned"}]

NoOp == [kind |-> "submit", worker |-> Undefined, signature |-> Undefined]

Init ==
  /\ persistence \in Persistence
  /\ \E sig \in [Earlier -> Signature \cup {Undefined}] :
       workflows = [w \in Workflow |-> IF w \in Earlier THEN Submitted(sig[w]) ELSE NoRecord]
  /\ holder = [w \in Ids |-> NoCall]
  /\ pc = [c \in Call |-> "idle"]
  /\ op = [c \in Call |-> NoOp]
  /\ target = [c \in Call |-> Unknown]
  /\ want = [c \in Call |-> Undefined]
  /\ copy = [c \in Call |-> NoRecord]
  /\ verdict = [c \in Call |-> "ok"]
  /\ outcome = [c \in Call |-> "none"]

-----------------------------------------------------------------------------
(* Control *)

Goto(c, l) == pc' = [pc EXCEPT ![c] = l]
End(c, how) == Goto(c, "done") /\ outcome' = [outcome EXCEPT ![c] = how]

(* An error reaches the code of the operation.  In executeWorkflow the     *)
(* catch block around fn and completeWorkflow goes on to failWorkflow and   *)
(* keeps the error for later; anywhere else it is the caller's.            *)
InTryBlock(c) == op[c].kind = "execute" /\ (pc[c] = "running" \/ want[c] = "COMPLETED")
Throw(c, error) ==
  IF InTryBlock(c)
  THEN /\ Goto(c, "asking")
       /\ want' = [want EXCEPT ![c] = "FAILED"]
       /\ outcome' = [outcome EXCEPT ![c] = error]
  ELSE End(c, error) /\ UNCHANGED want

(* The repository or the append has done its part: what is next? *)
Continue(c) ==
  IF op[c].kind = "execute" /\ want[c] = "CLAIMED"
  THEN Goto(c, "running") /\ UNCHANGED outcome
  ELSE IF op[c].kind = "execute" /\ want[c] = "FAILED"
  THEN End(c, outcome[c])                       \* throw err
  ELSE End(c, "returned")

(* After a visit to the repository the coordinator appends timeline events  *)
(* and metrics, WORKFLOW_STARTED of an execution with those of its claim;  *)
(* the other operations are the repository's alone.                        *)
Logs(c) == op[c].kind \in {"submit", "claim", "execute"}
Log(c) == IF Logs(c) THEN Goto(c, "logging") /\ UNCHANGED outcome ELSE Continue(c)

(* The state an operation sets first; a submission sets none. *)
FirstWanted ==
  [submit |-> Undefined, claim |-> "CLAIMED", execute |-> "CLAIMED",
   complete |-> "COMPLETED", fail |-> "FAILED", cancel |-> "CANCELLED",
   release |-> "QUEUED"]

(* A call on an id that somebody got from a submission, or on an unknown one. *)
Invoke(c) ==
  /\ pc[c] = "idle"
  /\ \E o \in Op, w \in Known \cup {Unknown} :
       /\ o.kind # "submit"
       /\ op' = [op EXCEPT ![c] = o]
       /\ target' = [target EXCEPT ![c] = w]
       /\ want' = [want EXCEPT ![c] = FirstWanted[o.kind]]
  /\ Goto(c, "asking")
  /\ UNCHANGED <<persistence, workflows, holder, copy, verdict, outcome>>

-----------------------------------------------------------------------------
(* submitWorkflow *)

HasRoom ==
  Cardinality({c \in Call : pc[c] \in {"listing", "creating"}}) < Cardinality(Workflow \ Known)

(* With a signature, completed workflows are looked for first. *)
Submit(c) ==
  /\ pc[c] = "idle" /\ HasRoom
  /\ \E o \in Op : /\ o.kind = "submit"
                   /\ op' = [op EXCEPT ![c] = o]
                   /\ Goto(c, IF o.signature = Undefined THEN "creating" ELSE "listing")
  /\ UNCHANGED <<persistence, workflows, holder, target, want, copy, verdict,
                 outcome>>

(* The bridge's listWorkflows knows of none. *)
Reusable(s) ==
  {w \in Known : /\ persistence = "memory"
                 /\ workflows[w].state = "COMPLETED"
                 /\ workflows[w].signature = s}

(* The youngest is taken; ages are left out, so it may be any. *)
FindReusable(c) ==
  /\ pc[c] = "listing"
  /\ IF Reusable(op[c].signature) = {}
     THEN Goto(c, "creating") /\ UNCHANGED <<target, outcome>>
     ELSE /\ \E w \in Reusable(op[c].signature) : target' = [target EXCEPT ![c] = w]
          /\ Log(c)
  /\ UNCHANGED <<persistence, workflows, holder, op, want, copy, verdict>>

CreateWorkflow(c) ==
  /\ pc[c] = "creating"
  /\ \E w \in Workflow \ Known :
       /\ workflows' = [workflows EXCEPT ![w] = Submitted(op[c].signature)]
       /\ target' = [target EXCEPT ![c] = w]
  /\ Log(c)
  /\ UNCHANGED <<persistence, holder, op, want, copy, verdict>>

-----------------------------------------------------------------------------
(* The operations of the repository that take the lock of the workflow *)

(* Mutant of Acquire: no lock. *)
AcquireAnyway(c) ==
  /\ pc[c] = "asking"
  /\ holder' = [holder EXCEPT ![target[c]] = c]
  /\ Goto(c, "locked")
  /\ UNCHANGED <<persistence, workflows, op, target, want, copy, verdict, outcome>>

Acquire(c) ==
  /\ pc[c] = "asking"
  /\ holder[target[c]] = NoCall
  /\ holder' = [holder EXCEPT ![target[c]] = c]
  /\ Goto(c, "locked")
  /\ UNCHANGED <<persistence, workflows, op, target, want, copy, verdict, outcome>>

Conclude(c, v) ==
  /\ Goto(c, "leaving")
  /\ verdict' = [verdict EXCEPT ![c] = v]

(* No such workflow: a claim is refused, a release is content, the others  *)
(* throw.                                                                  *)
NotFound(c) == [CLAIMED |-> "unclaimed", QUEUED |-> "ok", COMPLETED |-> "missing",
                FAILED |-> "missing", CANCELLED |-> "missing"][want[c]]

(* getWorkflow, validateTransition, and the changes to the copy. *)
ReadWorkflow(c) ==
  /\ pc[c] = "locked"
  /\ LET r == RecordOf(target[c])
     IN  \/ r = NoRecord /\ Conclude(c, NotFound(c)) /\ UNCHANGED copy
         \/ /\ r # NoRecord /\ ~MaySet(r, want[c])
            /\ Conclude(c, "transition")
            /\ UNCHANGED copy
         \/ /\ r # NoRecord /\ MaySet(r, want[c])
            /\ copy' = [copy EXCEPT ![c] = Moved(r, want[c], op[c].worker, c)]
            /\ Goto(c, "saving")
            /\ UNCHANGED verdict
  /\ UNCHANGED <<persistence, workflows, holder, op, target, want, outcome>>

SaveWorkflow(c) ==
  /\ pc[c] = "saving"
  /\ workflows' = [workflows EXCEPT ![target[c]] = copy[c]]
  /\ copy' = [copy EXCEPT ![c] = NoRecord]
  /\ Conclude(c, "ok")
  /\ UNCHANGED <<persistence, holder, op, target, want, outcome>>

(* Mutant of Leave: an exception does not give the lock back. *)
LeaveNoFinally(c) ==
  /\ pc[c] = "leaving"
  /\ verdict' = [verdict EXCEPT ![c] = "ok"]
  /\ IF verdict[c] = "ok"
     THEN /\ holder' = [holder EXCEPT ![target[c]] = NoCall]
          /\ Log(c) /\ UNCHANGED want
     ELSE Throw(c, verdict[c]) /\ UNCHANGED holder
  /\ UNCHANGED <<persistence, workflows, op, target, copy>>

(* withLock ends, by return or exception, and gives the lock back. *)
Leave(c) ==
  /\ pc[c] = "leaving"
  /\ holder' = [holder EXCEPT ![target[c]] = NoCall]
  /\ verdict' = [verdict EXCEPT ![c] = "ok"]
  /\ IF verdict[c] = "ok"
     THEN Log(c) /\ UNCHANGED want
     ELSE Throw(c, verdict[c])
  /\ UNCHANGED <<persistence, workflows, op, target, copy>>

-----------------------------------------------------------------------------
(* The coordinator around it *)

(* The appends: several awaits, of which only the last or a failure shows. *)
AppendEntries(c) ==
  /\ pc[c] = "logging"
  /\ Continue(c)
  /\ UNCHANGED <<persistence, workflows, holder, op, target, want, copy, verdict>>

FnReturns(c) ==
  /\ pc[c] = "running"
  /\ Goto(c, "asking")
  /\ want' = [want EXCEPT ![c] = "COMPLETED"]
  /\ UNCHANGED <<persistence, workflows, holder, op, target, copy, verdict, outcome>>

(* Mutant of FnThrows: the failure is not recorded. *)
FnThrowsOut(c) ==
  /\ "fn" \in Fault
  /\ pc[c] = "running"
  /\ End(c, "fn")
  /\ UNCHANGED <<persistence, workflows, holder, op, target, want, copy, verdict>>

FnThrows(c) ==
  /\ "fn" \in Fault
  /\ pc[c] = "running"
  /\ Throw(c, "fn")
  /\ UNCHANGED <<persistence, workflows, holder, op, target, copy, verdict>>

-----------------------------------------------------------------------------
(* Faults: of what is behind the bridge, and of the process *)

MayFail(fault) == fault \in Fault /\ persistence = "bridge"

(* The adapter gives up on the lock, or cannot ask for it. *)
AcquireFails(c) ==
  /\ MayFail("lock")
  /\ pc[c] = "asking"
  /\ Throw(c, "storage")
  /\ UNCHANGED <<persistence, workflows, holder, op, target, copy, verdict>>

GetFails(c) ==
  /\ MayFail("get")
  /\ pc[c] = "locked"
  /\ Conclude(c, "storage")
  /\ UNCHANGED <<persistence, workflows, holder, op, target, want, copy, outcome>>

(* The write may have landed all the same; the release of the lock may be   *)
(* what failed.                                                            *)
SaveFails(c) ==
  /\ MayFail("save")
  /\ pc[c] = "saving"
  /\ workflows' \in {workflows, [workflows EXCEPT ![target[c]] = copy[c]]}
  /\ copy' = [copy EXCEPT ![c] = NoRecord]
  /\ Conclude(c, "storage")
  /\ UNCHANGED <<persistence, holder, op, target, want, outcome>>

(* A record that landed all the same has an id nobody has been given. *)
CreateFails(c) ==
  /\ MayFail("save")
  /\ pc[c] = "creating"
  /\ End(c, "storage")
  /\ UNCHANGED <<persistence, workflows, holder, op, target, want, copy, verdict>>

(* An append that fails throws out of the operation, in the try block of   *)
(* executeWorkflow into its catch block, although the workflow is complete. *)
AppendFails(c) ==
  /\ MayFail("log")
  /\ pc[c] = "logging"
  /\ Throw(c, "storage")
  /\ UNCHANGED <<persistence, workflows, holder, op, target, copy, verdict>>

(* The process of the call dies; its lock row is found dead and taken over. *)
Crash(c) ==
  /\ MayFail("crash")
  /\ pc[c] \notin {"idle", "done", "crashed"}
  /\ Goto(c, "crashed")
  /\ holder' = [w \in Ids |-> IF holder[w] = c THEN NoCall ELSE holder[w]]
  /\ copy' = [copy EXCEPT ![c] = NoRecord]
  /\ UNCHANGED <<persistence, workflows, op, target, want, verdict, outcome>>

-----------------------------------------------------------------------------
Proceed(c) ==
  \/ FindReusable(c) \/ CreateWorkflow(c)
  \/ Acquire(c) \/ ReadWorkflow(c) \/ SaveWorkflow(c) \/ Leave(c)
  \/ AppendEntries(c) \/ FnReturns(c) \/ FnThrows(c)

Fails(c) ==
  \/ AcquireFails(c) \/ GetFails(c) \/ SaveFails(c) \/ CreateFails(c)
  \/ AppendFails(c) \/ Crash(c)

Next == \E c \in Call : Invoke(c) \/ Submit(c) \/ Proceed(c) \/ Fails(c)

SafeSpec == Init /\ [][Next]_vars

(* Every await ends: locks are given to one of those who wait, storage      *)
(* answers, the functions of callers end.                                  *)
Fairness == \A c \in Call : WF_vars(Proceed(c))

Spec == SafeSpec /\ Fairness

-----------------------------------------------------------------------------
(* What the lock is for: every operation on a workflow takes effect at one *)
(* moment, on the record as it is at that moment, and only if the state    *)
(* machine allows it, although it reads, checks and writes in separate     *)
(* steps (validateTransition is called on a copy).                         *)
Register == INSTANCE WorkflowRegister WITH Value <- Call
OperationsAreAtomic == Register!RegisterSpec

Alone(c) == \A d \in Call \ {c} : target[d] # target[c]
Executes(c) == op[c].kind = "execute" /\ pc[c] # "idle"

(* Where nobody else has touched the workflow, what executeWorkflow tells  *)
(* its caller is what is stored: a result is its result of a completed     *)
(* workflow, and fn's own error comes out only of a failed one.            *)
SoleExecutionAgrees ==
  \A c \in Call : Executes(c) /\ pc[c] = "done" /\ Alone(c) =>
    LET r == RecordOf(target[c])
    IN  /\ outcome[c] = "returned" =>
             r.state = "COMPLETED" /\ r.result = c /\ r.workerId = op[c].worker
        /\ outcome[c] = "fn" => r.state = "FAILED"

(* A worker whose function runs has the workflow in its name, until some   *)
(* other call claims or releases it; none that completes, fails or cancels  *)
(* it, from whatever it read, gives it back to an earlier owner.           *)
OwnedWhileRunning ==
  \A c \in Call : pc[c] = "running" =>
    \/ RecordOf(target[c]).workerId = op[c].worker
    \/ \E d \in Call \ {c} :
         /\ target[d] = target[c]
         /\ op[d].kind \in {"claim", "execute", "release"}
         /\ pc[d] \in {"asking", "locked"} => want[d] \notin {"CLAIMED", "QUEUED"}

(* What an execution says of its workflow is so: while the function runs,  *)
(* and when it is over.                                                    *)
ExecutionIsSound == OwnedWhileRunning /\ SoleExecutionAgrees

(* Every call ends, with an answer or with its process: the lock comes     *)
(* back from those that threw, too.                                        *)
EveryCallEnds ==
  \A c \in Call : pc[c] # "idle" ~> pc[c] \in {"done", "crashed"}

IsClaimed(w) == w \in Known /\ workflows[w].state = "CLAIMED"

(* A workflow whose function was run does not stay CLAIMED, unless storage *)
(* failed the execution or its process died.                               *)
ClaimedIsSettled ==
  \A c \in Call :
    pc[c] = "running" /\ IsClaimed(target[c])
    ~> \/ ~IsClaimed(target[c])
       \/ outcome[c] = "storage"
       \/ pc[c] = "crashed"

(* "Guarantees atomic claims across distributed worker instances"          *)
(* (docs/advanced.md:11): no two workers run a workflow at a time.         *)
ClaimIsExclusive ==
  \A c, d \in Call :
    pc[c] = "running" /\ pc[d] = "running" /\ target[c] = target[d]
    => op[c].worker = op[d].worker
=============================================================================
