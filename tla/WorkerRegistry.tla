--------------------------- MODULE WorkerRegistry ---------------------------
(***************************************************************************)
(* WorkerRegistry (src/core/workers/WorkerRegistry.ts).  Its operations do *)
(* not await anything: each is one step.  A claim of a workflow sends the  *)
(* heartbeat of its worker (WorkflowCoordinator.ts:101), registered or not. *)
(***************************************************************************)
EXTENDS ServiceCalls, Functions

CONSTANTS
  Worker,
  MaxInactivity   \* maxInactivityMs; a longer silence counts as one tick more

ASSUME WorkerAssumption == MaxInactivity \in Nat

VARIABLES
  workers,   \* the Map: status and time since the heartbeat of each worker
  given,      \* history: the status each worker was last given by a client
  missing    \* history: the workers reported by a prune since then

workerVars == <<workers, given, missing>>

WorkersInit(registered) ==
  /\ workers = [w \in registered |-> [status |-> "active", silence |-> 0]]
  /\ given = [w \in Worker |-> "active"]
  /\ missing = {}

Gives(w, status) == given' = [given EXCEPT ![w] = status] /\ missing' = missing \ {w}

(* A worker that registers again replaces its entry. *)
RegisterWorker(w, status) ==
  /\ workers' = [v \in DOMAIN workers \cup {w} |->
       IF v = w THEN [status |-> status, silence |-> 0] ELSE workers[v]]
  /\ Gives(w, status)

UnregisterWorker(w) ==
  /\ workers' = Restrict(workers, DOMAIN workers \ {w})
  /\ missing' = missing \ {w}
  /\ UNCHANGED given

(* Mutant of Beaten: the heartbeat does not bring a worker back. *)
BeatenQuietly(w) == [workers[w] EXCEPT !.silence = 0]

Beaten(w) == [status |-> "active", silence |-> 0]

Heartbeat(w) ==
  IF w \in DOMAIN workers
  THEN workers' = [workers EXCEPT ![w] = Beaten(w)] /\ Gives(w, "active")
  ELSE UNCHANGED workerVars

(* The status changes, the time of the heartbeat does not. *)
SetWorkerStatus(w, status) ==
  IF w \in DOMAIN workers
  THEN workers' = [workers EXCEPT ![w].status = status] /\ Gives(w, status)
  ELSE UNCHANGED workerVars

Stale == {w \in DOMAIN workers : workers[w].silence > MaxInactivity}
PruneStaleWorkers ==
  /\ workers' = [w \in DOMAIN workers |->
       IF w \in Stale THEN [workers[w] EXCEPT !.status = "offline"] ELSE workers[w]]
  /\ missing' = missing \cup Stale
  /\ UNCHANGED given

(* getWorker, and listWorkers one by one, hand out copies. *)
GetWorker(w) == IF w \in DOMAIN workers THEN {workers[w]} ELSE {}

CallWorkers(c) ==
  /\ \/ Starts(c, "registerWorker") /\ RegisterWorker(op[c].worker, op[c].status)
     \/ Starts(c, "unregisterWorker") /\ UnregisterWorker(op[c].worker)
     \/ Starts(c, "heartbeat") /\ Heartbeat(op[c].worker)
     \/ Starts(c, "setWorkerStatus") /\ SetWorkerStatus(op[c].worker, op[c].status)
     \/ Starts(c, "pruneStaleWorkers") /\ PruneStaleWorkers
  /\ ToPc(c, "done")

(* Time passes; what is longer than maxInactivityMs is one length. *)
Silence ==
  /\ \E w \in DOMAIN workers : workers[w].silence <= MaxInactivity
  /\ workers' = [w \in DOMAIN workers |->
       [workers[w] EXCEPT !.silence = IF @ > MaxInactivity THEN @ ELSE @ + 1]]
  /\ UNCHANGED <<callVars, given, missing>>

WorkersNext == Silence \/ \E c \in Client : CallWorkers(c)

-----------------------------------------------------------------------------
(* A worker is listed with the status that it, or somebody for it, gave    *)
(* last, unless a prune has reported it since: then as offline, and rightly, *)
(* for it has been silent for too long, although its status may have been   *)
(* set in the meantime; its next heartbeat brings it back                   *)
(* (WorkerRegistry.ts:44-52, 78-90).                                        *)
WorkersAreTracked ==
  \A w \in DOMAIN workers : \A entry \in GetWorker(w) :
    /\ entry.status = IF w \in missing THEN "offline" ELSE given[w]
    /\ w \in missing => entry.silence > MaxInactivity
=============================================================================
