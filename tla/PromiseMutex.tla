---------------------------- MODULE PromiseMutex ----------------------------
(***************************************************************************)
(* withLock(key, fn) of MemoryStorage (src/memory/storage.ts) and of       *)
(* MemoryLockProvider (src/memory/MemoryProviders.ts), which are the same  *)
(* code: a mutex made of promises, one queue per key.  One key is          *)
(* modelled; keys share nothing.                                           *)
(*                                                                         *)
(* Each call takes the promise at the tail of the queue (prev), puts       *)
(* prev.then(() => hold) in its place, awaits prev, runs fn, and resolves  *)
(* hold in `finally`.  The promise a call c leaves in the queue is named   *)
(* by c: settled[c] says whether it has settled.  That takes prev to have  *)
(* settled AND hold to be resolved, and it happens in a microtask of its   *)
(* own, as does the continuation after `await prev`.                       *)
(*                                                                         *)
(* A function may itself call withLock with the same key and await it      *)
(* (executeOnce inside the function of an executeOnce): outer records it.  *)
(***************************************************************************)
EXTENDS Naturals

CONSTANTS Call,     \* invocations of withLock
          NoCall,   \* Promise.resolve(), the predecessor of the first call
          Nested    \* the calls made from inside the function of another

ASSUME NoCallAssumption == NoCall \notin Call
ASSUME NestedAssumption == Nested \subseteq Call

VARIABLES status,   \* "idle", "waiting" at `await prev`, "inside" fn, or left
          tail,     \* mutexQueues.get(mutexKey)
          prev,     \* the promise each call took from the queue
          hold,     \* whether the call's hold is resolved
          settled,  \* whether the promise it put into the queue has settled
          outer,    \* the call from whose function it was made
          ticket,   \* history: its place in the order of arrival
          arrivals  \* history: how many calls were made

vars == <<status, tail, prev, hold, settled, outer, ticket, arrivals>>

Status == {"idle", "waiting", "inside", "returned", "threw"}
Left == {"returned", "threw"}

TypeOK ==
  /\ status \in [Call -> Status]
  /\ tail \in Call \cup {NoCall}
  /\ prev \in [Call -> Call \cup {NoCall}]
  /\ hold \in [Call -> BOOLEAN]
  /\ settled \in [Call -> BOOLEAN]
  /\ outer \in [Call -> Call \cup {NoCall}]
  /\ ticket \in [Call -> Nat]
  /\ arrivals \in Nat

Init ==
  /\ status = [c \in Call |-> "idle"]
  /\ tail = NoCall
  /\ prev = [c \in Call |-> NoCall]
  /\ hold = [c \in Call |-> FALSE]
  /\ settled = [c \in Call |-> FALSE]
  /\ outer = [c \in Call |-> NoCall]
  /\ ticket = [c \in Call |-> 0]
  /\ arrivals = 0

(* Mutants of PrevSettled: a lock that is taken when nobody is inside, and *)
(* one that lets a call in behind the call it was made from.               *)
NobodyInside(c) == \A b \in Call : status[b] # "inside"
PrevSettledOrOuter(c) ==
  prev[c] # NoCall => settled[prev[c]] \/ outer[c] = prev[c]

(* Whether the promise the call awaits has settled. *)
PrevSettled(c) == prev[c] # NoCall => settled[prev[c]]

(* Mutant of Enqueue: the queue is set only when the key has none. *)
EnqueueBehindFirst(c) ==
  /\ status[c] = "idle"
  /\ prev' = [prev EXCEPT ![c] = tail]
  /\ tail' = IF tail = NoCall THEN c ELSE tail
  /\ status' = [status EXCEPT ![c] = "waiting"]
  /\ ticket' = [ticket EXCEPT ![c] = arrivals + 1]
  /\ arrivals' = arrivals + 1
  /\ UNCHANGED <<hold, settled>>

(* The code before `await prev`, which runs without a break. *)
Enqueue(c) ==
  /\ status[c] = "idle"
  /\ prev' = [prev EXCEPT ![c] = tail]
  /\ tail' = c
  /\ status' = [status EXCEPT ![c] = "waiting"]
  /\ ticket' = [ticket EXCEPT ![c] = arrivals + 1]
  /\ arrivals' = arrivals + 1
  /\ UNCHANGED <<hold, settled>>

Invoke(c) ==
  /\ c \notin Nested
  /\ Enqueue(c)
  /\ UNCHANGED outer

(* fn of b calls withLock again with the key it holds, and awaits it. *)
InvokeInside(c, b) ==
  /\ c \in Nested
  /\ status[b] = "inside"
  /\ Enqueue(c)
  /\ outer' = [outer EXCEPT ![c] = b]

(* The continuation after `await prev`: fn is called. *)
Enter(c) ==
  /\ status[c] = "waiting"
  /\ PrevSettled(c)
  /\ status' = [status EXCEPT ![c] = "inside"]
  /\ UNCHANGED <<tail, prev, hold, settled, outer, ticket, arrivals>>

(* What fn awaits before it can end. *)
Awaits(c) == {d \in Call : outer[d] = c /\ status[d] \notin Left}

(* Mutants of Leave: a function that throws leaves its call in a state of  *)
(* its own, and hold is resolved only after a return (no `finally`).       *)
LeaveRejected(c, how) ==
  /\ status[c] = "inside"
  /\ Awaits(c) = {}
  /\ status' = [status EXCEPT ![c] = IF how = "threw" THEN "rejected" ELSE how]
  /\ hold' = [hold EXCEPT ![c] = TRUE]
  /\ UNCHANGED <<tail, prev, settled, outer, ticket, arrivals>>
LeaveNoFinally(c, how) ==
  /\ status[c] = "inside"
  /\ Awaits(c) = {}
  /\ status' = [status EXCEPT ![c] = how]
  /\ hold' = [hold EXCEPT ![c] = (how = "returned")]
  /\ UNCHANGED <<tail, prev, settled, outer, ticket, arrivals>>

(* fn returned or threw; `finally` resolves hold either way. *)
Leave(c, how) ==
  /\ status[c] = "inside"
  /\ Awaits(c) = {}
  /\ status' = [status EXCEPT ![c] = how]
  /\ hold' = [hold EXCEPT ![c] = TRUE]
  /\ UNCHANGED <<tail, prev, settled, outer, ticket, arrivals>>

(* Mutant of Settle: prev.then(() => {}), without hold. *)
SettleNoHold(c) ==
  /\ status[c] # "idle"
  /\ ~settled[c]
  /\ PrevSettled(c)
  /\ settled' = [settled EXCEPT ![c] = TRUE]
  /\ UNCHANGED <<status, tail, prev, hold, outer, ticket, arrivals>>

(* The microtask in which prev.then(() => hold) settles. *)
Settle(c) ==
  /\ status[c] # "idle"
  /\ ~settled[c]
  /\ PrevSettled(c)
  /\ hold[c]
  /\ settled' = [settled EXCEPT ![c] = TRUE]
  /\ UNCHANGED <<status, tail, prev, hold, outer, ticket, arrivals>>

Next ==
  \E c \in Call : \/ Invoke(c)
                  \/ \E b \in Call : InvokeInside(c, b)
                  \/ Enter(c)
                  \/ \E how \in Left : Leave(c, how)
                  \/ Settle(c)

SafeSpec == Init /\ [][Next]_vars

(* The event loop runs every microtask that is ready, and a function that  *)
(* is called ends (Leave is not enabled while it awaits a nested call).    *)
Fairness ==
  \A c \in Call : /\ WF_vars(Enter(c))
                  /\ WF_vars(\E how \in Left : Leave(c, how))
                  /\ WF_vars(Settle(c))

Spec == SafeSpec /\ Fairness

-----------------------------------------------------------------------------
(* "Exactly one caller executes `fn` at a time per key" (storage.ts:134).  *)
MutualExclusion ==
  \A a, b \in Call : status[a] = "inside" /\ status[b] = "inside" => a = b

(* "Per-key FIFO mutex queues" (storage.ts:109): a call that has started   *)
(* its function was overtaken by nobody: all earlier calls have left.      *)
FirstInFirstOut ==
  \A a, b \in Call :
    /\ status[b] \in {"inside"} \cup Left
    /\ status[a] # "idle"
    /\ ticket[a] < ticket[b]
    => status[a] \in Left

(* "The mutex cannot expire while fn is running" (storage.ts:136): whatever *)
(* the others do, a call stops being inside only by leaving itself.        *)
F == INSTANCE FifoMutex
Fifo == F!FifoSafeSpec

(* Every call runs its function in the end, also when functions before it  *)
(* throw: "exceptions cannot deadlock" (storage.ts:135).  The exception is *)
(* a call made from inside the function that holds the key.                *)
NestedWaits == \E d \in Call : outer[d] # NoCall
EveryCallRuns ==
  \A c \in Call : status[c] = "waiting" ~> status[c] \in Left \/ NestedWaits

(* A call made from inside the function that holds the key is queued       *)
(* behind it and awaited by it: neither ever goes on, nor does any call    *)
(* that came later.  Nothing in withLock detects it.                       *)
NestedCallBlocksForGood ==
  [][\A d \in Call :
       outer[d] # NoCall
       => \A c \in Call : ticket[c] >= ticket[outer[d]]
                          => status'[c] = status[c]]_vars
=============================================================================
