----------------------------- MODULE FifoMutex -----------------------------
(***************************************************************************)
(* What MemoryStorage.withLock and MemoryLockProvider.withLock promise for *)
(* one key: calls run their function one at a time, in the order in which  *)
(* they asked, and an exception gives the lock back like a return does.    *)
(* This is the contract in the comments of src/memory/storage.ts; the      *)
(* mechanism is module PromiseMutex.                                       *)
(*                                                                         *)
(* A member of Call is one invocation of withLock; a worker that locks     *)
(* several times is several members.                                       *)
(***************************************************************************)
EXTENDS Naturals

CONSTANT Call

VARIABLES status,   \* how far each call has come
          ticket,   \* its place in the order of arrival, 0 before it asks
          arrivals  \* how many calls have asked

fifoVars == <<status, ticket, arrivals>>

Status == {"idle", "waiting", "inside", "returned", "threw"}
Left == {"returned", "threw"}

FifoTypeOK ==
  /\ status \in [Call -> Status]
  /\ ticket \in [Call -> Nat]
  /\ arrivals \in Nat

FifoInit ==
  /\ status = [c \in Call |-> "idle"]
  /\ ticket = [c \in Call |-> 0]
  /\ arrivals = 0

Request(c) ==
  /\ status[c] = "idle"
  /\ status' = [status EXCEPT ![c] = "waiting"]
  /\ ticket' = [ticket EXCEPT ![c] = arrivals + 1]
  /\ arrivals' = arrivals + 1

(* The calls that asked before c, c's own excluded. *)
AheadOf(c) == {b \in Call : status[b] # "idle" /\ ticket[b] < ticket[c]}

Grant(c) ==
  /\ status[c] = "waiting"
  /\ \A b \in AheadOf(c) : status[b] \in Left
  /\ status' = [status EXCEPT ![c] = "inside"]
  /\ UNCHANGED <<ticket, arrivals>>

Release(c, how) ==
  /\ status[c] = "inside"
  /\ status' = [status EXCEPT ![c] = how]
  /\ UNCHANGED <<ticket, arrivals>>

FifoNext ==
  \E c \in Call : \/ Request(c)
                  \/ Grant(c)
                  \/ \E how \in Left : Release(c, how)

FifoSafeSpec == FifoInit /\ [][FifoNext]_fifoVars

(* A function that is called ends; a call whose turn has come is let in. *)
FifoFairness ==
  \A c \in Call : /\ WF_fifoVars(Grant(c))
                  /\ WF_fifoVars(\E how \in Left : Release(c, how))

FifoSpec == FifoSafeSpec /\ FifoFairness
=============================================================================
