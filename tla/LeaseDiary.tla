----------------------------- MODULE LeaseDiary -----------------------------
(***************************************************************************)
(* AgentDiary on the distributed adapters (src/adapters): the bodies of    *)
(* module Diary under the leases of module LeaseLock.  Nothing renews a    *)
(* lease while a function runs, so a function that takes longer than the   *)
(* lease (10 s) goes on without the lock, and the calls after it work on   *)
(* the same diary at the same time.  The diary in the database outlives    *)
(* the processes that use it; a process may die at any point.              *)
(***************************************************************************)
EXTENDS Diary, LeaseLock

(* What module LeaseLock has beside the clock. *)
rowVars == <<backend, row, lk, stamp, seen, failures, indexed, overran, swallowed>>
vars == <<diaryVars, rowVars>>

Init == DiaryInit /\ LeaseInit

(* The call asks for the lock, its first attempt. *)
Ask(c) == Invoke(c) /\ Attempt(c)

(* A step of a call that tries: once it has the row, its body may begin;   *)
(* "Lock timeout" or an error of the database ends it.                     *)
Try(c) ==
  /\ pc[c] = "waiting"
  /\ Acquire(c) \/ StealFails(c) \/ AttemptFails(c)
  /\ IF lk'[c] = "inside"
     THEN Locked(c)
     ELSE IF lk'[c] \in {"timedOut", "errored"}
     THEN /\ Goto(c, "done")
          /\ outcome' = [outcome EXCEPT ![c] = "threw"]
          /\ UNCHANGED <<store, exported, lost, op, local, at, todo, claimed, result>>
     ELSE UNCHANGED diaryVars

(* The get of Postgres and SQLite logs an error of the database and        *)
(* returns null, which reads as an empty diary; that of Redis and MongoDB  *)
(* throws it.                                                              *)
Works(c) ==
  /\ \/ BodyStep(c) /\ (lost' # lost => backend \in {"postgres", "sqlite"})
     \/ BodyFault(c)
     \/ ReadFails(c) /\ backend \in {"redis", "mongo"}
  /\ UNCHANGED rowVars

GiveBack(c) == Finish(c) /\ Release(c)

(* The releasing statement fails: Postgres and SQLite log it; with Redis   *)
(* and MongoDB the error replaces what the call would have returned.       *)
GiveBackFails(c) ==
  /\ pc[c] = "leaving"
  /\ ReleaseFails(c)
  /\ Goto(c, "done")
  /\ IF backend \in {"redis", "mongo"}
     THEN /\ outcome' = [outcome EXCEPT ![c] = "threw"]
          /\ result' = [result EXCEPT ![c] = Undefined]
     ELSE UNCHANGED answer
  /\ UNCHANGED <<store, exported, lost, op, local, at, todo, claimed>>

Dies(c) == Crash(c) /\ Die(c)

Time == Tick /\ LeaseTick

Next ==
  \/ \E c \in Call :
       \/ Ask(c) \/ Try(c) \/ Works(c) \/ GiveBack(c) \/ GiveBackFails(c)
       \/ Dies(c)
       \/ Read(c) /\ UNCHANGED rowVars
  \/ Sweep /\ UNCHANGED diaryVars
  \/ Time

SafeSpec == Init /\ [][Next]_vars

-----------------------------------------------------------------------------
(* The guarantee stands, crashes included, if every call is done before    *)
(* its lease is over and no failed read was taken for an empty diary: no   *)
(* task runs twice, and what a call that ended well has put into the diary *)
(* is still there.                                                         *)
SoundUnlessOverrun == overran = {} /\ ~lost => AtMostOnce /\ CompletedIsStored
=============================================================================
