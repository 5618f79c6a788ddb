----------------------------- MODULE LeaseLock -----------------------------
(***************************************************************************)
(* withLock of the distributed storage adapters: src/adapters/redis.ts,    *)
(* postgres.ts, sqlite.ts and mongo.ts.  One key.  A lock is a row with    *)
(* the time it was taken; once that is LeaseTtl ago it is up for grabs:    *)
(* Redis forgets it, MongoDB's TTL index sweeps it, Postgres and SQLite    *)
(* clients overwrite it.  On release Redis and Postgres delete the row     *)
(* only if it is still the caller's own, SQLite and MongoDB delete         *)
(* whatever is there.                                                      *)
(*                                                                         *)
(* Each statement sent to the database is a step; an attempt reads the     *)
(* clock before the first.  A call that fails its attempts throws.         *)
(***************************************************************************)
EXTENDS Calls

CONSTANTS
  Backends,     \* the adapters looked at, a subset of Adapter
  LeaseTtl,     \* lockTtlMs
  MaxAttempts,  \* failed attempts before "Lock timeout" (60, MongoDB 150)
  LockFault,    \* what may go wrong, of LockFaultKinds
  NoRow

Adapter == {"redis", "postgres", "sqlite", "mongo"}
LockFaultKinds == {"crash", "release", "statement", "index"}

ASSUME LeaseAssumption ==
  /\ Backends \subseteq Adapter
  /\ LeaseTtl \in Nat \ {0} /\ MaxAttempts \in Nat /\ MaxTime \in Nat
  /\ LockFault \subseteq LockFaultKinds
ASSUME NoRowAssumption == NoRow \notin [owner : Call, at : 0 .. MaxTime]

VARIABLES
  backend,   \* the adapter in use
  row,       \* the lock row: who put it there and the time in it, or NoRow
  lk,        \* where each call is
  stamp,     \* the `now` of its attempt; once inside, the time its lease began
  seen,      \* the locked_at it read from another's row
  failures,  \* its failed attempts
  indexed,   \* whether the collection has the TTL index (MongoDB)
  overran,   \* history: calls that were inside beyond their lease
  swallowed  \* history: calls whose last attempt ended in an error of a theft

leaseVars == <<backend, row, now, lk, stamp, seen, failures, indexed, overran, swallowed>>

LockState == {"idle", "trying", "inspecting", "stealing", "backoff",
              "inside", "done", "timedOut", "errored", "crashed"}

LeaseTypeOK ==
  /\ backend \in Backends
  /\ row \in [owner : Call, at : 0 .. MaxTime] \cup {NoRow}
  /\ now \in 0 .. MaxTime
  /\ lk \in [Call -> LockState]
  /\ stamp \in [Call -> 0 .. MaxTime]
  /\ seen \in [Call -> 0 .. MaxTime]
  /\ failures \in [Call -> 0 .. MaxAttempts]
  /\ indexed \in BOOLEAN
  /\ overran \in SUBSET Call
  /\ swallowed \in SUBSET Call

LeaseInit ==
  /\ backend \in Backends
  /\ row = NoRow
  /\ now = 0
  /\ lk = [c \in Call |-> "idle"]
  /\ stamp = [c \in Call |-> 0]
  /\ seen = [c \in Call |-> 0]
  /\ failures = [c \in Call |-> 0]
  /\ indexed = FALSE
  /\ overran = {}
  /\ swallowed = {}

To(c, l) == lk' = [lk EXCEPT ![c] = l]

(* MongoDB's ensureIndex, when a call begins.  An error is only logged, and *)
(* the collection counts as indexed: this process does not try again.      *)
EnsureIndex(c) ==
  \/ backend = "mongo" /\ lk[c] = "idle" /\ indexed' = TRUE
  \/ /\ backend = "mongo" /\ lk[c] = "idle" => "index" \in LockFault
     /\ UNCHANGED indexed

(* A new attempt, the first or one after a pause. *)
Attempt(c) ==
  /\ lk[c] \in {"idle", "backoff"}
  /\ EnsureIndex(c)
  /\ stamp' = [stamp EXCEPT ![c] = now]
  /\ swallowed' = swallowed \ {c}
  /\ To(c, "trying")
  /\ UNCHANGED <<backend, row, now, seen, failures, overran>>

(* Mutant of Free: SET without NX, INSERT without the primary key. *)
FreeAlways == TRUE

(* Whether the key can be inserted: Redis does not see an expired one. *)
Free ==
  \/ row = NoRow
  \/ row # NoRow /\ backend = "redis" /\ now >= row.at + LeaseTtl

Take(c, time) ==
  /\ row' = [owner |-> c, at |-> time]
  /\ stamp' = [stamp EXCEPT ![c] = time]
  /\ seen' = [seen EXCEPT ![c] = 0]
  /\ failures' = [failures EXCEPT ![c] = 0]
  /\ overran' = IF now >= time + LeaseTtl THEN overran \cup {c} ELSE overran
  /\ To(c, "inside")
  /\ UNCHANGED <<backend, now, indexed, swallowed>>

(* Mutant of BackOff: one attempt too many. *)
BackOffOnceMore(c) ==
  /\ IF failures[c] > MaxAttempts
     THEN To(c, "timedOut") /\ UNCHANGED failures
     ELSE /\ To(c, "backoff")
          /\ failures' = [failures EXCEPT ![c] = @ + 1]
  /\ stamp' = [stamp EXCEPT ![c] = 0]
  /\ seen' = [seen EXCEPT ![c] = 0]
  /\ UNCHANGED <<backend, row, now, indexed, overran>>

(* An attempt failed: back off, or give up with "Lock timeout". *)
BackOff(c) ==
  /\ IF failures[c] = MaxAttempts
     THEN To(c, "timedOut") /\ UNCHANGED failures
     ELSE /\ To(c, "backoff")
          /\ failures' = [failures EXCEPT ![c] = @ + 1]
  /\ stamp' = [stamp EXCEPT ![c] = 0]
  /\ seen' = [seen EXCEPT ![c] = 0]
  /\ UNCHANGED <<backend, row, now, indexed, overran>>

(* The row is another's. *)
Miss(c) == BackOff(c) /\ UNCHANGED swallowed

(* INSERT, insertOne, or SET NX PX: Redis counts the TTL from its arrival, *)
(* the others store the time at which the attempt began.                   *)
Insert(c) ==
  /\ lk[c] = "trying" /\ Free
  /\ Take(c, IF backend = "redis" THEN now ELSE stamp[c])

InsertConflict(c) ==
  /\ lk[c] = "trying" /\ ~Free
  /\ IF backend \in {"redis", "mongo"}
     THEN Miss(c)
     ELSE To(c, "inspecting")
          /\ UNCHANGED <<backend, row, now, stamp, seen, failures, indexed, overran, swallowed>>

(* Mutant of Inspect: no lock is ever too old. *)
InspectInVain(c) == lk[c] = "inspecting" /\ Miss(c)

(* SELECT locked_at, and the comparison with the time of the attempt. *)
Inspect(c) ==
  /\ lk[c] = "inspecting"
  /\ IF row # NoRow /\ stamp[c] - row.at > LeaseTtl
     THEN /\ seen' = [seen EXCEPT ![c] = row.at]
          /\ To(c, "stealing")
          /\ UNCHANGED <<backend, row, now, stamp, failures, indexed, overran, swallowed>>
     ELSE Miss(c)

(* Mutant of StealTakes: UPDATE without `AND locked_at =`. *)
StealAnyRow(c) == row # NoRow \/ backend = "sqlite"

(* Postgres: UPDATE ... WHERE locked_at = the one seen.  SQLite: DELETE    *)
(* that row and INSERT in one transaction, which fails if another is there. *)
StealTakes(c) ==
  \/ row # NoRow /\ row.at = seen[c]
  \/ row = NoRow /\ backend = "sqlite"
Steal(c) ==
  /\ lk[c] = "stealing"
  /\ IF StealTakes(c) THEN Take(c, stamp[c]) ELSE Miss(c)

(* SQLite takes any error of its transaction for a conflict: the row stays *)
(* as it is, and the call goes on as if another had been faster.           *)
StealFails(c) ==
  /\ "statement" \in LockFault
  /\ lk[c] = "stealing" /\ backend = "sqlite"
  /\ BackOff(c)
  /\ swallowed' = swallowed \cup {c}

(* Another statement of the attempt fails, or its answer is lost: withLock *)
(* throws, and a row it may have put there stays.  SQLite loses no answers. *)
AttemptFails(c) ==
  /\ "statement" \in LockFault
  /\ \/ lk[c] \in {"trying", "inspecting"}
     \/ lk[c] = "stealing" /\ backend # "sqlite"
  /\ \/ UNCHANGED row
     \/ /\ backend # "sqlite"
        /\ \/ lk[c] = "trying" /\ Free
           \/ lk[c] = "stealing" /\ StealTakes(c)
        /\ row' = [owner |-> c, at |-> IF backend = "redis" THEN now ELSE stamp[c]]
  /\ stamp' = [stamp EXCEPT ![c] = 0]
  /\ seen' = [seen EXCEPT ![c] = 0]
  /\ failures' = [failures EXCEPT ![c] = 0]
  /\ To(c, "errored")
  /\ UNCHANGED <<backend, now, indexed, overran, swallowed>>

Out(c, l) ==
  /\ To(c, l)
  /\ stamp' = [stamp EXCEPT ![c] = 0]
  /\ UNCHANGED <<backend, now, seen, failures, indexed, overran, swallowed>>

Owns(c) == row # NoRow /\ row.owner = c
ReleaseDeletes(c) == backend \in {"redis", "postgres"} => Owns(c) /\ ~Free

(* `finally`: fn has settled. *)
Release(c) ==
  /\ lk[c] = "inside"
  /\ row' = IF ReleaseDeletes(c) THEN NoRow ELSE row
  /\ Out(c, "done")

(* The statement that releases fails: the row stays until it is too old.   *)
ReleaseFails(c) ==
  /\ "release" \in LockFault
  /\ lk[c] = "inside"
  /\ Out(c, "done")
  /\ UNCHANGED row

(* The process dies with or without the lock; its row stays. *)
Die(c) ==
  /\ "crash" \in LockFault
  /\ lk[c] \in {"trying", "inspecting", "stealing", "backoff", "inside"}
  /\ To(c, "crashed")
  /\ stamp' = [stamp EXCEPT ![c] = 0]
  /\ seen' = [seen EXCEPT ![c] = 0]
  /\ failures' = [failures EXCEPT ![c] = 0]
  /\ UNCHANGED <<backend, row, now, indexed, overran, swallowed>>

(* MongoDB's TTL monitor, some time after the row is too old, if there is  *)
(* the index that it works by.                                             *)
Sweep ==
  /\ backend = "mongo" /\ indexed
  /\ row # NoRow /\ now >= row.at + LeaseTtl
  /\ row' = NoRow
  /\ UNCHANGED <<backend, now, lk, stamp, seen, failures, indexed, overran, swallowed>>

Overdue(c, t) == lk[c] = "inside" /\ t >= stamp[c] + LeaseTtl

LeaseTick ==
  /\ now < MaxTime
  /\ now' = now + 1
  /\ overran' = overran \cup {c \in Call : Overdue(c, now + 1)}
  /\ UNCHANGED <<backend, row, lk, stamp, seen, failures, indexed, swallowed>>

Acquire(c) ==
  Attempt(c) \/ Insert(c) \/ InsertConflict(c) \/ Inspect(c) \/ Steal(c)

LeaseNext ==
  \/ \E c \in Call : \/ Acquire(c) \/ StealFails(c) \/ AttemptFails(c)
                    \/ Release(c) \/ ReleaseFails(c) \/ Die(c)
  \/ Sweep
  \/ LeaseTick

LeaseSafeSpec == LeaseInit /\ [][LeaseNext]_leaseVars

(* A call that has begun goes on to its end; the clock does not stop, nor  *)
(* does the TTL monitor of a collection that has the index.                *)
LeaseFairness ==
  /\ \A c \in Call : /\ WF_leaseVars(lk[c] # "idle" /\ Acquire(c))
                    /\ WF_leaseVars(Release(c))
  /\ WF_leaseVars(Sweep)
  /\ WF_leaseVars(LeaseTick)

LeaseSpec == LeaseSafeSpec /\ LeaseFairness

-----------------------------------------------------------------------------
Inside(c) == lk[c] = "inside"

(* The lock is a lock as long as every function is done before its lease   *)
(* is over, with every adapter, whatever statements interleave and whoever *)
(* crashes or fails to release.                                            *)
ExclusiveUnlessOverrun ==
  overran = {} => \A a, b \in Call : Inside(a) /\ Inside(b) => a = b

(* The row of a call within its lease is left alone by everybody else:     *)
(* no step of another steals, sweeps or deletes it.                        *)
LeaseIsRespected ==
  [][\A c \in Call :
       /\ backend \in {"redis", "postgres"}
       /\ Inside(c) /\ Owns(c) /\ ~Overdue(c, now) /\ Inside(c)'
       => row' = row]_leaseVars

(* A lock left behind, by a crash, a failed release or a lost answer, does *)
(* not block for good: if an attempt begins when it is too old, it is      *)
(* taken or swept, unless that caller crashes or fails, too.  There are    *)
(* two ways out of this in the code.  SQLite swallows the errors of its    *)
(* theft, and a caller that meets one may use up its attempts and end in   *)
(* "Lock timeout"; and without the index, whose creation MongoDB's adapter *)
(* tries once per process, nobody ever removes the row.                    *)
Abandoned(c) == Owns(c) /\ lk[c] \in {"done", "errored", "crashed"}
Takeable(c) == Abandoned(c) /\ (backend = "mongo" => indexed)
AbandonedLockIsTaken ==
  \A c, d \in Call :
    Takeable(c) /\ lk[d] = "trying" /\ stamp[d] > row.at + LeaseTtl
      ~> ~Abandoned(c) \/ lk[d] \in {"errored", "crashed"} \/ d \in swallowed
=============================================================================
