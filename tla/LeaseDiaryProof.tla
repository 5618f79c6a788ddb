--------------------------- MODULE LeaseDiaryProof --------------------------
(***************************************************************************)
(* The lock rows of the distributed adapters exclude while leases are      *)
(* kept, for any number of calls, any lease and any number of attempts,    *)
(* and whatever crashes, fails or gets lost; and executeOnce under them    *)
(* runs each task at most once.                                            *)
(*                                                                         *)
(* The argument: who is inside within its lease is the owner of the row,   *)
(* and the time in the row is the beginning of its lease.  A row that      *)
(* young is not free, no attempt has seen it as old, and nothing sweeps it. *)
(* So one body is at work at a time, and module DiaryProof has the rest.   *)
(***************************************************************************)
EXTENDS LeaseDiary, DiaryProof

-----------------------------------------------------------------------------
(* The lock *)

(* No attempt carries a time from the future, and who is about to steal    *)
(* has seen a row that was too old when its attempt began.                 *)
StampInv == \A c \in Call : stamp[c] <= now
StealInv == \A c \in Call : lk[c] = "stealing" => stamp[c] - seen[c] > LeaseTtl

(* The row of a call that is inside tells when its lease began. *)
RowInv == \A c \in Call : Inside(c) /\ Owns(c) => row.at = stamp[c]

(* While no lease was overrun, who is inside has the row and is in time.   *)
HolderInv ==
  overran = {} => \A c \in Call : Inside(c) => Owns(c) /\ ~Overdue(c, now)

IInv == LeaseTypeOK /\ StampInv /\ StealInv /\ RowInv /\ HolderInv

Row == [owner : Call, at : 0 .. MaxTime]

-----------------------------------------------------------------------------
(* A row within its lease is not free, not stolen and not swept. *)
Young == row # NoRow /\ now < row.at + LeaseTtl

(* A young row is neither free nor stolen. *)
LEMMA YoungIsKept ==
  ASSUME IInv, Young
  PROVE  /\ ~Free
         /\ \A c \in Call : lk[c] = "stealing" => ~StealTakes(c)
<1>1. row \in Row /\ now \in Nat /\ LeaseTtl \in Nat /\ row.at \in Nat
  BY LeaseAssumption DEF IInv, LeaseTypeOK, Young, Row
<1>2. ~Free
  BY <1>1 DEF Young, Free
<1>3. ASSUME NEW c \in Call, lk[c] = "stealing" PROVE ~StealTakes(c)
  <2>1. stamp[c] \in Nat /\ seen[c] \in Nat
    BY LeaseAssumption DEF IInv, LeaseTypeOK
  <2>2. stamp[c] <= now /\ stamp[c] - seen[c] > LeaseTtl
    BY <1>3 DEF IInv, StampInv, StealInv
  <2>3. row.at # seen[c]
    BY <1>1, <2>1, <2>2 DEF Young
  <2> QED
    BY <2>3 DEF Young, StealTakes
<1> QED
  BY <1>2, <1>3

(* While no lease was overrun, who is inside has a young row to its name.  *)
LEMMA InsideIsYoung ==
  ASSUME IInv, overran = {}, NEW c \in Call, Inside(c)
  PROVE  Young /\ row.owner = c
<1>1. Owns(c) /\ ~Overdue(c, now) /\ row.at = stamp[c]
  BY DEF IInv, HolderInv, RowInv
<1>2. stamp[c] \in Nat /\ now \in Nat /\ LeaseTtl \in Nat
  BY LeaseAssumption DEF IInv, LeaseTypeOK
<1> QED
  BY <1>1, <1>2 DEF Overdue, Inside, Owns, Young

-----------------------------------------------------------------------------
(* No rows, nobody inside. *)
LEMMA InitInv == LeaseInit => IInv
<1> SUFFICES ASSUME LeaseInit PROVE IInv
  OBVIOUS
<1>1. LeaseTypeOK
  <2>1. indexed \in BOOLEAN
    BY DEF LeaseInit
  <2> QED
    BY <2>1, LeaseAssumption DEF LeaseInit, LeaseTypeOK, LockState
<1>2. StampInv /\ StealInv
  BY DEF LeaseInit, StampInv, StealInv
<1>3. RowInv /\ HolderInv
  BY DEF LeaseInit, RowInv, HolderInv, Inside
<1> QED
  BY <1>1, <1>2, <1>3 DEF IInv

(* The invariant is kept by a step of a call that leaves the row, the time *)
(* and the history alone, and neither enters nor begins to steal.          *)
LEMMA AsideStep ==
  ASSUME IInv, LeaseTypeOK', NEW c \in Call,
         UNCHANGED <<row, now, overran>>,
         \A d \in Call \ {c} : /\ lk'[d] = lk[d] /\ stamp'[d] = stamp[d]
                              /\ seen'[d] = seen[d],
         lk'[c] \notin {"inside", "stealing"}, stamp'[c] <= now
  PROVE  IInv'
<1>2. \A d \in Call : d # c => /\ lk'[d] = lk[d] /\ stamp'[d] = stamp[d]
                              /\ seen'[d] = seen[d]
  OBVIOUS
<1>3. StampInv' /\ StealInv'
  BY <1>2 DEF IInv, StampInv, StealInv
<1>4. RowInv' /\ HolderInv'
  BY <1>2 DEF IInv, RowInv, HolderInv, Inside, Owns, Overdue
<1> QED
  BY <1>3, <1>4 DEF IInv

(* And by a call that takes the row where there is no young one. *)
LEMMA TakeStep ==
  ASSUME IInv, LeaseTypeOK', NEW c \in Call, NEW t \in 0 .. MaxTime, t <= now,
         ~Young, Take(c, t)
  PROVE  IInv'
<1>1. /\ lk \in [Call -> LockState] /\ stamp \in [Call -> 0 .. MaxTime]
      /\ seen \in [Call -> 0 .. MaxTime] /\ now \in Nat /\ LeaseTtl \in Nat
  BY LeaseAssumption DEF IInv, LeaseTypeOK
<1>2. \A d \in Call : d # c => /\ lk'[d] = lk[d] /\ stamp'[d] = stamp[d]
                              /\ seen'[d] = seen[d]
  BY <1>1 DEF Take, To
<1>3. /\ lk'[c] = "inside" /\ stamp'[c] = t /\ now' = now
      /\ row' = [owner |-> c, at |-> t]
  BY <1>1 DEF Take, To
<1>4. row' # NoRow
  BY <1>3, NoRowAssumption
<1>5. StampInv' /\ StealInv'
  BY <1>2, <1>3 DEF IInv, StampInv, StealInv
<1>6. RowInv'
  BY <1>2, <1>3 DEF RowInv, Owns
<1>7. HolderInv'
  <2> SUFFICES ASSUME overran' = {}, NEW d \in Call, Inside(d)'
               PROVE  (Owns(d) /\ ~Overdue(d, now))'
    BY DEF HolderInv
  <2>1. overran = {} /\ ~(now >= t + LeaseTtl)
    BY DEF Take
  <2>2. d = c
    BY <1>2, <2>1, InsideIsYoung DEF Inside
  <2> QED
    BY <1>3, <1>4, <2>1, <2>2 DEF Owns, Overdue
<1> QED
  BY <1>5, <1>6, <1>7 DEF IInv

(* A call that was inside leaves: the others were not. *)
LEMMA LeaveStep ==
  ASSUME IInv, LeaseTypeOK', NEW c \in Call, NEW l \in LockState \ {"inside", "stealing"},
         Inside(c), Out(c, l), row' \in {row, NoRow}
  PROVE  IInv'
<1>1. /\ lk \in [Call -> LockState] /\ stamp \in [Call -> 0 .. MaxTime]
      /\ now \in 0 .. MaxTime
  BY DEF IInv, LeaseTypeOK
<1>2. \A d \in Call : d # c => lk'[d] = lk[d] /\ stamp'[d] = stamp[d]
  BY <1>1 DEF Out, To
<1>3. lk'[c] = l /\ stamp'[c] = 0
  BY <1>1 DEF Out, To
<1>4. StampInv' /\ StealInv'
  BY <1>1, <1>2, <1>3 DEF IInv, StampInv, StealInv, Out
<1>5. RowInv'
  BY <1>2, <1>3 DEF IInv, RowInv, Inside, Owns
<1>6. HolderInv'
  <2> SUFFICES ASSUME overran' = {}, NEW d \in Call, Inside(d)' PROVE FALSE
    BY DEF HolderInv
  <2>1. overran = {} /\ Inside(d) /\ d # c
    BY <1>2, <1>3 DEF Out, Inside
  <2> QED
    BY <2>1, InsideIsYoung
<1> QED
  BY <1>4, <1>5, <1>6 DEF IInv

(* An attempt that fails may have put a row where there was no young one.  *)
LEMMA FailStep ==
  ASSUME IInv, LeaseTypeOK', NEW c \in Call, AttemptFails(c)
  PROVE  IInv'
<1>1. /\ lk \in [Call -> LockState] /\ stamp \in [Call -> 0 .. MaxTime]
      /\ seen \in [Call -> 0 .. MaxTime] /\ now \in Nat
  BY DEF IInv, LeaseTypeOK
<1>2. \A d \in Call : d # c => /\ lk'[d] = lk[d] /\ stamp'[d] = stamp[d]
                              /\ seen'[d] = seen[d]
  BY <1>1 DEF AttemptFails, To
<1>3. lk'[c] = "errored" /\ stamp'[c] = 0 /\ UNCHANGED <<now, overran>>
  BY <1>1 DEF AttemptFails, To
<1>4. StampInv' /\ StealInv'
  BY <1>1, <1>2, <1>3 DEF IInv, StampInv, StealInv
<1>5. RowInv' /\ HolderInv'
  <2>1. CASE UNCHANGED row
    BY <1>2, <1>3, <2>1 DEF IInv, RowInv, HolderInv, Inside, Owns, Overdue
  <2>2. CASE ~UNCHANGED row
    <3>1. /\ row'.owner = c
          /\ \/ lk[c] = "trying" /\ Free
             \/ lk[c] = "stealing" /\ StealTakes(c)
      BY <2>2 DEF AttemptFails
    <3>2. ~Young
      BY <3>1, YoungIsKept
    <3>3. RowInv'
      BY <1>2, <1>3, <3>1 DEF RowInv, Inside, Owns
    <3>4. HolderInv'
      BY <1>2, <1>3, <3>2, InsideIsYoung DEF HolderInv, Inside
    <3> QED
      BY <3>3, <3>4
  <2> QED
    BY <2>1, <2>2
<1> QED
  BY <1>4, <1>5 DEF IInv

(* The clock and the sweeper. *)
LEMMA TickStep == IInv /\ LeaseTypeOK' /\ LeaseTick => IInv'
<1> SUFFICES ASSUME IInv, LeaseTypeOK', LeaseTick PROVE IInv'
  OBVIOUS
<1>1. stamp \in [Call -> 0 .. MaxTime] /\ now \in Nat
  BY DEF IInv, LeaseTypeOK
<1>2. StampInv' /\ StealInv' /\ RowInv'
  BY <1>1 DEF IInv, StampInv, StealInv, RowInv, LeaseTick, Inside, Owns
<1>3. HolderInv'
  BY DEF IInv, HolderInv, LeaseTick, Inside, Owns, Overdue
<1> QED
  BY <1>2, <1>3 DEF IInv

(* The sweep takes rows that are out of date only. *)
LEMMA SweepStep == IInv /\ LeaseTypeOK' /\ Sweep => IInv'
<1> SUFFICES ASSUME IInv, LeaseTypeOK', Sweep PROVE IInv'
  OBVIOUS
<1>1. row' = NoRow /\ UNCHANGED <<now, lk, stamp, seen, overran>> /\ ~Young
  <2>1. now \in Nat /\ LeaseTtl \in Nat /\ (row # NoRow => row.at \in Nat)
    BY LeaseAssumption DEF IInv, LeaseTypeOK
  <2> QED
    BY <2>1 DEF Sweep, Young
<1>2. StampInv' /\ StealInv' /\ RowInv'
  BY <1>1 DEF IInv, StampInv, StealInv, RowInv, Owns
<1>3. HolderInv'
  BY <1>1, InsideIsYoung DEF HolderInv, Inside
<1> QED
  BY <1>2, <1>3 DEF IInv

-----------------------------------------------------------------------------
(* Every step keeps the types. *)
LEMMA TypeStep == LeaseTypeOK /\ [LeaseNext]_leaseVars => LeaseTypeOK'
<1> SUFFICES ASSUME LeaseTypeOK, [LeaseNext]_leaseVars PROVE LeaseTypeOK'
  OBVIOUS
<1> USE LeaseAssumption DEF LeaseTypeOK
<1>1. ASSUME NEW c \in Call, Attempt(c) PROVE LeaseTypeOK'
  <2>1. indexed' \in BOOLEAN
    BY <1>1 DEF Attempt, EnsureIndex
  <2> QED
    BY <1>1, <2>1 DEF Attempt, To, LockState
<1>2. ASSUME NEW c \in Call, NEW t \in 0 .. MaxTime, Take(c, t) PROVE LeaseTypeOK'
  BY <1>2 DEF Take, To, LockState
<1>3. ASSUME NEW c \in Call, Miss(c) \/ StealFails(c) PROVE LeaseTypeOK'
  <2>1. BackOff(c) /\ swallowed' \in SUBSET Call
    BY <1>3 DEF Miss, StealFails
  <2> QED
    BY <2>1 DEF BackOff, To, LockState
<1>4. ASSUME NEW c \in Call, Insert(c) PROVE LeaseTypeOK'
  BY <1>2, <1>4 DEF Insert
<1>5. ASSUME NEW c \in Call, InsertConflict(c) PROVE LeaseTypeOK'
  BY <1>3, <1>5 DEF InsertConflict, To, LockState
<1>6. ASSUME NEW c \in Call, Inspect(c) PROVE LeaseTypeOK'
  BY <1>3, <1>6 DEF Inspect, To, LockState
<1>7. ASSUME NEW c \in Call, Steal(c) PROVE LeaseTypeOK'
  BY <1>2, <1>3, <1>7 DEF Steal
<1>8. ASSUME NEW c \in Call, AttemptFails(c) PROVE LeaseTypeOK'
  BY <1>8 DEF AttemptFails, To, LockState
<1>9. ASSUME NEW c \in Call, Release(c) \/ ReleaseFails(c) PROVE LeaseTypeOK'
  BY <1>9 DEF Release, ReleaseFails, Out, To, LockState
<1>10. ASSUME NEW c \in Call, Die(c) PROVE LeaseTypeOK'
  BY <1>10 DEF Die, To, LockState
<1>11. CASE Sweep \/ LeaseTick
  BY <1>11 DEF Sweep, LeaseTick
<1>12. CASE UNCHANGED leaseVars
  BY <1>12 DEF leaseVars
<1> QED
  BY <1>1, <1>3, <1>4, <1>5, <1>6, <1>7, <1>8, <1>9, <1>10, <1>11, <1>12 DEF LeaseNext, Acquire

(* Every step keeps the invariant. *)
LEMMA NextInv == IInv /\ [LeaseNext]_leaseVars => IInv'
<1> SUFFICES ASSUME IInv, [LeaseNext]_leaseVars PROVE IInv'
  OBVIOUS
<1>1. LeaseTypeOK /\ LeaseTypeOK'
  BY TypeStep DEF IInv
<1>2. /\ lk \in [Call -> LockState] /\ now \in 0 .. MaxTime
      /\ stamp \in [Call -> 0 .. MaxTime] /\ seen \in [Call -> 0 .. MaxTime]
  BY <1>1 DEF LeaseTypeOK
<1>3. ASSUME NEW c \in Call, Attempt(c) PROVE IInv'
  <2>1. /\ UNCHANGED <<row, now, overran>> /\ stamp'[c] <= now
        /\ lk'[c] \notin {"inside", "stealing"}
    BY <1>2, <1>3 DEF Attempt, To
  <2>2. \A d \in Call \ {c} : /\ lk'[d] = lk[d] /\ stamp'[d] = stamp[d]
                              /\ seen'[d] = seen[d]
    BY <1>2, <1>3 DEF Attempt, To
  <2> QED
    BY <1>1, <2>1, <2>2, AsideStep
<1>4. ASSUME NEW c \in Call, Miss(c) \/ StealFails(c) PROVE IInv'
  <2>0. BackOff(c)
    BY <1>4 DEF Miss, StealFails
  <2>1. /\ UNCHANGED <<row, now, overran>> /\ stamp'[c] <= now
        /\ lk'[c] \notin {"inside", "stealing"}
    BY <1>2, <2>0 DEF BackOff, To
  <2>2. \A d \in Call \ {c} : /\ lk'[d] = lk[d] /\ stamp'[d] = stamp[d]
                              /\ seen'[d] = seen[d]
    BY <1>2, <2>0 DEF BackOff, To
  <2> QED
    BY <1>1, <2>1, <2>2, AsideStep
<1>5. ASSUME NEW c \in Call, Insert(c) PROVE IInv'
  BY <1>1, <1>2, <1>5, YoungIsKept, TakeStep DEF Insert, IInv, StampInv
<1>6. ASSUME NEW c \in Call, InsertConflict(c) PROVE IInv'
  <2>1. CASE Miss(c)
    BY <1>4, <2>1
  <2>2. CASE ~Miss(c)
    <3>1. /\ UNCHANGED <<row, now, stamp, seen, overran>>
          /\ lk' = [lk EXCEPT ![c] = "inspecting"]
      BY <1>6, <2>2 DEF InsertConflict, To
    <3>2. /\ \A d \in Call \ {c} : lk'[d] = lk[d]
          /\ lk'[c] \notin {"inside", "stealing"} /\ stamp'[c] <= now
      BY <1>2, <3>1 DEF IInv, StampInv
    <3> QED
      BY <1>1, <3>1, <3>2, AsideStep
  <2> QED
    BY <2>1, <2>2
<1>7. ASSUME NEW c \in Call, Inspect(c) PROVE IInv'
  <2>1. CASE Miss(c)
    BY <1>4, <2>1
  <2>2. CASE ~Miss(c)
    <3>1. /\ seen' = [seen EXCEPT ![c] = row.at] /\ lk' = [lk EXCEPT ![c] = "stealing"]
          /\ stamp[c] - row.at > LeaseTtl
          /\ UNCHANGED <<row, now, stamp, overran>>
      BY <1>7, <2>2 DEF Inspect, To
    <3>2. \A d \in Call : d # c => lk'[d] = lk[d] /\ seen'[d] = seen[d]
      BY <1>2, <3>1
    <3>3. lk'[c] = "stealing" /\ seen'[c] = row.at
      BY <1>2, <3>1
    <3>4. StampInv' /\ StealInv'
      BY <3>1, <3>2, <3>3 DEF IInv, StampInv, StealInv
    <3>5. RowInv' /\ HolderInv'
      BY <3>1, <3>2, <3>3 DEF IInv, RowInv, HolderInv, Inside, Owns, Overdue
    <3> QED
      BY <1>1, <3>4, <3>5 DEF IInv
  <2> QED
    BY <2>1, <2>2
<1>8. ASSUME NEW c \in Call, Steal(c) PROVE IInv'
  <2>1. CASE Miss(c)
    BY <1>4, <2>1
  <2>2. CASE ~Miss(c)
    BY <1>1, <1>2, <1>8, <2>2, YoungIsKept, TakeStep DEF Steal, IInv, StampInv
  <2> QED
    BY <2>1, <2>2
<1>9. ASSUME NEW c \in Call, AttemptFails(c) PROVE IInv'
  BY <1>1, <1>9, FailStep
<1>10. ASSUME NEW c \in Call, Release(c) \/ ReleaseFails(c) PROVE IInv'
  BY <1>1, <1>10, LeaveStep DEF Release, ReleaseFails, Inside, LockState
<1>11. ASSUME NEW c \in Call, Die(c) PROVE IInv'
  <2>1. /\ UNCHANGED <<row, now, overran>> /\ stamp'[c] <= now
        /\ lk'[c] \notin {"inside", "stealing"}
    BY <1>2, <1>11 DEF Die, To
  <2>2. \A d \in Call \ {c} : /\ lk'[d] = lk[d] /\ stamp'[d] = stamp[d]
                              /\ seen'[d] = seen[d]
    BY <1>2, <1>11 DEF Die, To
  <2> QED
    BY <1>1, <2>1, <2>2, AsideStep
<1>12. CASE Sweep
  BY <1>1, <1>12, SweepStep
<1>13. CASE LeaseTick
  BY <1>1, <1>13, TickStep
<1>14. CASE UNCHANGED leaseVars
  BY <1>14 DEF leaseVars, IInv, LeaseTypeOK, StampInv, StealInv, RowInv, HolderInv,
               Inside, Owns, Overdue
<1> QED
  BY <1>3, <1>4, <1>5, <1>6, <1>7, <1>8, <1>9, <1>10, <1>11, <1>12, <1>13, <1>14
     DEF LeaseNext, Acquire

-----------------------------------------------------------------------------
(* The inductive invariant of the lock table and its callers. *)
THEOREM LeaseInvariance == LeaseSafeSpec => []IInv
  BY InitInv, NextInv, PTL DEF LeaseSafeSpec

(* The rows, the clocks and the places of the callers keep their types. *)
THEOREM LeaseTypeCorrect == LeaseSafeSpec => []LeaseTypeOK
<1>1. IInv => LeaseTypeOK
  BY DEF IInv
<1> QED
  BY <1>1, LeaseInvariance, PTL

(* The lock is a lock, with every adapter, as long as every function is    *)
(* done before its lease is over (redis.ts:52-91 and its siblings).        *)
THEOREM LeaseExclusion == LeaseSafeSpec => []ExclusiveUnlessOverrun
<1>1. IInv => ExclusiveUnlessOverrun
  BY InsideIsYoung DEF ExclusiveUnlessOverrun
<1> QED
  BY <1>1, LeaseInvariance, PTL

(* With the adapters that release only what is their own, the row of a     *)
(* call within its lease is left alone, whoever else is late.              *)
THEOREM LeaseRespect == LeaseSafeSpec => LeaseIsRespected
<1>1. ASSUME IInv, [LeaseNext]_leaseVars, NEW c \in Call,
             backend \in {"redis", "postgres"}, Inside(c), Owns(c), ~Overdue(c, now),
             Inside(c)'
      PROVE  row' = row
  <2>1. Young
    <3>1. row.at = stamp[c] /\ stamp[c] \in Nat /\ now \in Nat /\ LeaseTtl \in Nat
      BY <1>1, LeaseAssumption DEF IInv, RowInv, LeaseTypeOK
    <3> QED
      BY <1>1, <3>1 DEF Owns, Overdue, Inside, Young
  <2>2. lk \in [Call -> LockState]
    BY <1>1 DEF IInv, LeaseTypeOK
  <2>3. ASSUME NEW d \in Call, Acquire(d) \/ StealFails(d) \/ AttemptFails(d)
        PROVE  row' = row
    BY <1>1, <2>1, <2>3, YoungIsKept
       DEF Acquire, Attempt, Insert, InsertConflict, Inspect, Steal, Miss, BackOff, StealFails,
           AttemptFails
  <2>4. ASSUME NEW d \in Call, Release(d) PROVE row' = row
    <3>1. d # c
      BY <1>1, <2>2, <2>4 DEF Release, Out, To, Inside
    <3> QED
      BY <1>1, <2>4, <3>1 DEF Release, ReleaseDeletes, Owns
  <2>5. ASSUME NEW d \in Call, ReleaseFails(d) \/ Die(d) PROVE row' = row
    BY <2>5 DEF ReleaseFails, Die
  <2>6. CASE Sweep \/ LeaseTick \/ UNCHANGED leaseVars
    BY <1>1, <2>6 DEF Sweep, LeaseTick, leaseVars
  <2> QED
    BY <1>1, <2>3, <2>4, <2>5, <2>6 DEF LeaseNext
<1>2. IInv /\ [LeaseNext]_leaseVars
      => [\A c \in Call :
            /\ backend \in {"redis", "postgres"}
            /\ Inside(c) /\ Owns(c) /\ ~Overdue(c, now) /\ Inside(c)'
            => row' = row]_leaseVars
  BY <1>1
<1> QED
  BY <1>2, LeaseInvariance, PTL DEF LeaseSafeSpec, LeaseIsRespected

-----------------------------------------------------------------------------
(* The diary under the lock *)

(* The diary d is as it should be, and who is at work is inside the lock. *)
Sound(d) == DiaryInv(d) /\ \A c \in Call : AtWork(c) <=> Inside(c)

(* That is so as long as no lease was overrun and no failed read was taken *)
(* for an empty diary.                                                     *)
LeaseDiaryInv == IInv /\ (overran = {} /\ ~lost => Sound(store))

(* A lease that was overrun, and a diary that was lost, remain so. *)
LEMMA HistoryStays ==
  ASSUME [Next]_vars
  PROVE  (lost => lost') /\ (overran # {} => overran' # {})
<1>1. CASE UNCHANGED vars
  BY <1>1 DEF vars, diaryVars, rowVars
<1>2. ASSUME NEW c \in Call, Works(c)
      PROVE  (lost => lost') /\ overran' = overran
  <2>1. CASE \/ SkipLive(c) \/ NotifyExpired(c) \/ ClaimNew(c)
             \/ ReplaceExpired(c) \/ EndOfClaims(c) \/ SaveClaim(c) \/ FnReturns(c)
             \/ SaveResult(c) \/ SaveFailure(c) \/ BodyFault(c) \/ ReadFails(c)
             \/ ImportHistory(c) \/ ClearHistory(c) \/ Save(c) \/ Report(c)
    <3>1. lost' = lost
      BY <2>1
      DEF SkipLive, NotifyExpired, ClaimNew, ReplaceExpired, EndOfClaims, SaveClaim,
          FnReturns, SaveResult, SaveFailure, BodyFault, ReadFails, FnThrows,
          CallbackThrows, ReportThrows, StorageFails, Claim, shared, ImportHistory,
          ClearHistory, Save, Report
    <3> QED BY <1>2, <3>1 DEF Works, rowVars
  <2>2. CASE \/ ReadForClaim(c) \/ RecordResult(c) \/ RecordFailure(c)
             \/ WriteTaskResult(c) \/ FailTask(c) \/ DeleteTask(c)
             \/ PruneExpiredTasks(c) \/ MergeHistory(c)
    <3>1. \E st \in Readings : ReadDiary(st)
      <4> HIDE DEF Readings
      <4>1. CASE ReadForClaim(c) \/ RecordResult(c) \/ RecordFailure(c)
        BY <4>1, Zenon DEF ReadForClaim, RecordResult, RecordFailure
      <4>2. CASE WriteTaskResult(c) \/ FailTask(c) \/ DeleteTask(c)
        BY <4>2, Zenon DEF WriteTaskResult, FailTask, DeleteTask
      <4>3. CASE PruneExpiredTasks(c) \/ MergeHistory(c)
        BY <4>3, Zenon DEF PruneExpiredTasks, MergeHistory
      <4> QED BY <2>2, <4>1, <4>2, <4>3
    <3>2. lost => lost'
      BY <3>1, Zenon DEF ReadDiary
    <3> QED BY <1>2, <3>2 DEF Works, rowVars
  <2> QED BY <1>2, <2>1, <2>2 DEF Works, BodyStep
<1>3. ASSUME NEW c \in Call, Ask(c) \/ Try(c) \/ GiveBack(c) \/ GiveBackFails(c) \/ Dies(c)
      PROVE  lost' = lost /\ (overran # {} => overran' # {})
  BY <1>3
  DEF Ask, Try, GiveBack, GiveBackFails, Dies, Invoke, Locked, Finish, Crash, diaryVars, shared,
      Acquire, Attempt, Insert, InsertConflict, Inspect, Steal, StealFails, AttemptFails,
      Release, ReleaseFails, Die, Take, Miss, BackOff, Out
<1>4. ASSUME NEW c \in Call, Read(c), UNCHANGED rowVars
      PROVE  lost' = lost /\ overran' = overran
  BY <1>4 DEF Read, rowVars
<1>5. CASE (Sweep /\ UNCHANGED diaryVars) \/ Time
  BY <1>5 DEF Sweep, diaryVars, Time, Tick, LeaseTick
<1> QED BY <1>1, <1>2, <1>3, <1>4, <1>5 DEF Next

(* A step of a body takes no time. *)
LEMMA BodyTakesNoTime ==
  ASSUME NEW c \in Call, BodyStep(c) \/ BodyFault(c) \/ ReadFails(c)
  PROVE  now' = now
<1> USE DEF shared, stored
<1>1. CASE \/ ReadForClaim(c) \/ SkipLive(c) \/ NotifyExpired(c) \/ ClaimNew(c)
           \/ ReplaceExpired(c) \/ EndOfClaims(c) \/ SaveClaim(c)
           \/ FnReturns(c) \/ RecordResult(c) \/ SaveResult(c)
           \/ RecordFailure(c) \/ SaveFailure(c) \/ BodyFault(c) \/ ReadFails(c)
  BY <1>1
  DEF ReadForClaim, SkipLive, NotifyExpired, ClaimNew, ReplaceExpired, EndOfClaims,
      SaveClaim, FnReturns, RecordResult, SaveResult, RecordFailure, SaveFailure,
      BodyFault, ReadFails, FnThrows, CallbackThrows, ReportThrows, StorageFails, Claim
<1>2. CASE \/ WriteTaskResult(c) \/ FailTask(c) \/ DeleteTask(c)
           \/ PruneExpiredTasks(c) \/ ImportHistory(c) \/ MergeHistory(c)
           \/ ClearHistory(c) \/ Save(c) \/ Report(c)
  BY <1>2
  DEF WriteTaskResult, FailTask, DeleteTask, PruneExpiredTasks, ImportHistory,
      MergeHistory, ClearHistory, Save, Report, Change, Leave
<1> QED BY <1>1, <1>2 DEF BodyStep

(* To the lock every step is one of its own, or none. *)
LEMMA StepOfTheLock ==
  ASSUME [Next]_vars
  PROVE  [LeaseNext]_leaseVars
<1>1. CASE UNCHANGED vars
  BY <1>1 DEF vars, diaryVars, rowVars, leaseVars
<1>2. ASSUME NEW c \in Call, Works(c) PROVE UNCHANGED leaseVars
  BY <1>2, BodyTakesNoTime DEF Works, rowVars, leaseVars
<1>3. ASSUME NEW c \in Call, Read(c), UNCHANGED rowVars PROVE UNCHANGED leaseVars
  BY <1>3 DEF Read, rowVars, leaseVars
<1>4. ASSUME NEW c \in Call, Ask(c) \/ Try(c) \/ GiveBack(c) \/ GiveBackFails(c) \/ Dies(c)
      PROVE  LeaseNext
  BY <1>4 DEF Ask, Try, GiveBack, GiveBackFails, Dies, LeaseNext, Acquire
<1>5. CASE (Sweep /\ UNCHANGED diaryVars) \/ Time
  BY <1>5 DEF Time, LeaseNext
<1> QED BY <1>1, <1>2, <1>3, <1>4, <1>5 DEF Next

(* Who gets the row in time gets it from nobody who is inside. *)
LEMMA TakenFromNobody ==
  ASSUME IInv, overran = {}, NEW c \in Call, lk[c] # "inside", Acquire(c),
         lk'[c] = "inside"
  PROVE  \A b \in Call : ~Inside(b)
<1>1. lk \in [Call -> LockState]
  BY DEF IInv, LeaseTypeOK
<1>2. ~Attempt(c) /\ ~Inspect(c) /\ ~InsertConflict(c) /\ ~Miss(c)
  BY <1>1 DEF Attempt, Inspect, InsertConflict, Miss, BackOff, To
<1>3. Free \/ (lk[c] = "stealing" /\ StealTakes(c))
  BY <1>2 DEF Acquire, Insert, Steal
<1> QED BY <1>3, YoungIsKept, InsideIsYoung

(* A step of c that keeps the diary, and after which c is at work if and   *)
(* only if it is inside, keeps both.                                       *)
LEMMA CallStep ==
  ASSUME OnceAlone, NEW d, NEW e, Sound(d), NEW c \in Call, Keeps(c, d, e), store' = e,
         \A b \in Call \ {c} : lk'[b] = lk[b],
         AtWork(c)' <=> lk'[c] = "inside"
  PROVE  Sound(store)'
<1>1. DiaryInv(e)'
  BY StepKeeps DEF Sound
<1>2. \A b \in Call \ {c} : (AtWork(b)' <=> AtWork(b)) /\ (Inside(b)' <=> Inside(b))
  BY DEF Keeps, Apart, AtWork, Inside
<1> QED BY <1>1, <1>2 DEF Sound, Inside

(* The lock steps of c leave the places of the others alone. *)
LEMMA LockStepsApart ==
  ASSUME LeaseTypeOK, NEW c \in Call,
         \/ Acquire(c) \/ StealFails(c) \/ AttemptFails(c)
         \/ Release(c) \/ ReleaseFails(c) \/ Die(c)
  PROVE  (\A b \in Call \ {c} : lk'[b] = lk[b]) /\ now' = now
<1>1. PICK l \in LockState : To(c, l) /\ now' = now
  BY DEF Acquire, Attempt, Insert, InsertConflict, Inspect, Steal, StealFails, AttemptFails,
         Release, ReleaseFails, Die, Take, Miss, BackOff, Out, LockState
<1> QED BY <1>1 DEF To, LeaseTypeOK

(* An attempt to get the lock. *)
LEMMA TryKeeps ==
  ASSUME OnceAlone, IInv, overran = {}, NEW d, store = d, Sound(d), NEW c \in Call, Try(c)
  PROVE  Sound(store)'
<1>1. /\ pc[c] = "waiting" /\ lk[c] # "inside"
      /\ Acquire(c) \/ StealFails(c) \/ AttemptFails(c)
      /\ DiaryInv(d) /\ TypeInv
  BY DEF Try, Sound, AtWork, Inside, Body, Steps, DiaryInv
<1>2. (\A b \in Call \ {c} : lk'[b] = lk[b]) /\ now' = now
  BY <1>1, LockStepsApart DEF IInv
<1>3. CASE lk'[c] = "inside"
  <2>1. ~AttemptFails(c) /\ ~StealFails(c)
    BY <1>3 DEF AttemptFails, StealFails, BackOff, To, IInv, LeaseTypeOK
  <2>2. \A b \in Call : ~AtWork(b)
    BY <1>1, <1>3, <2>1, TakenFromNobody DEF Sound
  <2>3. Locked(c)
    BY <1>3 DEF Try
  <2>4. Keeps(c, d, d) /\ store' = d
    BY <1>1, <2>2, <2>3, LockedKeeps
  <2>5. AtWork(c)'
    BY <1>1, <2>3 DEF Locked, Goto, AtWork, Body, TypeInv
  <2> QED BY <1>2, <1>3, <2>4, <2>5, CallStep
<1>4. CASE lk'[c] \in {"timedOut", "errored"}
  <2>1. Ends(c)
    BY <1>2, <1>4 DEF Try, Ends, Goto
  <2>2. Keeps(c, d, d) /\ store' = d
    BY <1>1, <2>1, EndKeeps
  <2>3. ~AtWork(c)'
    BY <1>1, <2>1 DEF Ends, AtWork, Body, Steps, TypeInv
  <2> QED BY <1>2, <1>4, <2>2, <2>3, CallStep
<1>5. CASE lk'[c] \notin {"inside", "timedOut", "errored"}
  <2>1. UNCHANGED diaryVars
    BY <1>5 DEF Try
  <2>2. DiaryInv(d)'
    BY <1>1, <2>1, IdleKeeps DEF diaryVars, TypeInv
  <2>3. \A b \in Call : AtWork(b)' <=> AtWork(b)
    BY <2>1 DEF diaryVars, AtWork
  <2>4. \A b \in Call : Inside(b)' <=> Inside(b)
    BY <1>1, <1>2, <1>5 DEF Inside
  <2>5. store' = d
    BY <2>1 DEF diaryVars
  <2> QED BY <2>2, <2>3, <2>4, <2>5 DEF Sound
<1> QED BY <1>3, <1>4, <1>5

(* The other steps of a call. *)
LEMMA CallKeeps ==
  ASSUME OnceAlone, IInv, ~lost', NEW d, store = d, Sound(d), NEW c \in Call,
         \/ Ask(c) \/ Works(c) \/ GiveBack(c) \/ GiveBackFails(c) \/ Dies(c)
         \/ Read(c) /\ UNCHANGED rowVars
  PROVE  Sound(store)'
<1>0. DiaryInv(d) /\ TypeInv /\ lk \in [Call -> LockState] /\ LeaseTypeOK
  BY DEF Sound, DiaryInv, IInv, LeaseTypeOK
<1>1. CASE Ask(c)
  <2>1. Keeps(c, d, d) /\ store' = d
    BY <1>0, <1>1, InvokeKeeps DEF Ask
  <2>2. ~AtWork(c)' /\ lk'[c] = "trying" /\ \A b \in Call \ {c} : lk'[b] = lk[b]
    BY <1>0, <1>1 DEF Ask, Invoke, Goto, AtWork, Body, Steps, TypeInv, Attempt, To
  <2> QED BY <2>1, <2>2, CallStep
<1>2. CASE Works(c)
  <2>1. (BodyStep(c) \/ BodyFault(c) \/ ReadFails(c)) /\ lk' = lk
    BY <1>2 DEF Works, rowVars
  <2>2. PICK e : e = store'
    OBVIOUS
  <2>3. ReadsTrue
    BY DEF ReadsTrue
  <2>4. Keeps(c, d, e)
    BY <1>0, <2>1, <2>2, <2>3, BodyKept
  <2>5. AtWork(c) /\ AtWork(c)'
    <3>1. pc \in [Call -> Where]
      BY <1>0 DEF DiaryInv, TypeInv
    <3> QED BY <2>1, <3>1, StaysAtWork
  <2>6. lk'[c] = "inside"
    BY <2>1, <2>5 DEF Sound, Inside
  <2> QED BY <2>1, <2>2, <2>4, <2>5, <2>6, CallStep
<1>3. CASE GiveBack(c) \/ GiveBackFails(c)
  <2>1. (\A b \in Call \ {c} : lk'[b] = lk[b]) /\ now' = now
    BY <1>0, <1>3, LockStepsApart DEF GiveBack, GiveBackFails
  <2>2. Ends(c)
    <3>1. CASE GiveBack(c)
      BY <2>1, <3>1 DEF GiveBack, Finish, Ends, Goto, shared, stored
    <3>2. CASE GiveBackFails(c)
      BY <2>1, <3>2 DEF GiveBackFails, Ends, Goto
    <3> QED BY <1>3, <3>1, <3>2
  <2>3. Keeps(c, d, d) /\ store' = d
    BY <1>0, <2>2, EndKeeps
  <2>4. ~AtWork(c)' /\ lk'[c] = "done"
    BY <1>0, <1>3, <2>2 DEF Ends, AtWork, Body, Steps, TypeInv, GiveBack, GiveBackFails,
                            Release, ReleaseFails, Out, To
  <2> QED BY <2>1, <2>3, <2>4, CallStep
<1>4. CASE Dies(c)
  <2>1. Keeps(c, d, d) /\ store' = d
    BY <1>0, <1>4, CrashKeeps DEF Dies
  <2>2. \A b \in Call \ {c} : lk'[b] = lk[b]
    BY <1>0, <1>4, LockStepsApart DEF Dies
  <2>3. ~AtWork(c)' /\ lk'[c] = "crashed"
    BY <1>0, <1>4 DEF Dies, Crash, Goto, AtWork, Body, Steps, TypeInv, Die, To
  <2> QED BY <2>1, <2>2, <2>3, CallStep
<1>5. CASE Read(c) /\ UNCHANGED rowVars
  <2>1. Keeps(c, d, d) /\ store' = d /\ lk' = lk
    BY <1>0, <1>5, ReadKeeps DEF rowVars
  <2>2. ~AtWork(c) /\ ~AtWork(c)'
    BY <1>0, <1>5 DEF Read, Goto, AtWork, Body, Steps, TypeInv
  <2>3. lk'[c] # "inside"
    BY <2>1, <2>2 DEF Sound, Inside
  <2> QED BY <2>1, <2>2, <2>3, CallStep
<1> QED BY <1>1, <1>2, <1>3, <1>4, <1>5

(* The steps of nobody. *)
LEMMA WorldKeeps ==
  ASSUME NEW d, store = d, Sound(d),
         (Sweep /\ UNCHANGED diaryVars) \/ Time \/ UNCHANGED vars
  PROVE  Sound(store)'
<1>1. DiaryInv(d)' /\ store' = d
  <2>1. CASE Time
    BY <2>1, TickKeeps DEF Time, Sound
  <2>2. CASE ~Time
    BY <2>2, IdleKeeps DEF diaryVars, vars, Sound, DiaryInv, TypeInv
  <2> QED BY <2>1, <2>2
<1>2. pc' = pc /\ lk' = lk
  BY DEF Time, Tick, LeaseTick, Sweep, vars, diaryVars, rowVars
<1>3. \A b \in Call : (AtWork(b)' <=> AtWork(b)) /\ (Inside(b)' <=> Inside(b))
  BY <1>2 DEF AtWork, Inside
<1> QED BY <1>1, <1>3 DEF Sound

(* Every step keeps the invariant. *)
LEMMA NextSound ==
  ASSUME OnceAlone, LeaseDiaryInv, [Next]_vars
  PROVE  LeaseDiaryInv'
<1>1. IInv'
  BY StepOfTheLock, NextInv DEF LeaseDiaryInv
<1>2. ASSUME overran' = {}, ~lost' PROVE Sound(store)'
  <2>1. PICK d : d = store
    OBVIOUS
  <2>2. overran = {} /\ Sound(d) /\ IInv
    BY <1>2, <2>1, HistoryStays DEF LeaseDiaryInv
  <2> QED BY <1>2, <2>1, <2>2, TryKeeps, CallKeeps, WorldKeeps DEF Next
<1> QED BY <1>1, <1>2 DEF LeaseDiaryInv

(* On Redis, Postgres, SQLite and MongoDB, whatever crashes, fails or gets *)
(* lost: no task runs twice and what a call that ended well has stored is  *)
(* still there, for any number of calls, tasks and titles, if every call   *)
(* is done before its lease is over and no failed read was taken for an    *)
(* empty diary (diary.ts:179-258 under redis.ts:52-91 and its siblings).   *)
THEOREM SoundUnlessOverrunTheorem ==
  ASSUME OnceAlone
  PROVE  SafeSpec => []SoundUnlessOverrun
<1>1. Init => LeaseDiaryInv
  <2> SUFFICES ASSUME Init PROVE LeaseDiaryInv
    OBVIOUS
  <2>1. PICK d : d = store
    OBVIOUS
  <2>2. DiaryInv(d)
    BY <2>1, InitKeeps DEF Init
  <2>3. \A c \in Call : ~AtWork(c) /\ ~Inside(c)
    BY DEF Init, DiaryInit, LeaseInit, AtWork, Inside, Body, Steps
  <2>4. IInv
    BY InitInv DEF Init
  <2> QED BY <2>1, <2>2, <2>3, <2>4 DEF LeaseDiaryInv, Sound
<1>2. LeaseDiaryInv /\ [Next]_vars => LeaseDiaryInv'
  BY NextSound
<1>3. LeaseDiaryInv => SoundUnlessOverrun
  <2> SUFFICES ASSUME LeaseDiaryInv, overran = {}, ~lost
               PROVE  AtMostOnce /\ CompletedIsStored
    BY DEF SoundUnlessOverrun
  <2>1. PICK d : d = store
    OBVIOUS
  <2>2. DiaryInv(d)
    BY <2>1 DEF LeaseDiaryInv, Sound
  <2> QED BY <2>1, <2>2, DiaryIsSound
<1> QED BY <1>1, <1>2, <1>3, PTL DEF SafeSpec
=============================================================================
