--------------------------- MODULE FileDiaryProof ---------------------------
(***************************************************************************)
(* On LocalFileStorage two bodies never run at once, for any number of     *)
(* callers, operations and records, whoever dies in between; and           *)
(* executeOnce runs each task at most once unless a write of the file was  *)
(* cut short.                                                              *)
(*                                                                         *)
(* The argument: who is in a body holds the lock directory, which is taken *)
(* over only from the dead.  What has to be shown of the twenty-odd steps  *)
(* of a body is that they lead nowhere but further into it, or out.  The   *)
(* diary is then the one that module DiaryProof reasons about, though not  *)
(* always in the file: while a call writes, the file is empty, and the     *)
(* diary is what was in it when the call opened it.                        *)
(***************************************************************************)
EXTENDS FileDiary, DiaryProof

HolderInv ==
  /\ pc \in [Call -> Where]
  /\ \A c \in Call : pc[c] \in Body \cup {"leaving"} => holder = c

(* Nobody is in a body at first. *)
LEMMA InitHolder == Init => HolderInv
  BY DEF Init, DiaryInit, HolderInv, Where, Body, Steps

(* A step in a body of call c. *)
Within(c) == pc[c] \in Body /\ \E l \in Body \cup {"leaving"} : Goto(c, l)

(* A body that settles stays within until the lock is given back. *)
LEMMA SettleWithin ==
  ASSUME NEW c \in Call, pc[c] \in Body, NEW how, NEW value, Settle(c, how, value)
  PROVE  Within(c)
  BY DEF Settle, Within

(* So does one that prepares a write, or has none to make. *)
LEMMA WriteWithin ==
  ASSUME NEW c \in Call, pc[c] \in Body, NEW st, NEW how, Change(c, st) \/ Leave(c, how)
  PROVE  Within(c)
  BY SettleWithin DEF Change, Leave, Within, Body, Steps

(* A step that may stay where it is. *)
LEMMA StayWithin ==
  ASSUME HolderInv, NEW c \in Call, pc[c] \in Body, UNCHANGED pc
  PROVE  Within(c)
<1>1. pc' = [pc EXCEPT ![c] = pc[c]]
  BY DEF HolderInv
<1> QED
  BY <1>1 DEF Within, Goto

(* The steps of a claim. *)
LEMMA ClaimsWithin ==
  ASSUME HolderInv, NEW c \in Call,
         \/ ReadForClaim(c) \/ SkipLive(c) \/ NotifyExpired(c) \/ ClaimNew(c)
         \/ ReplaceExpired(c) \/ EndOfClaims(c) \/ SaveClaim(c)
  PROVE  Within(c)
<1> USE DEF Body, Steps
<1>1. CASE ReadForClaim(c) \/ NotifyExpired(c)
  BY <1>1 DEF ReadForClaim, NotifyExpired, Within
<1>2. CASE SkipLive(c)
  <2>1. pc[c] \in Body /\ (UNCHANGED pc \/ \E value : Settle(c, "returned", value))
    BY <1>2 DEF SkipLive
  <2> QED
    BY <2>1, StayWithin, SettleWithin
<1>3. CASE ClaimNew(c) \/ ReplaceExpired(c)
  BY <1>3 DEF ClaimNew, ReplaceExpired, Claim, Within
<1>4. CASE EndOfClaims(c)
  BY <1>4, SettleWithin DEF EndOfClaims, Within
<1>5. CASE SaveClaim(c)
  BY <1>5, SettleWithin DEF SaveClaim, Within
<1> QED
  BY <1>1, <1>2, <1>3, <1>4, <1>5

(* The steps of an execution after its claim. *)
LEMMA ExecutionWithin ==
  ASSUME NEW c \in Call,
         \/ FnReturns(c) \/ RecordResult(c) \/ SaveResult(c)
         \/ RecordFailure(c) \/ SaveFailure(c)
  PROVE  Within(c)
<1> USE DEF Body, Steps
<1>1. CASE FnReturns(c)
  BY <1>1 DEF FnReturns, Within
<1>2. CASE RecordResult(c)
  BY <1>2, SettleWithin DEF RecordResult, Within
<1>3. CASE RecordFailure(c)
  BY <1>3, SettleWithin DEF RecordFailure, Within
<1>4. CASE SaveResult(c) \/ SaveFailure(c)
  BY <1>4, SettleWithin DEF SaveResult, SaveFailure
<1> QED
  BY <1>1, <1>2, <1>3, <1>4

(* The steps of the operations that change and write. *)
LEMMA WritesWithin ==
  ASSUME HolderInv, NEW c \in Call,
         \/ WriteTaskResult(c) \/ FailTask(c) \/ DeleteTask(c)
         \/ PruneExpiredTasks(c) \/ ImportHistory(c) \/ MergeHistory(c)
         \/ ClearHistory(c) \/ Save(c) \/ Report(c)
  PROVE  Within(c)
<1> USE DEF Body, Steps
<1>1. CASE WriteTaskResult(c)
  BY <1>1, WriteWithin DEF WriteTaskResult, Starts
<1>2. CASE FailTask(c)
  BY <1>2, WriteWithin DEF FailTask, Starts
<1>3. CASE DeleteTask(c)
  BY <1>3, WriteWithin DEF DeleteTask, Starts
<1>4. CASE PruneExpiredTasks(c)
  BY <1>4, WriteWithin DEF PruneExpiredTasks, Starts, Within
<1>5. CASE ImportHistory(c)
  BY <1>5, WriteWithin DEF ImportHistory, Starts
<1>6. CASE MergeHistory(c)
  BY <1>6, WriteWithin DEF MergeHistory, Starts
<1>7. CASE ClearHistory(c)
  BY <1>7, WriteWithin DEF ClearHistory, Starts
<1>8. CASE Save(c)
  BY <1>8, SettleWithin DEF Save, Within
<1>9. CASE Report(c)
  <2>1. pc[c] \in Body /\ (UNCHANGED pc \/ Settle(c, "returned", Undefined))
    BY <1>9 DEF Report
  <2> QED
    BY <2>1, StayWithin, SettleWithin
<1> QED
  BY <1>1, <1>2, <1>3, <1>4, <1>5, <1>6, <1>7, <1>8, <1>9

(* All steps of a body. *)
LEMMA BodyWithin ==
  ASSUME HolderInv, NEW c \in Call, BodyStep(c) \/ BodyFault(c)
  PROVE  Within(c)
<1>1. CASE BodyStep(c)
  BY <1>1, ClaimsWithin, ExecutionWithin, WritesWithin DEF BodyStep
<1>2. CASE FnThrows(c)
  BY <1>2 DEF FnThrows, Within, Body, Steps
<1>3. CASE CallbackThrows(c) \/ ReportThrows(c)
  BY <1>3, SettleWithin DEF CallbackThrows, ReportThrows, Body, Steps
<1>4. CASE StorageFails(c)
  BY <1>4, SettleWithin DEF StorageFails, Saving, Body, Steps
<1> QED
  BY <1>1, <1>2, <1>3, <1>4 DEF BodyFault

-----------------------------------------------------------------------------
(* A step within its body keeps the invariant. *)
LEMMA WithinStep ==
  ASSUME HolderInv, NEW c \in Call, Within(c), UNCHANGED holder
  PROVE  HolderInv'
<1>1. holder = c /\ \A d \in Call : d # c => pc'[d] = pc[d]
  BY DEF HolderInv, Within, Goto
<1>2. pc' \in [Call -> Where]
  BY DEF HolderInv, Within, Goto, Where
<1> QED
  BY <1>1, <1>2 DEF HolderInv

(* A step that leads out of the bodies, or happens there. *)
LEMMA OutsideStep ==
  ASSUME HolderInv, NEW c \in Call, NEW l \in Where \ (Body \cup {"leaving"}),
         Goto(c, l), UNCHANGED holder
  PROVE  HolderInv'
<1>1. \A d \in Call : pc'[d] = (IF d = c THEN l ELSE pc[d])
  BY DEF HolderInv, Goto
<1>2. pc' \in [Call -> Where]
  BY DEF HolderInv, Goto
<1> QED
  BY <1>1, <1>2 DEF HolderInv

(* So does every step of the specification. *)
LEMMA NextHolder == HolderInv /\ [Next]_vars => HolderInv'
<1> SUFFICES ASSUME HolderInv, [Next]_vars PROVE HolderInv'
  OBVIOUS
<1>1. ASSUME NEW c \in Call, Ask(c) PROVE HolderInv'
  BY <1>1, OutsideStep DEF Ask, Invoke, Where, Body, Steps
<1>2. ASSUME NEW c \in Call, CreateOpen(c) \/ CreateWrite(c) \/ SetOpen(c) PROVE HolderInv'
  BY <1>2 DEF CreateOpen, CreateWrite, SetOpen, HolderInv
<1>3. ASSUME NEW c \in Call, Granted(c) PROVE HolderInv'
  <2>1. \A d \in Call : pc[d] \notin Body \cup {"leaving"}
    BY <1>3, CreatedAssumption DEF Granted, LockIsFree, HolderInv, Body, Steps
  <2>2. holder' = c /\ pc' = [pc EXCEPT ![c] = "locked"]
    BY <1>3 DEF Granted, Locked, Goto
  <2>3. pc' \in [Call -> Where] /\ \A d \in Call : d # c => pc'[d] = pc[d]
    BY <2>2 DEF HolderInv, Where, Body
  <2> QED
    BY <2>1, <2>2, <2>3 DEF HolderInv
<1>4. ASSUME NEW c \in Call, GiveUp(c) PROVE HolderInv'
  BY <1>4, OutsideStep DEF GiveUp, Where, Body, Steps
<1>5. ASSUME NEW c \in Call, SetRefused(c) \/ SetWrite(c) \/ Inside(c) PROVE HolderInv'
  BY <1>5, BodyWithin, WithinStep DEF SetRefused, SetWrite, Inside, fileVars
<1>6. ASSUME NEW c \in Call, GiveBack(c) PROVE HolderInv'
  <2>1. pc[c] = "leaving" /\ pc' = [pc EXCEPT ![c] = "done"]
    BY <1>6 DEF GiveBack, Finish, Goto
  <2>2. \A d \in Call : d # c => pc[d] \notin Body \cup {"leaving"} /\ pc'[d] = pc[d]
    BY <2>1 DEF HolderInv
  <2>3. pc' \in [Call -> Where] /\ pc'[c] = "done"
    BY <2>1 DEF HolderInv, Where
  <2> QED
    BY <2>2, <2>3 DEF HolderInv, Body, Steps
<1>7. ASSUME NEW c \in Call, Dies(c) PROVE HolderInv'
  BY <1>7, OutsideStep DEF Dies, Crash, Where, Body, Steps
<1>8. ASSUME NEW c \in Call, Read(c), UNCHANGED fileVars PROVE HolderInv'
  <2>1. Goto(c, "done") /\ UNCHANGED holder
    BY <1>8 DEF Read, fileVars
  <2> QED
    BY <2>1, OutsideStep DEF Where, Body, Steps
<1>9. CASE UNCHANGED vars
  BY <1>9 DEF vars, diaryVars, fileVars, HolderInv
<1> QED
  BY <1>1, <1>2, <1>3, <1>4, <1>5, <1>6, <1>7, <1>8, <1>9 DEF Next, Proceed

-----------------------------------------------------------------------------
(* Two operations are never at work on one diary file at the same time,    *)
(* stale locks of dead processes included (storage.ts:67-83).              *)
THEOREM OneBodyTheorem == SafeSpec => []OneBody
<1>1. HolderInv => OneBody
  BY DEF HolderInv, OneBody
<1> QED
  BY <1>1, InitHolder, NextHolder, PTL DEF SafeSpec

-----------------------------------------------------------------------------
(* executeOnce *)

Writing(c) == c \in opened /\ pc[c] \in Saving

FlStage == {"idle", "creating", "locking", "inside", "done"}

(* Who has the file open writes it, or creates it before it has the lock. *)
OpenedInv ==
  /\ fl \in [Call -> FlStage] /\ opened \subseteq Call
  /\ \A c \in opened : pc[c] \in Saving \/ (pc[c] = "waiting" /\ fl[c] = "creating")

(* What the file holds of the diary d. *)
InFile(d) ==
  IF \E c \in Call : Writing(c) THEN store = EmptyState ELSE store = d

FileInv ==
  /\ HolderInv /\ OpenedInv
  /\ ~wiped => \E d \in AgentState : DiaryInv(d) /\ InFile(d)

(* Nobody has the file open at first. *)
LEMMA InitFile ==
  ASSUME Init
  PROVE  FileInv
<1>1. PICK d : d = store
  OBVIOUS
<1>2. DiaryInv(d)
  BY <1>1, InitKeeps DEF Init
<1>3. d \in AgentState /\ InFile(d)
  BY <1>1, <1>2 DEF Init, InFile, Writing, DiaryInv
<1>4. OpenedInv
  BY DEF Init, OpenedInv, FlStage
<1> QED BY <1>2, <1>3, <1>4, InitHolder DEF FileInv

(* Once the diary has been wiped it stays so. *)
LEMMA WipedStays ==
  ASSUME [Next]_vars, wiped
  PROVE  wiped'
BY DEF Next, Proceed, Ask, CreateOpen, CreateWrite, Granted, GiveUp, SetOpen, SetRefused,
       SetWrite, Inside, GiveBack, Dies, fileVars, vars

(* Who is at work is so alone. *)
LEMMA WorksAlone ==
  ASSUME HolderInv, NEW c \in Call, AtWork(c)
  PROVE  \A b \in Call \ {c} : ~AtWork(b)
BY DEF HolderInv, AtWork

(* Who saves is at work. *)
LEMMA SaversWork ==
  ASSUME NEW c \in Call, pc[c] \in Saving
  PROVE  AtWork(c)
BY DEF Saving, AtWork, Body, Steps

(* The same calls have the file open to write it. *)
SameWriters == \A b \in Call : Writing(b)' <=> Writing(b)

(* The file and the diary stay as they are. *)
LEMMA FileStays ==
  ASSUME NEW d \in AgentState, InFile(d), DiaryInv(d)', store' = store, SameWriters
  PROVE  \E e \in AgentState : DiaryInv(e)' /\ InFile(e)'
<1>1. InFile(d)'
  BY DEF InFile, SameWriters
<1> QED BY <1>1

(* A step of a body that is no write. *)
LEMMA InsideKeeps ==
  ASSUME OnceAlone, "read" \notin Fault, FileInv, NEW d \in AgentState, DiaryInv(d),
         InFile(d), NEW c \in Call, Inside(c)
  PROVE  \E e \in AgentState : DiaryInv(e)' /\ InFile(e)'
<1>1. pc[c] \notin Saving /\ (BodyStep(c) \/ BodyFault(c)) /\ opened' = opened
  BY DEF Inside, fileVars
<1>2. AtWork(c)
  BY <1>1, BodyStepsAre
<1>3. c \notin opened
  BY <1>1, <1>2 DEF FileInv, OpenedInv, AtWork, Body, Steps
<1>4. \A b \in Call : ~Writing(b)
  BY <1>1, <1>2, WorksAlone, SaversWork DEF FileInv, Writing
<1>5. store = d
  BY <1>4 DEF InFile
<1>6. ReadsTrue
  BY DEF ReadsTrue
<1>7. ~(SaveClaim(c) \/ SaveResult(c) \/ SaveFailure(c))
  BY <1>1 DEF SaveClaim, SaveResult, SaveFailure, Saving
<1>8. Keeps(c, d, d) /\ store' = d
  BY <1>1, <1>5, <1>6, <1>7, QuietKept
<1>9. DiaryInv(d)'
  BY <1>8, StepKeeps
<1>10. \A b \in Call : ~Writing(b)'
  BY <1>1, <1>3, <1>4, <1>8 DEF Writing, Keeps, Apart
<1> QED BY <1>8, <1>9, <1>10 DEF InFile

(* The write of the opened file: the diary becomes the copy. *)
LEMMA SetWriteKeeps ==
  ASSUME OnceAlone, FileInv, NEW d \in AgentState, DiaryInv(d),
         NEW c \in Call, SetWrite(c), ~wiped'
  PROVE  \E e \in AgentState : DiaryInv(e)' /\ InFile(e)'
<1>1. pc[c] \in Saving /\ BodyStep(c) /\ opened' = opened \ {c}
  BY DEF SetWrite
<1>2. AtWork(c)
  BY <1>1, SaversWork
<1>3. SaveClaim(c) \/ SaveResult(c) \/ SaveFailure(c)
  <2>1. pc[c] # "save"
    BY DEF DiaryInv, StageInv
  <2> QED
    BY <1>1, <2>1, BodyStepsAre
    DEF Saving, ReadForClaim, SkipLive, ClaimNew, EndOfClaims, FnReturns, FnThrows,
        RecordResult, RecordFailure, StorageFails, ReadFails, BodyStep,
        NotifyExpired, ReplaceExpired, WriteTaskResult, FailTask, DeleteTask,
        PruneExpiredTasks, ImportHistory, MergeHistory, ClearHistory, Starts, Save, Report
<1>4. PICK e : e = local[c]
  OBVIOUS
<1>5. Keeps(c, d, e) /\ store' = e
  BY <1>3, <1>4, WriteKept
<1>6. DiaryInv(e)' /\ e \in AgentState
  BY <1>5, StepKeeps DEF Keeps
<1>7. \A b \in Call : ~Writing(b)'
  BY <1>1, <1>2, <1>5, WorksAlone, SaversWork DEF FileInv, Writing, Keeps, Apart
<1> QED BY <1>5, <1>6, <1>7 DEF InFile

(* The steps that do not touch the file, and those that may wipe it, leave *)
(* the diary as it is.                                                     *)
LEMMA AsideKeeps ==
  ASSUME OnceAlone, FileInv, NEW d \in AgentState, DiaryInv(d), InFile(d), ~wiped',
         NEW c \in Call,
         \/ Ask(c) \/ CreateOpen(c) \/ CreateWrite(c) \/ Granted(c) \/ GiveUp(c)
         \/ SetOpen(c) \/ SetRefused(c) \/ GiveBack(c) \/ Dies(c)
         \/ Read(c) /\ UNCHANGED fileVars
  PROVE  \E e \in AgentState : DiaryInv(e)' /\ InFile(e)'
<1> USE DEF FileInv
<1>0. /\ now' = now /\ now \in 0 .. MaxTime => now' \in 0 .. MaxTime
      /\ pc \in [Call -> Where]
  BY DEF DiaryInv, TypeInv
<1>1. CASE Ask(c)
  <2>1. DiaryInv(d)' /\ store' = store /\ opened' = opened
    BY <1>1, InvokeKeeps, StepKeeps DEF Ask
  <2>2. SameWriters
    BY <1>0, <1>1, <2>1 DEF SameWriters, Writing, Ask, Invoke, Goto, Saving
  <2> QED BY <2>1, <2>2, FileStays
<1>2. CASE CreateOpen(c) \/ CreateWrite(c)
  <2>1. /\ pc[c] = "waiting" /\ store' = EmptyState /\ store = EmptyState
        /\ UNCHANGED <<now, pc, op, local, at, todo, claimed, outcome, result>>
        /\ opened' \in {opened \cup {c}, opened \ {c}}
    BY <1>2 DEF CreateOpen, CreateWrite, answer
  <2>2. DiaryInv(d)'
    BY <2>1, IdleKeeps DEF DiaryInv, TypeInv
  <2>3. SameWriters
    BY <2>1 DEF SameWriters, Writing, Saving
  <2> QED BY <2>1, <2>2, <2>3, FileStays
<1>3. CASE Granted(c)
  <2>1. \A b \in Call : ~AtWork(b)
    BY <1>3, CreatedAssumption DEF Granted, LockIsFree, HolderInv, Body, Steps, AtWork
  <2>2. DiaryInv(d)' /\ store' = store /\ opened' = opened
    BY <1>3, <2>1, LockedKeeps, StepKeeps DEF Granted
  <2>3. SameWriters
    BY <1>0, <1>3, <2>2 DEF SameWriters, Writing, Granted, Locked, Goto, Saving
  <2> QED BY <2>2, <2>3, FileStays
<1>4. CASE GiveUp(c)
  <2>1. Ends(c) /\ opened' = opened
    BY <1>4 DEF GiveUp, Ends, Goto, shared, stored
  <2>2. DiaryInv(d)' /\ store' = store
    BY <2>1, EndKeeps, StepKeeps
  <2>3. SameWriters
    BY <1>0, <2>1 DEF SameWriters, Writing, Ends, Saving
  <2> QED BY <2>2, <2>3, FileStays
<1>5. CASE SetOpen(c)
  <2>1. /\ UNCHANGED <<now, pc, op, local, at, todo, claimed, outcome, result>>
        /\ store' = EmptyState /\ opened' = opened \cup {c} /\ pc[c] \in Saving
    BY <1>5 DEF SetOpen, answer
  <2>2. DiaryInv(d)'
    BY <2>1, IdleKeeps DEF DiaryInv, TypeInv
  <2>3. InFile(d)'
    BY <2>1 DEF InFile, Writing
  <2> QED BY <2>2, <2>3
<1>6. CASE SetRefused(c)
  <2>1. pc[c] \in Saving /\ c \notin opened /\ BodyFault(c) /\ opened' = opened
    BY <1>6 DEF SetRefused, fileVars
  <2>2. StorageFails(c)
    BY <2>1 DEF BodyFault, FnThrows, CallbackThrows, ReportThrows, Saving
  <2>3. Keeps(c, d, d) /\ store' = store
    BY <2>2, StorageFaultKeeps DEF StorageFails, shared, stored
  <2>4. DiaryInv(d)'
    BY <2>3, StepKeeps
  <2>5. SameWriters
    BY <2>1, <2>3 DEF SameWriters, Writing, Keeps, Apart
  <2> QED BY <2>3, <2>4, <2>5, FileStays
<1>7. CASE GiveBack(c)
  <2>1. Ends(c) /\ opened' = opened
    BY <1>7 DEF GiveBack, Finish, Ends, Goto, shared, stored
  <2>2. DiaryInv(d)' /\ store' = store
    BY <2>1, EndKeeps, StepKeeps
  <2>3. SameWriters
    BY <1>0, <2>1 DEF SameWriters, Writing, Ends, Saving
  <2> QED BY <2>2, <2>3, FileStays
<1>8. CASE Dies(c)
  <2>1. DiaryInv(d)' /\ store' = store /\ opened' = opened \ {c} /\ ~Writing(c)
    BY <1>8, CrashKeeps, StepKeeps DEF Dies, Writing
  <2>2. SameWriters
    BY <1>0, <1>8, <2>1 DEF SameWriters, Writing, Dies, Crash, Goto
  <2> QED BY <2>1, <2>2, FileStays
<1>9. CASE Read(c) /\ UNCHANGED fileVars
  <2>1. store \in {d, EmptyState}
    BY DEF InFile
  <2>2. DiaryInv(d)' /\ store' = store /\ opened' = opened
    BY <1>9, <2>1, ReadKeeps, StepKeeps DEF fileVars
  <2>3. SameWriters
    BY <1>0, <1>9, <2>2 DEF SameWriters, Writing, Read, Goto, Saving
  <2> QED BY <2>2, <2>3, FileStays
<1> QED BY <1>1, <1>2, <1>3, <1>4, <1>5, <1>6, <1>7, <1>8, <1>9

(* Who has the file open has good reason to, after every step. *)
LEMMA NextOpened ==
  ASSUME HolderInv, OpenedInv, [Next]_vars
  PROVE  OpenedInv'
<1> USE DEF OpenedInv
<1>0. pc \in [Call -> Where]
  BY DEF HolderInv
<1>1. CASE UNCHANGED vars
  BY <1>1 DEF vars, diaryVars, fileVars
<1>2. ASSUME NEW c \in Call, Ask(c) \/ GiveUp(c) \/ GiveBack(c) \/ Granted(c)
                              \/ (Read(c) /\ UNCHANGED fileVars)
      PROVE  OpenedInv'
  <2>1. PICK l \in Where : Goto(c, l)
    BY <1>2 DEF Ask, Invoke, GiveUp, GiveBack, Finish, Granted, Locked, Read, Where, Body
  <2>2. opened' = opened /\ c \notin opened
    BY <1>2 DEF Ask, Invoke, GiveUp, GiveBack, Finish, Granted, Locked, Read, fileVars,
                Saving
  <2>3. UNCHANGED fl \/ \E k \in FlStage : Fl(c, k)
    BY <1>2 DEF FlStage, Ask, GiveUp, GiveBack, Granted, fileVars
  <2> QED BY <1>0, <2>1, <2>2, <2>3 DEF Goto, Fl
<1>3. ASSUME NEW c \in Call, CreateOpen(c) \/ SetOpen(c) PROVE OpenedInv'
  BY <1>3 DEF CreateOpen, SetOpen
<1>4. ASSUME NEW c \in Call, CreateWrite(c) \/ Dies(c) PROVE OpenedInv'
  <2>1. opened' = opened \ {c}
    BY <1>4 DEF CreateWrite, Dies
  <2>2. Goto(c, "crashed") \/ UNCHANGED pc
    BY <1>4 DEF CreateWrite, Dies, Crash
  <2>3. Fl(c, "locking") \/ UNCHANGED fl
    BY <1>4 DEF CreateWrite, Dies
  <2> QED BY <1>0, <2>1, <2>2, <2>3 DEF Goto, Fl, FlStage
<1>5. ASSUME NEW c \in Call, SetRefused(c) \/ SetWrite(c) \/ Inside(c) PROVE OpenedInv'
  <2>1. Within(c) /\ fl' = fl
    BY <1>5, BodyWithin DEF SetRefused, SetWrite, Inside, fileVars
  <2>2. opened' \subseteq opened \ {c}
    BY <1>5, <2>1 DEF SetRefused, SetWrite, Inside, fileVars, Within, Body, Steps
  <2> QED BY <1>0, <2>1, <2>2 DEF Within, Goto
<1> QED BY <1>1, <1>2, <1>3, <1>4, <1>5 DEF Next, Proceed

(* Every step keeps the invariant. *)
LEMMA NextFile ==
  ASSUME OnceAlone, "read" \notin Fault, FileInv, [Next]_vars
  PROVE  FileInv'
<1>1. HolderInv' /\ OpenedInv'
  BY NextHolder, NextOpened DEF FileInv
<1>2. ASSUME ~wiped' PROVE \E e \in AgentState : DiaryInv(e)' /\ InFile(e)'
  <2>1. PICK d \in AgentState : DiaryInv(d) /\ InFile(d)
    BY <1>2, WipedStays DEF FileInv
  <2>2. CASE UNCHANGED vars
    <3>1. /\ UNCHANGED <<pc, op, local, at, todo, claimed, outcome, result>>
          /\ now' \in 0 .. MaxTime /\ store' = store /\ opened' = opened
      BY <2>1, <2>2 DEF vars, diaryVars, fileVars, DiaryInv, TypeInv
    <3>2. DiaryInv(d)' /\ SameWriters
      BY <2>1, <3>1, IdleKeeps DEF SameWriters, Writing
    <3> QED BY <2>1, <3>1, <3>2, FileStays
  <2>3. CASE Next
    BY <1>2, <2>1, <2>3, AsideKeeps, InsideKeeps, SetWriteKeeps DEF Next, Proceed
  <2> QED BY <2>2, <2>3
<1> QED BY <1>1, <1>2 DEF FileInv

(* Crashes, failing functions and failing writes cost neither a second     *)
(* execution nor a stored result, for any number of processes, tasks and   *)
(* titles, unless one falls between the opening and the writing of the     *)
(* file, or the file is created after others have written it               *)
(* (storage.ts:57-83).                                                     *)
THEOREM SoundUnlessWipedTheorem ==
  ASSUME OnceAlone, "read" \notin Fault
  PROVE  SafeSpec => []SoundUnlessWiped
<1>1. Init => FileInv
  BY InitFile
<1>2. FileInv /\ [Next]_vars => FileInv'
  BY NextFile
<1>3. FileInv => SoundUnlessWiped
  <2> SUFFICES ASSUME FileInv, ~wiped
               PROVE  AtMostOnce /\ (opened = {} => CompletedIsStored)
    BY DEF SoundUnlessWiped
  <2>1. PICK d \in AgentState : DiaryInv(d) /\ InFile(d)
    BY DEF FileInv
  <2>2. opened = {} => store = d
    BY <2>1 DEF InFile, Writing
  <2> QED BY <2>1, <2>2, DiaryIsSound
<1> QED BY <1>1, <1>2, <1>3, PTL DEF SafeSpec
=============================================================================
