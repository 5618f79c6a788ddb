-------------------------- MODULE MemoryDiaryProof --------------------------
(***************************************************************************)
(* executeOnce on MemoryStorage runs each task at most once and implements *)
(* the once-register; and all operations together keep what they promise   *)
(* of the diary.  For any number of calls, tasks and titles.               *)
(*                                                                         *)
(* The argument: the tickets of the lock let one call at a time into its   *)
(* body; module DiaryProof has what follows from that for executeOnce.     *)
(* For all operations the invariant says how the copy of the call at work  *)
(* differs from the diary it was read from: by fresh claims of what is not *)
(* live, by one record rewritten or gone, by what has expired, or by what  *)
(* fell off the end.  What the diary keeps twice or counts is in step with *)
(* it because every copy is: it has the stored count and its own claims.   *)
(***************************************************************************)
EXTENDS MemoryDiary, DiaryViews, DiaryProof

(* For the register nobody reads without the lock, and no error is taken   *)
(* for an empty diary.                                                     *)
NoReads == \A o \in Op : o.kind \notin ReadKinds
NoBlindReads == "read" \notin Fault

-----------------------------------------------------------------------------
(* The invariant *)

(* The lock's tickets are an order of arrival, and who is let in has left  *)
(* nobody before it; where a call is agrees with the lock.                 *)
LockInv ==
  /\ pc \in [Call -> Where]
  /\ status \in [Call -> Lock!Status] /\ ticket \in [Call -> Nat] /\ arrivals \in Nat
  /\ \A c \in Call : status[c] # "idle" => ticket[c] <= arrivals
  /\ \A c, d \in Call :
       status[c] # "idle" /\ status[d] # "idle" /\ ticket[c] = ticket[d] => c = d
  /\ \A c, d \in Call :
       status[c] = "inside" /\ status[d] # "idle" /\ ticket[d] < ticket[c]
       => status[d] \in Lock!Left
  /\ \A c \in Call : /\ pc[c] = "waiting" <=> status[c] = "waiting"
                     /\ AtWork(c) <=> status[c] = "inside"

OnceInv == LockInv /\ DiaryInv(store)

-----------------------------------------------------------------------------
(* The lock admits one call at a time. *)
LEMMA OneInside ==
  ASSUME LockInv, NEW c \in Call, NEW d \in Call, AtWork(c), AtWork(d)
  PROVE  c = d
<1>1. status[c] = "inside" /\ status[d] = "inside"
  BY DEF LockInv
<1>2. ~(ticket[c] < ticket[d]) /\ ~(ticket[d] < ticket[c])
  BY <1>1 DEF LockInv, Lock!Left
<1>3. ticket[c] \in Nat /\ ticket[d] \in Nat
  BY DEF LockInv
<1>4. ticket[c] = ticket[d]
  BY <1>2, <1>3
<1> QED BY <1>1, <1>4 DEF LockInv

(* A call is let in when nobody is. *)
LEMMA GrantedAlone ==
  ASSUME LockInv, NEW c \in Call, Granted(c)
  PROVE  \A b \in Call : ~AtWork(b)
<1> SUFFICES ASSUME NEW b \in Call, AtWork(b) PROVE FALSE
  OBVIOUS
<1>1. status[b] = "inside" /\ status[c] = "waiting" /\ b # c
  BY DEF LockInv, Granted, Locked
<1>2. /\ \A d \in Call : status[d] # "idle" /\ ticket[d] < ticket[c] => status[d] \in Lock!Left
      /\ "inside" \notin Lock!Left /\ "waiting" \notin Lock!Left
  BY DEF Granted, Lock!Grant, Lock!AheadOf, Lock!Left
<1>3. ~(ticket[b] < ticket[c]) /\ ~(ticket[c] < ticket[b])
  BY <1>1, <1>2 DEF LockInv
<1>4. ticket[b] = ticket[c]
  BY <1>3 DEF LockInv
<1> QED BY <1>1, <1>4 DEF LockInv

(* What a step in a body, or of the clock, shows to the lock: nothing. *)
Aside ==
  /\ UNCHANGED lockVars /\ pc' \in [Call -> Where]
  /\ \A b \in Call : (pc'[b] = "waiting" <=> pc[b] = "waiting")
  /\ \A b \in Call : (AtWork(b)' <=> AtWork(b))

(* So the order stays. *)
LEMMA AsideKeepsOrder ==
  ASSUME LockInv, Aside
  PROVE  LockInv'
<1>1. status' = status /\ ticket' = ticket /\ arrivals' = arrivals
  BY DEF lockVars, Aside
<1>2. \A b \in Call : /\ pc'[b] = "waiting" <=> status'[b] = "waiting"
                      /\ AtWork(b)' <=> status'[b] = "inside"
  BY <1>1 DEF LockInv, Aside
<1>3. pc' \in [Call -> Where]
  BY DEF Aside
<1>4. /\ status' \in [Call -> Lock!Status] /\ ticket' \in [Call -> Nat] /\ arrivals' \in Nat
  BY <1>1 DEF LockInv
<1>5. \A b \in Call : status'[b] # "idle" => ticket'[b] <= arrivals'
  BY <1>1 DEF LockInv
<1>6. \A b, d \in Call :
        status'[b] # "idle" /\ status'[d] # "idle" /\ ticket'[b] = ticket'[d] => b = d
  BY <1>1 DEF LockInv
<1>7. \A b, d \in Call :
        status'[b] = "inside" /\ status'[d] # "idle" /\ ticket'[d] < ticket'[b]
        => status'[d] \in Lock!Left
  BY <1>1 DEF LockInv
<1> QED BY <1>2, <1>3, <1>4, <1>5, <1>6, <1>7 DEF LockInv

(* What asking, being let in and leaving do to the place of the call. *)
AtTheLock(c) ==
  /\ pc' \in [Call -> Where] /\ \A b \in Call \ {c} : pc'[b] = pc[b]
  /\ \/ Ask(c) /\ pc[c] = "idle" /\ pc'[c] = "waiting"
     \/ Granted(c) /\ pc[c] = "waiting" /\ pc'[c] = "locked" /\ op' = op
     \/ GiveBack(c) /\ pc[c] = "leaving" /\ pc'[c] = "done" /\ op' = op

(* That. *)
LEMMA LockStepIs ==
  ASSUME LockInv, NEW c \in Call, Ask(c) \/ Granted(c) \/ GiveBack(c)
  PROVE  AtTheLock(c)
BY DEF AtTheLock, LockInv, Ask, Granted, GiveBack, Invoke, Locked, Finish, Goto,
       Where, Body

(* They keep the order of the tickets, and the lock agrees with pc. *)
LEMMA LockStepKeepsOrder ==
  ASSUME LockInv, NEW c \in Call, Ask(c) \/ Granted(c) \/ GiveBack(c),
         pc[c] = "leaving" => outcome[c] \in {"returned", "threw"}
  PROVE  LockInv'
<1>1. AtTheLock(c)
  BY LockStepIs
<1>2. \A e \in Call \ {c} : pc'[e] = pc[e] /\ (AtWork(e)' <=> AtWork(e))
  BY <1>1 DEF AtTheLock, AtWork
<1>3. CASE Ask(c)
  <2>1. /\ status[c] = "idle" /\ status' = [status EXCEPT ![c] = "waiting"]
        /\ ticket' = [ticket EXCEPT ![c] = arrivals + 1] /\ arrivals' = arrivals + 1
    BY <1>3 DEF Ask, Lock!Request
  <2>2. pc'[c] = "waiting" /\ ~AtWork(c)'
    BY <1>1, <1>3 DEF Ask, Invoke, AtTheLock, AtWork, Body, Steps
  <2>8. pc' \in [Call -> Where]
    BY <1>1 DEF AtTheLock
  <2>3. /\ status' \in [Call -> Lock!Status] /\ ticket' \in [Call -> Nat] /\ arrivals' \in Nat
    BY <2>1 DEF LockInv, Lock!Status
  <2>4. \A d \in Call : status'[d] # "idle" => ticket'[d] <= arrivals'
    BY <2>1 DEF LockInv
  <2>5. \A d, e \in Call :
          status'[d] # "idle" /\ status'[e] # "idle" /\ ticket'[d] = ticket'[e] => d = e
    BY <2>1 DEF LockInv
  <2>6. \A d, e \in Call :
          status'[d] = "inside" /\ status'[e] # "idle" /\ ticket'[e] < ticket'[d]
          => status'[e] \in Lock!Left
    BY <2>1 DEF LockInv, Lock!Left
  <2>7. \A e \in Call : /\ pc'[e] = "waiting" <=> status'[e] = "waiting"
                        /\ AtWork(e)' <=> status'[e] = "inside"
    BY <1>2, <2>1, <2>2 DEF LockInv
  <2> QED BY <2>3, <2>4, <2>5, <2>6, <2>7, <2>8 DEF LockInv
<1>4. CASE Granted(c) \/ GiveBack(c)
  <2>1. PICK w \in {"inside", "returned", "threw"} :
          /\ status[c] # "idle" /\ status' = [status EXCEPT ![c] = w]
          /\ UNCHANGED <<ticket, arrivals>>
          /\ \/ /\ w = "inside" /\ pc'[c] = "locked"
                /\ \A d \in Call : status[d] # "idle" /\ ticket[d] < ticket[c]
                                   => status[d] \in Lock!Left
             \/ w # "inside" /\ pc'[c] = "done"
    <3>1. CASE Granted(c)
      BY <1>1, <3>1 DEF Granted, Locked, AtTheLock, Lock!Grant, Lock!AheadOf
    <3>2. CASE GiveBack(c)
      <4>1. outcome[c] \in {"returned", "threw"}
        BY <3>2 DEF GiveBack, Finish
      <4> QED BY <1>1, <3>2, <4>1 DEF GiveBack, Finish, AtTheLock, Lock!Release
    <3> QED BY <1>4, <3>1, <3>2
  <2>2. status' \in [Call -> Lock!Status]
    BY <2>1 DEF LockInv, Lock!Status
  <2>3. \A d \in Call : status'[d] # "idle" <=> status[d] # "idle"
    BY <2>1 DEF LockInv
  <2>4. ASSUME NEW d \in Call, NEW e \in Call,
               status'[d] = "inside", status'[e] # "idle", ticket[e] < ticket[d]
        PROVE  status'[e] \in Lock!Left
    <3>1. status[e] # "idle" /\ ticket[d] \in Nat /\ ticket[e] \in Nat /\ e # d
      BY <2>3, <2>4 DEF LockInv
    <3>2. status[e] \in Lock!Left
      <4>1. CASE d = c
        BY <2>1, <2>4, <3>1, <4>1 DEF LockInv
      <4>2. CASE d # c
        BY <2>1, <2>4, <3>1, <4>2 DEF LockInv
      <4> QED BY <4>1, <4>2
    <3>3. CASE e # c
      BY <2>1, <3>2, <3>3 DEF LockInv
    <3>4. CASE e = c
      <4>1. status[c] \notin Lock!Left
        BY <1>4 DEF Granted, GiveBack, Lock!Grant, Lock!Release, Lock!Left
      <4> QED BY <3>2, <3>4, <4>1
    <3> QED BY <3>3, <3>4
  <2>5. \A e \in Call : /\ pc'[e] = "waiting" <=> status'[e] = "waiting"
                        /\ AtWork(e)' <=> status'[e] = "inside"
    <3>1. \A e \in Call \ {c} : status'[e] = status[e]
      BY <2>1 DEF LockInv
    <3>2. status'[c] = w /\ (AtWork(c)' <=> w = "inside")
      BY <2>1 DEF LockInv, AtWork, Body, Steps
    <3>3. pc'[c] \notin {"idle", "waiting"} /\ w \notin {"idle", "waiting"}
      BY <2>1
    <3> QED BY <1>2, <3>1, <3>2, <3>3 DEF LockInv
  <2>6. pc' \in [Call -> Where]
    BY <1>1 DEF AtTheLock
  <2> QED BY <2>1, <2>2, <2>3, <2>4, <2>5, <2>6 DEF LockInv
<1> QED BY <1>1, <1>3, <1>4 DEF AtTheLock

-----------------------------------------------------------------------------
(* What the steps of Next do to the diary: keep the invariant of DiaryProof. *)

(* A step in a body. *)
LEMMA BodyStepKeepsOnce ==
  ASSUME OnceAlone, NoBlindReads, OnceInv, NEW c \in Call,
         BodyStep(c) \/ BodyFault(c) \/ ReadFails(c), UNCHANGED lockVars
  PROVE  OnceInv'
<1>1. PICK d : d = store
  OBVIOUS
<1>2. PICK e : e = store'
  OBVIOUS
<1>3. DiaryInv(d) /\ LockInv
  BY <1>1 DEF OnceInv
<1>4. ReadsTrue
  BY DEF NoBlindReads, ReadsTrue
<1>5. Keeps(c, d, e) /\ AtWork(c)
  BY <1>1, <1>2, <1>3, <1>4, BodyKept, BodyStepsAre
<1>6. DiaryInv(e)'
  BY <1>3, <1>5, StepKeeps
<1>7. AtWork(c)'
  BY <1>3, StaysAtWork DEF LockInv
<1>8. LockInv'
  <2>1. pc' \in [Call -> Where] /\ \A b \in Call \ {c} : pc'[b] = pc[b]
    BY <1>5 DEF Keeps, TypeInv, Apart
  <2>2. pc[c] # "waiting" /\ pc'[c] # "waiting"
    BY <1>5, <1>7 DEF AtWork, Body, Steps
  <2>3. \A b \in Call \ {c} : AtWork(b)' <=> AtWork(b)
    BY <2>1 DEF AtWork
  <2> QED BY <1>3, <1>5, <1>7, <2>1, <2>2, <2>3, AsideKeepsOrder DEF Aside
<1> QED BY <1>2, <1>6, <1>8 DEF OnceInv

(* A step at the lock. *)
LEMMA LockStepKeeps ==
  ASSUME OnceAlone, OnceInv, NEW c \in Call, Ask(c) \/ Granted(c) \/ GiveBack(c)
  PROVE  OnceInv' /\ store' = store
<1>1. PICK d : d = store
  OBVIOUS
<1>2. DiaryInv(d) /\ LockInv
  BY <1>1 DEF OnceInv
<1>3. Keeps(c, d, d) /\ store' = store
  <2>1. CASE Ask(c)
    BY <1>2, <2>1, InvokeKeeps DEF Ask
  <2>2. CASE Granted(c)
    BY <1>2, <2>2, GrantedAlone, LockedKeeps DEF Granted
  <2>3. CASE GiveBack(c)
    BY <1>2, <2>3, EndKeeps DEF GiveBack, Finish, Goto, Ends, shared, stored
  <2> QED BY <2>1, <2>2, <2>3
<1>4. DiaryInv(d)'
  BY <1>2, <1>3, StepKeeps
<1>5. pc[c] = "leaving" => outcome[c] \in {"returned", "threw"}
  BY <1>2 DEF DiaryInv, StageInv, TypeInv
<1>6. LockInv'
  BY <1>2, <1>5, LockStepKeepsOrder
<1> QED BY <1>1, <1>3, <1>4, <1>6 DEF OnceInv

(* A read without the lock. *)
LEMMA ReadKeepsOnce ==
  ASSUME OnceAlone, OnceInv, NEW c \in Call, Read(c), UNCHANGED lockVars
  PROVE  OnceInv'
<1>1. PICK d : d = store
  OBVIOUS
<1>2. DiaryInv(d) /\ LockInv
  BY <1>1 DEF OnceInv
<1>3. Keeps(c, d, d) /\ store' = d
  BY <1>1, <1>2, ReadKeeps
<1>4. DiaryInv(d)'
  BY <1>2, <1>3, StepKeeps
<1>5. /\ pc[c] = "idle" /\ pc'[c] = "done" /\ pc' \in [Call -> Where]
      /\ \A b \in Call \ {c} : pc'[b] = pc[b]
  BY <1>2, <1>4 DEF Read, Goto, DiaryInv, TypeInv
<1>6. LockInv'
  BY <1>2, <1>5, AsideKeepsOrder DEF Aside, AtWork, Body, Steps
<1> QED BY <1>3, <1>4, <1>6 DEF OnceInv

(* The invariant is so at first ... *)
LEMMA InitOnce ==
  ASSUME Init
  PROVE  OnceInv
<1>1. PICK d : d = store
  OBVIOUS
<1>2. DiaryInv(d)
  BY <1>1, InitKeeps DEF Init
<1>3. LockInv
  BY DEF Init, DiaryInit, Lock!FifoInit, LockInv, Lock!Status, AtWork, Body, Steps, Where
<1> QED BY <1>1, <1>2, <1>3 DEF OnceInv

(* ... and after every step. *)
LEMMA NextOnce ==
  ASSUME OnceAlone, NoBlindReads, OnceInv, [Next]_vars
  PROVE  OnceInv'
<1>1. CASE UNCHANGED vars \/ (Tick /\ UNCHANGED lockVars)
  <2>1. PICK d : d = store
    OBVIOUS
  <2>2. DiaryInv(d) /\ LockInv
    BY <2>1 DEF OnceInv
  <2>3. UNCHANGED <<store, pc, lockVars>>
    BY <1>1 DEF vars, diaryVars, Tick
  <2>4. DiaryInv(d)'
    <3>1. CASE Tick
      BY <2>2, <3>1, TickKeeps
    <3>2. CASE UNCHANGED vars
      BY <2>2, <3>2, IdleKeeps DEF vars, diaryVars, DiaryInv, TypeInv
    <3> QED BY <1>1, <3>1, <3>2
  <2>5. LockInv'
    BY <2>2, <2>3 DEF LockInv, lockVars, AtWork
  <2> QED BY <2>1, <2>3, <2>4, <2>5 DEF OnceInv
<1>2. ASSUME NEW c \in Call, Ask(c) \/ Granted(c) \/ GiveBack(c)
      PROVE  OnceInv'
  BY <1>2, LockStepKeeps
<1>3. ASSUME NEW c \in Call, BodyStep(c) \/ BodyFault(c) \/ ReadFails(c), UNCHANGED lockVars
      PROVE  OnceInv'
  BY <1>3, BodyStepKeepsOnce
<1>4. ASSUME NEW c \in Call, Read(c), UNCHANGED lockVars
      PROVE  OnceInv'
  BY <1>4, ReadKeepsOnce
<1> QED BY <1>1, <1>2, <1>3, <1>4 DEF Next

(* The inductive invariant of executeOnce: one call in its body, whose copy *)
(* is what is stored with its own change.                                  *)
THEOREM OnceInvariance ==
  ASSUME OnceAlone, NoBlindReads
  PROVE  SafeSpec => []OnceInv
<1>1. Init => OnceInv
  BY InitOnce
<1>2. OnceInv /\ [Next]_vars => OnceInv'
  BY NextOnce
<1> QED BY <1>1, <1>2, PTL DEF SafeSpec

(* The invariant says what the properties say. *)
LEMMA OnceIsSound ==
  ASSUME OnceInv
  PROVE  AtMostOnce /\ CompletedIsStored
<1>1. PICK d : d = store
  OBVIOUS
<1> QED BY <1>1, DiaryIsSound DEF OnceInv

(* The function of a task runs in one call at most, whatever fails short   *)
(* of a read that is taken for an empty diary ("execute only once, no      *)
(* matter how many agents attempt them concurrently", README.md:35).       *)
THEOREM RunsAtMostOnce ==
  ASSUME OnceAlone, NoBlindReads
  PROVE  SafeSpec => []AtMostOnce
<1>1. OnceInv => AtMostOnce
  BY OnceIsSound
<1> QED BY <1>1, OnceInvariance, PTL

(* What a call that ended well has stored is what the diary answers with. *)
THEOREM AnswersAreStored ==
  ASSUME OnceAlone, NoBlindReads
  PROVE  SafeSpec => []CompletedIsStored
<1>1. OnceInv => CompletedIsStored
  BY OnceIsSound
<1> QED BY <1>1, OnceInvariance, PTL

-----------------------------------------------------------------------------
(* Where nothing but the caller's function fails, the diary is the register *)
(* of module OnceRegister.                                                 *)

(* The conditions of that, and the diary before a step and after it. *)
Seen(d, e) ==
  /\ OnceAlone /\ NoReads /\ Fault \subseteq {"fn"}
  /\ store = d /\ store' = e /\ LockInv /\ DiaryInv(d)

(* Who has begun is not without an operation. *)
LEMMA BegunIsOnce ==
  ASSUME NoReads, NEW c \in Call, op[c] \in Op
  PROVE  op[c] # NoOp
BY DEF NoReads, NoOp, ReadKinds

(* Seen from the register a step in the body of c is about its task alone. *)
LEMMA BodySeen ==
  ASSUME NEW d, NEW e, Seen(d, e), NEW c \in Call, AtWork(c), Keeps(c, d, e)
  PROVE  /\ AskedFor' = AskedFor /\ AskedFor[c] = SignatureIn(c)
         /\ SignatureIn(c) \in Signature
         /\ Runner = [u \in Signature |-> IF Executing(c) /\ SignatureIn(c) = u
                                          THEN c ELSE NoCall]
         /\ Runner' = [u \in Signature |-> IF Executing(c)' /\ SignatureIn(c) = u
                                           THEN c ELSE NoCall]
<1> USE DEF Seen
<1>1. op[c] \in Op /\ SignatureIn(c) \in Signature /\ op'[c] = op[c]
  BY WorkIs DEF Keeps
<1>2. SignatureIn(c)' = SignatureIn(c) /\ op[c] # NoOp
  BY <1>1, BegunIsOnce DEF SignatureIn
<1>3. AskedFor' = AskedFor /\ AskedFor[c] = SignatureIn(c)
  <2>1. AskedFor'[c] = AskedFor[c] /\ AskedFor[c] = SignatureIn(c)
    BY <1>1, <1>2 DEF AskedFor
  <2>2. \A b \in Call \ {c} : AskedFor'[b] = AskedFor[b]
    BY DEF AskedFor, Keeps, Apart, SignatureIn
  <2> QED BY <2>1, <2>2 DEF AskedFor
<1>4. \A b \in Call \ {c} : ~Executing(b) /\ ~Executing(b)'
  <2> SUFFICES ASSUME NEW b \in Call \ {c} PROVE ~Executing(b) /\ ~Executing(b)'
    OBVIOUS
  <2>1. ~AtWork(b)
    BY DEF DiaryInv, OneAtWork
  <2> QED BY <2>1 DEF AtWork, Body, Steps, Executing, Keeps, Apart
<1>5. \A u \in Signature :
        /\ RunnerOf(u) = IF Executing(c) /\ SignatureIn(c) = u THEN {c} ELSE {}
        /\ RunnerOf(u)' = IF Executing(c)' /\ SignatureIn(c) = u THEN {c} ELSE {}
  BY <1>2, <1>4 DEF RunnerOf
<1>6. \A b : (CHOOSE f \in {b} : TRUE) = b /\ {b} # {}
  OBVIOUS
<1> QED BY <1>1, <1>3, <1>5, <1>6 DEF Runner

(* Of the other tasks it sees the same as before. *)
LEMMA TaskSeen ==
  ASSUME NEW d, NEW e, Seen(d, e), NEW s \in Signature,
         SameBut(e.history, d.history, s), Has(e.history, s)
  PROVE  /\ TaskState' = [TaskState EXCEPT ![s] =
                            IF Find(e.history, s).status = "pending" THEN "running"
                            ELSE Find(e.history, s).status]
         /\ Memo' = [Memo EXCEPT ![s] = Find(e.history, s).result]
<1> USE DEF Seen
<1>1. \A u \in Signature \ {s} : TaskState'[u] = TaskState[u] /\ Memo'[u] = Memo[u]
  BY DEF SameBut, TaskState, Memo
<1>2. /\ TaskState'[s] = IF Find(e.history, s).status = "pending" THEN "running"
                         ELSE Find(e.history, s).status
      /\ Memo'[s] = Find(e.history, s).result
  BY DEF TaskState, Memo
<1>3. Memo' = [Memo EXCEPT ![s] = Find(e.history, s).result]
  BY <1>1, <1>2 DEF Memo
<1>4. TaskState' = [TaskState EXCEPT ![s] =
                      IF Find(e.history, s).status = "pending" THEN "running"
                      ELSE Find(e.history, s).status]
  <2> DEFINE seen == IF Find(e.history, s).status = "pending" THEN "running"
                     ELSE Find(e.history, s).status
  <2>1. TaskState'[s] = seen
    BY <1>2
  <2> HIDE DEF seen, Seen
  <2>2. TaskState' = [TaskState EXCEPT ![s] = seen]
    BY <1>1, <2>1 DEF TaskState
  <2> QED BY <2>2 DEF seen
<1> QED BY <1>3, <1>4

(* Who is answered is answered alone. *)
LEMMA AnswerSeen ==
  ASSUME NEW c \in Call, NEW how, NEW v,
         outcome' = [outcome EXCEPT ![c] = how], result' = [result EXCEPT ![c] = v],
         TypeInv
  PROVE  Answers' = [Answers EXCEPT ![c] = [how |-> how, value |-> v]]
BY DEF Answers, TypeInv

(* A call in its body that has no answer is open to the register. *)
LEMMA OpenSeen ==
  ASSUME NEW d, NEW e, Seen(d, e), NEW c \in Call, AtWork(c), Keeps(c, d, e), Unanswered(c)
  PROVE  Register!Open(c, SignatureIn(c))
<1>1. Answers[c] = [how |-> "none", value |-> Undefined]
  BY DEF Answers, Unanswered
<1> QED BY <1>1, BodySeen DEF Register!Open, Register!Unanswered

(* A record that is not pending answers: Recall. *)
LEMMA SkipLiveRecalls ==
  ASSUME NEW d, NEW e, Seen(d, e), NEW c \in Call, SkipLive(c)
  PROVE  Register!Recall(c, SignatureIn(c))
<1> USE DEF Seen
<1> DEFINE s == SignatureIn(c)
<1>1. e = d /\ Keeps(c, d, e) /\ AtWork(c)
  <2>1. e = d
    BY DEF SkipLive, shared, stored
  <2>2. AtWork(c)
    BY DEF SkipLive, AtWork, Body, Steps
  <2> QED BY <2>1, <2>2, SkipLiveKeeps
<1>2. /\ Unanswered(c) /\ local[c] = d /\ Head(todo[c]) = s /\ pc[c] = "claiming"
  BY StillToClaim DEF SkipLive, DiaryInv
<1>3. op[c].kind = "executeOnce"
  BY <1>1, WorkIs
<1>4. /\ Settle(c, "returned", Find(d.history, s).result)
      /\ Has(d.history, s)
  BY <1>2, <1>3 DEF SkipLive, Live
<1>5. s \in Signature /\ AskedFor' = AskedFor
      /\ Runner = [u \in Signature |-> IF Executing(c) /\ s = u THEN c ELSE NoCall]
      /\ Runner' = [u \in Signature |-> IF Executing(c)' /\ s = u THEN c ELSE NoCall]
  BY <1>1, BodySeen
<1>6. ~Executing(c) /\ ~Executing(c)'
  <2>1. pc'[c] = "leaving"
    BY <1>4 DEF DiaryInv, Settle, Goto, TypeInv
  <2> QED BY <1>2, <2>1 DEF Executing
<1>7. TaskState[s] \in {"done", "failed"} /\ Memo[s] = Find(d.history, s).result
  <2>1. Find(d.history, s) \in Record
    BY <1>4, Found DEF DiaryInv
  <2>2. \A b \in Call : ~Executing(b)
    <3> SUFFICES ASSUME NEW b \in Call, Executing(b) PROVE FALSE
      OBVIOUS
    <3>1. AtWork(b)
      BY DEF Executing, AtWork, Body, Steps
    <3> QED BY <1>1, <1>6, <3>1 DEF DiaryInv, OneAtWork
  <2>3. Find(d.history, s).status # "pending"
    BY <1>4, <1>5, <2>2 DEF DiaryInv, PendingInv
  <2> QED BY <1>4, <1>5, <2>1, <2>3 DEF TaskState, Memo, Record
<1>8. Answers' = [Answers EXCEPT ![c] = [how |-> "returned", value |-> Memo[s]]]
  BY <1>4, <1>7, AnswerSeen DEF DiaryInv, Settle
<1>9. TaskState' = TaskState /\ Memo' = Memo
  BY <1>1 DEF TaskState, Memo
<1>10. Register!Open(c, s)
  BY <1>1, <1>2, OpenSeen
<1> QED BY <1>5, <1>6, <1>7, <1>8, <1>9, <1>10 DEF Register!Recall, Register!Answer

(* The write of the claim takes the task. *)
LEMMA SaveClaimTakes ==
  ASSUME NEW d, NEW e, Seen(d, e), NEW c \in Call, SaveClaim(c)
  PROVE  Register!Take(c, SignatureIn(c))
<1> USE DEF Seen
<1> DEFINE s == SignatureIn(c)
<1>1. /\ Keeps(c, d, e) /\ pc[c] = "saveClaim" /\ pc'[c] = "running" /\ Unanswered(c)
      /\ ~Has(d.history, s) /\ SameBut(e.history, d.history, s) /\ Has(e.history, s)
      /\ Find(e.history, s).status = "pending" /\ Find(e.history, s).result = Undefined
      /\ UNCHANGED <<op, outcome, result>>
  <2>1. e = local[c]
    BY DEF SaveClaim
  <2> QED BY <2>1, SaveClaimIs
<1>2. AtWork(c) /\ op[c].kind = "executeOnce"
  BY <1>1, WorkIs DEF AtWork, Body, Steps
<1>3. s \in Signature /\ AskedFor' = AskedFor
      /\ Runner = [u \in Signature |-> IF Executing(c) /\ s = u THEN c ELSE NoCall]
      /\ Runner' = [u \in Signature |-> IF Executing(c)' /\ s = u THEN c ELSE NoCall]
  BY <1>1, <1>2, BodySeen
<1>4. ~Executing(c) /\ Executing(c)'
  BY <1>1, <1>2 DEF Executing
<1>5. Register!Open(c, s)
  BY <1>1, <1>2, OpenSeen
<1> HIDE DEF s
<1>6. TaskState[s] = "new" /\ Memo[s] = Undefined
  BY <1>1, <1>3 DEF TaskState, Memo
<1>7. TaskState' = [TaskState EXCEPT ![s] = "running"] /\ Memo' = Memo
  <2>1. /\ TaskState' = [TaskState EXCEPT ![s] = "running"]
        /\ Memo' = [Memo EXCEPT ![s] = Undefined]
    BY <1>1, <1>3, TaskSeen
  <2> QED BY <1>6, <2>1 DEF Memo
<1>8. Runner' = [Runner EXCEPT ![s] = c]
  BY <1>3, <1>4
<1>9. Answers' = Answers
  BY <1>1 DEF Answers
<1> QED BY <1>3, <1>5, <1>6, <1>7, <1>8, <1>9 DEF Register!Take, s

(* The write of the settled record ends the run, with the result ... *)
LEMMA SaveResultCompletes ==
  ASSUME NEW d, NEW e, Seen(d, e), NEW c \in Call, SaveResult(c)
  PROVE  Register!Complete(c, SignatureIn(c))
<1> USE DEF Seen
<1> DEFINE s == SignatureIn(c)
<1>1. /\ Keeps(c, d, e) /\ pc[c] = "saveResult" /\ pc'[c] = "leaving"
      /\ SameBut(e.history, d.history, s) /\ Has(e.history, s)
      /\ Find(e.history, s).status = "done"
      /\ Find(e.history, s).result = Stringified(Returned(c))
      /\ outcome' = [outcome EXCEPT ![c] = "returned"]
      /\ result' = [result EXCEPT ![c] = Returned(c)]
  <2>1. e = local[c]
    BY DEF SaveResult
  <2> QED BY <2>1, SaveResultIs
<1>2. AtWork(c) /\ op[c].kind = "executeOnce"
  BY <1>1, WorkIs DEF AtWork, Body, Steps
<1>3. s \in Signature /\ AskedFor' = AskedFor
      /\ Runner = [u \in Signature |-> IF Executing(c) /\ s = u THEN c ELSE NoCall]
      /\ Runner' = [u \in Signature |-> IF Executing(c)' /\ s = u THEN c ELSE NoCall]
  BY <1>1, <1>2, BodySeen
<1>4. Executing(c) /\ ~Executing(c)'
  BY <1>1, <1>2 DEF Executing
<1>5. Unanswered(c)
  BY <1>1 DEF DiaryInv, StageInv, ExecutingAt
<1>6. Register!Open(c, s)
  BY <1>1, <1>2, <1>5, OpenSeen
<1> HIDE DEF s
<1>7. /\ TaskState' = [TaskState EXCEPT ![s] = "done"]
      /\ Memo' = [Memo EXCEPT ![s] = Stringified(Returned(c))]
  BY <1>1, <1>3, TaskSeen
<1>8. Answers' = [Answers EXCEPT ![c] = [how |-> "returned", value |-> Returned(c)]]
  BY <1>1, AnswerSeen DEF DiaryInv
<1>9. Runner[s] = c /\ Runner' = [Runner EXCEPT ![s] = NoCall]
  BY <1>3, <1>4
<1> QED BY <1>3, <1>6, <1>7, <1>8, <1>9 DEF Register!Complete, Register!Answer, s

(* ... or without one. *)
LEMMA SaveFailureFails ==
  ASSUME NEW d, NEW e, Seen(d, e), NEW c \in Call, SaveFailure(c)
  PROVE  Register!Fail(c, SignatureIn(c))
<1> USE DEF Seen
<1> DEFINE s == SignatureIn(c)
<1>1. /\ Keeps(c, d, e) /\ pc[c] = "saveFailure" /\ pc'[c] = "leaving"
      /\ SameBut(e.history, d.history, s) /\ Has(e.history, s)
      /\ Find(e.history, s).status = "failed"
      /\ Find(e.history, s).result = Undefined
      /\ outcome' = [outcome EXCEPT ![c] = "threw"]
      /\ result' = [result EXCEPT ![c] = Undefined]
  <2>1. e = local[c]
    BY DEF SaveFailure
  <2> QED BY <2>1, SaveFailureIs
<1>2. AtWork(c) /\ op[c].kind = "executeOnce"
  BY <1>1, WorkIs DEF AtWork, Body, Steps
<1>3. s \in Signature /\ AskedFor' = AskedFor
      /\ Runner = [u \in Signature |-> IF Executing(c) /\ s = u THEN c ELSE NoCall]
      /\ Runner' = [u \in Signature |-> IF Executing(c)' /\ s = u THEN c ELSE NoCall]
  BY <1>1, <1>2, BodySeen
<1>4. Executing(c) /\ ~Executing(c)'
  BY <1>1, <1>2 DEF Executing
<1>5. Unanswered(c) /\ Has(d.history, s) /\ Find(d.history, s).result = Undefined
  BY <1>1 DEF DiaryInv, StageInv, ExecutingAt, Mine
<1>6. Register!Open(c, s)
  BY <1>1, <1>2, <1>5, OpenSeen
<1> HIDE DEF s
<1>7. TaskState' = [TaskState EXCEPT ![s] = "failed"] /\ Memo' = Memo
  <2>1. /\ TaskState' = [TaskState EXCEPT ![s] = "failed"]
        /\ Memo' = [Memo EXCEPT ![s] = Undefined]
    BY <1>1, <1>3, TaskSeen
  <2>2. Memo[s] = Undefined
    BY <1>3, <1>5 DEF Memo
  <2> QED BY <2>1, <2>2 DEF Memo
<1>8. Answers' = [Answers EXCEPT ![c] = [how |-> "threw", value |-> Undefined]]
  BY <1>1, AnswerSeen DEF DiaryInv
<1>9. Runner[s] = c /\ Runner' = [Runner EXCEPT ![s] = NoCall]
  BY <1>3, <1>4
<1> QED BY <1>3, <1>6, <1>7, <1>8, <1>9 DEF Register!Fail, Register!Answer, s

(* The other steps of a body show nothing. *)
LEMMA OthersAreQuiet ==
  ASSUME NEW d, NEW e, Seen(d, e), NEW c \in Call,
         \/ ReadForClaim(c) \/ ClaimNew(c) \/ EndOfClaims(c)
         \/ FnReturns(c) \/ FnThrows(c) \/ RecordResult(c) \/ RecordFailure(c)
  PROVE  UNCHANGED Register!registerVars
<1> USE DEF Seen
<1>1. ReadsTrue
  BY DEF ReadsTrue
<1>2. Keeps(c, d, d) /\ store' = d /\ AtWork(c)
  BY <1>1, QuietKept, BodyStepsAre
     DEF BodyStep, BodyFault, ReadForClaim, ClaimNew, EndOfClaims, FnReturns, FnThrows,
         RecordResult, RecordFailure, SaveClaim, SaveResult, SaveFailure
<1>3. pc \in [Call -> Where] /\ op'[c] = op[c]
  BY <1>2 DEF DiaryInv, TypeInv, Keeps
<1>4. UNCHANGED <<outcome, result>> /\ (Executing(c)' <=> Executing(c))
  <2>1. CASE ReadForClaim(c) \/ ClaimNew(c)
    BY <1>3, <2>1 DEF ReadForClaim, ClaimNew, Claim, answer, Goto, Executing
  <2>2. CASE EndOfClaims(c)
    <3>1. \A u : <<u>> # <<>>
      OBVIOUS
    <3>2. claimed[c] # {}
      BY <2>2, <3>1 DEF EndOfClaims, DiaryInv, StageInv, Prepares
    <3> QED BY <1>3, <2>2, <3>2 DEF EndOfClaims, answer, Goto, Executing
  <2>3. CASE FnReturns(c) \/ FnThrows(c)
    BY <1>3, <2>3 DEF FnReturns, FnThrows, answer, Goto, Executing
  <2>4. CASE RecordResult(c)
    BY <1>1, <1>3, <2>4, RecordResultKeeps DEF RecordResult, Executing
  <2>5. CASE RecordFailure(c)
    BY <1>1, <1>3, <2>5, RecordFailureKeeps DEF RecordFailure, Executing
  <2> QED BY <2>1, <2>2, <2>3, <2>4, <2>5
<1>5. AskedFor' = AskedFor /\ Runner' = Runner
  BY <1>2, <1>4, BodySeen
<1>6. TaskState' = TaskState /\ Memo' = Memo /\ Answers' = Answers
  BY <1>2, <1>4 DEF TaskState, Memo, Answers
<1> QED BY <1>5, <1>6 DEF Register!registerVars

(* Asking is asking; being let in and leaving show nothing. *)
LEMMA LockStepSeen ==
  ASSUME NEW d, NEW e, Seen(d, e), NEW c \in Call, Ask(c) \/ Granted(c) \/ GiveBack(c)
  PROVE  \/ \E s \in Signature : Register!AskFor(c, s)
         \/ UNCHANGED Register!registerVars
<1> USE DEF Seen
<1>1. AtTheLock(c)
  BY LockStepIs
<1>2. /\ UNCHANGED <<store, outcome, result>>
      /\ \A b \in Call \ {c} : pc'[b] = pc[b] /\ op'[b] = op[b]
  BY <1>1 DEF AtTheLock, DiaryInv, TypeInv, Ask, Granted, GiveBack, Invoke, Locked, Finish,
              shared, stored, answer
<1>3. \A b \in Call : b # c => (Executing(b)' <=> Executing(b)) /\ SignatureIn(b)' = SignatureIn(b)
  BY <1>2 DEF Executing, SignatureIn
<1>4. ~Executing(c) /\ ~Executing(c)'
  BY <1>1 DEF AtTheLock, Executing
<1>5. \A u \in Signature : RunnerOf(u)' = RunnerOf(u)
  BY <1>3, <1>4 DEF RunnerOf
<1>6. TaskState' = TaskState /\ Runner' = Runner /\ Memo' = Memo /\ Answers' = Answers
  <2>1. TaskState' = TaskState /\ Memo' = Memo /\ Answers' = Answers
    BY <1>2 DEF TaskState, Memo, Answers
  <2>2. Runner' = Runner
    <3> DEFINE Pick(S) == IF S = {} THEN NoCall ELSE CHOOSE b \in S : TRUE
    <3>1. /\ Runner = [u \in Signature |-> Pick(RunnerOf(u))]
          /\ Runner' = [u \in Signature |-> Pick(RunnerOf(u)')]
      BY DEF Runner
    <3> HIDE DEF Pick
    <3> QED BY <1>5, <3>1
  <2> QED BY <2>1, <2>2
<1>7. CASE Ask(c)
  <2>1. op[c] = NoOp /\ op'[c] \in Op
    <3>1. PICK o \in Op : op' = [op EXCEPT ![c] = o]
      BY <1>7 DEF Ask, Invoke
    <3> HIDE DEF NoOp
    <3> QED BY <1>7, <3>1 DEF Ask, Invoke, DiaryInv, TypeInv, StageInv
  <2>2. SignatureIn(c)' \in Signature /\ op'[c] # NoOp
    <3>1. op'[c].titles \in Seq(Title) /\ Len(op'[c].titles) = 1 /\ op'[c] # NoOp
      BY <2>1, OpAssumption DEF OpRecord, OnceAlone, NoReads, NoOp, ReadKinds
    <3>2. op'[c].titles[1] \in Title
      BY <3>1
    <3> QED BY <3>1, <3>2, SignatureAssumption DEF SignatureIn
  <2>3. AskedFor[c] = NoCall
    BY <2>1 DEF AskedFor
  <2>4. AskedFor' = [AskedFor EXCEPT ![c] = SignatureIn(c)']
    <3>1. AskedFor'[c] = SignatureIn(c)'
      BY <2>2 DEF AskedFor
    <3>2. \A b \in Call : b # c => AskedFor'[b] = AskedFor[b]
      BY <1>2, <1>3 DEF AskedFor
    <3> QED BY <3>1, <3>2 DEF AskedFor
  <2> QED BY <1>6, <2>2, <2>3, <2>4 DEF Register!AskFor
<1>8. CASE Granted(c) \/ GiveBack(c)
  <2>1. op' = op
    BY <1>8 DEF Granted, GiveBack, Locked, Finish
  <2>2. AskedFor' = AskedFor
    BY <2>1 DEF AskedFor, SignatureIn
  <2> QED BY <1>6, <2>2 DEF Register!registerVars
<1> QED BY <1>7, <1>8

(* Nobody has asked and every task is new. *)
LEMMA InitIsRegisterInit ==
  ASSUME Init
  PROVE  Register!RegisterInit
<1>1. /\ store.history = <<>> /\ \A c \in Call : op[c] = NoOp /\ pc[c] = "idle"
      /\ outcome = [c \in Call |-> "none"] /\ result = [c \in Call |-> Undefined]
  BY DEF Init, DiaryInit, EmptyState
<1>2. \A s \in Signature : ~Has(store.history, s) /\ RunnerOf(s) = {}
  BY <1>1 DEF Has, RunnerOf, Executing
<1> HIDE DEF NoOp
<1> QED BY <1>1, <1>2 DEF Register!RegisterInit, Register!Unanswered,
                          AskedFor, TaskState, Runner, Memo, Answers

(* Every step is one of the register or none. *)
LEMMA NextRefines ==
  ASSUME OnceAlone, NoReads, Fault \subseteq {"fn"}, OnceInv, [Next]_vars
  PROVE  [Register!RegisterNext]_(Register!registerVars)
<1>0. PICK d : d = store
  OBVIOUS
<1>1. PICK e : e = store'
  OBVIOUS
<1>2. Seen(d, e) /\ ReadsTrue
  BY <1>0, <1>1 DEF Seen, OnceInv, ReadsTrue
<1>3. CASE UNCHANGED vars \/ (Tick /\ UNCHANGED lockVars)
  <2>1. UNCHANGED <<store, pc, op, outcome, result>>
    BY <1>3 DEF vars, diaryVars, Tick, answer
  <2> QED BY <2>1 DEF Register!registerVars, AskedFor, TaskState, Runner, RunnerOf,
                      Executing, Memo, Answers, SignatureIn
<1>4. ASSUME NEW c \in Call, Ask(c) \/ Granted(c) \/ GiveBack(c)
      PROVE  Register!RegisterNext \/ UNCHANGED Register!registerVars
  BY <1>2, <1>4, LockStepSeen DEF Register!RegisterNext
<1>5. ASSUME NEW c \in Call, BodyStep(c) \/ BodyFault(c) \/ ReadFails(c), UNCHANGED lockVars
      PROVE  Register!RegisterNext \/ UNCHANGED Register!registerVars
  <2>1. SignatureIn(c) \in Signature
    BY <1>2, <1>5, BodyStepsAre, WorkIs DEF Seen
  <2>2. \/ SkipLive(c) \/ SaveClaim(c) \/ SaveResult(c) \/ SaveFailure(c)
        \/ ReadForClaim(c) \/ ClaimNew(c) \/ EndOfClaims(c)
        \/ FnReturns(c) \/ FnThrows(c) \/ RecordResult(c) \/ RecordFailure(c)
    BY <1>2, <1>5, BodyStepsAre DEF Seen, StorageFails, ReadFails
  <2>3. CASE SkipLive(c)
    BY <1>2, <2>1, <2>3, SkipLiveRecalls DEF Register!RegisterNext
  <2>4. CASE SaveClaim(c)
    BY <1>2, <2>1, <2>4, SaveClaimTakes DEF Register!RegisterNext
  <2>5. CASE SaveResult(c)
    BY <1>2, <2>1, <2>5, SaveResultCompletes DEF Register!RegisterNext
  <2>6. CASE SaveFailure(c)
    BY <1>2, <2>1, <2>6, SaveFailureFails DEF Register!RegisterNext
  <2> QED BY <1>2, <2>2, <2>3, <2>4, <2>5, <2>6, OthersAreQuiet
<1>6. ASSUME NEW c \in Call, Read(c)
      PROVE  FALSE
  BY <1>6 DEF Read, NoReads
<1> QED BY <1>3, <1>4, <1>5, <1>6 DEF Next

(* executeOnce on MemoryStorage is the register its comment promises        *)
(* (src/diary.ts:154-158): a new task is taken by one call, nobody is      *)
(* answered while it runs, and then all are answered the same.             *)
THEOREM ImplementsRegister ==
  ASSUME OnceAlone, NoReads, Fault \subseteq {"fn"}
  PROVE  SafeSpec => Register!RegisterInit
                     /\ [][Register!RegisterNext]_(Register!registerVars)
<1>1. Init => Register!RegisterInit
  BY InitIsRegisterInit
<1>2. OnceInv /\ [Next]_vars => [Register!RegisterNext]_(Register!registerVars)
  BY NextRefines
<1>3. NoBlindReads
  BY DEF NoBlindReads
<1> QED BY <1>1, <1>2, <1>3, OnceInvariance, PTL DEF SafeSpec

-----------------------------------------------------------------------------
(* All operations: the invariant *)

(* A claimer's copy, its claims and what it has still to claim. *)
Claims(c) ==
  /\ op[c].kind \in ClaimKinds /\ at[c] <= now
  /\ Copy(store.history, local[c].history, at[c], claimed[c])
  /\ op[c].kind = "executeOnce" =>
       /\ claimed[c] \subseteq {SignatureIn(c)}
       /\ \A i \in DOMAIN todo[c] : todo[c][i] = SignatureIn(c)

(* The task that the operation names, to change or to delete it. *)
Named(c) ==
  IF op[c].kind \in {"deleteTask", "writeTaskResult", "failTask"} THEN {SignatureIn(c)} ELSE {}

(* What is so of a call: while it claims ... *)
ClaimStage(c) ==
  /\ pc[c] = "claiming" => Claims(c)
  /\ pc[c] = "notifying" =>
       /\ Claims(c) /\ todo[c] # <<>> /\ Has(local[c].history, Head(todo[c]))
       /\ IsExpired(Find(local[c].history, Head(todo[c])), at[c])
  /\ pc[c] = "saveClaim" =>
       /\ op[c].kind \in ClaimKinds /\ at[c] <= now
       /\ Fits(local[c].history)
       /\ ClaimsOf(store.history, local[c].history, at[c], claimed[c])
       /\ KeepsAll(store.history, local[c].history, at[c], {})
       /\ op[c].kind = "executeOnce" => SignatureIn(c) \in claimed[c]

(* ... while executeOnce runs its function and records how that ended ... *)
RunStage(c) ==
  /\ pc[c] \in ExecutingAt =>
       /\ op[c].kind = "executeOnce"
       /\ \A i \in DOMAIN store.history :
            store.history[i].signature = SignatureIn(c) => store.history[i].status = "pending"
  /\ pc[c] \in {"saveResult", "saveFailure"} =>
       /\ Fits(local[c].history) /\ AddsNone(store.history, local[c].history)
       /\ KeepsAll(store.history, local[c].history, now, {SignatureIn(c)})

(* ... and while another change is written and a prune reports. *)
SaveStage(c) ==
  /\ pc[c] = "save" =>
       /\ op[c].kind \notin ClaimKinds /\ Fits(local[c].history)
       /\ \A i \in DOMAIN todo[c] : ~Has(local[c].history, todo[c][i])
       /\ op[c].kind \notin {"importHistory", "mergeHistory"} =>
            AddsNone(store.history, local[c].history)
       /\ op[c].kind \notin {"importHistory", "clearHistory"} =>
            KeepsAll(store.history, local[c].history, now, Named(c))
  /\ pc[c] = "reporting" => \A i \in DOMAIN todo[c] : ~Has(store.history, todo[c][i])

(* What is so of each call, whatever it does ... *)
BodyInv(c) ==
  /\ pc[c] \in {"idle", "waiting", "locked"} => claimed[c] = {} /\ todo[c] = <<>>
  /\ pc[c] \notin {"idle", "done"} => op[c] \in Op /\ op[c].kind \in LockedKinds
  /\ pc[c] = "leaving" => outcome[c] \in {"returned", "threw"}
  /\ ClaimStage(c) /\ RunStage(c) /\ SaveStage(c)

(* ... and of the diary, the one stored and the one exported. *)
StoredInv ==
  /\ store \in AgentState /\ exported \in AgentState /\ lost \in BOOLEAN
  /\ Fits(store.history) /\ OneEach(exported.history)

(* One call at work, whose copy is the diary with the change it is making. *)
BodiesInv == TypeInv /\ OneAtWork /\ StoredInv /\ \A c \in Call : BodyInv(c)

(* A step of c that keeps the invariant: the others do not move, and who   *)
(* writes is at work alone.                                                *)
Does(c) ==
  /\ Apart(c) /\ TypeInv' /\ StoredInv' /\ BodyInv(c)'
  /\ store' = store \/ AtWork(c)
  /\ now' = now
  /\ AtWork(c)' => \A b \in Call \ {c} : ~AtWork(b)

(* A call that does not move, over a diary that does not change. *)
LEMMA BodyInvStays ==
  ASSUME NEW c \in Call, BodyInv(c), store' = store, now' = now,
         pc'[c] = pc[c], op'[c] = op[c], local'[c] = local[c], at'[c] = at[c],
         todo'[c] = todo[c], claimed'[c] = claimed[c], outcome'[c] = outcome[c]
  PROVE  BodyInv(c)'
<1>1. SignatureIn(c)' = SignatureIn(c) /\ Named(c)' = Named(c)
  BY DEF SignatureIn, Named
<1>2. Claims(c)' <=> Claims(c)
  BY <1>1 DEF Claims
<1>3. ClaimStage(c)'
  BY <1>1, <1>2 DEF BodyInv, ClaimStage
<1>4. RunStage(c)'
  BY <1>1 DEF BodyInv, RunStage
<1>5. SaveStage(c)'
  BY <1>1 DEF BodyInv, SaveStage
<1> QED BY <1>3, <1>4, <1>5 DEF BodyInv

(* Such a step keeps the invariant. *)
LEMMA DoesKeep ==
  ASSUME BodiesInv, NEW c \in Call, Does(c)
  PROVE  BodiesInv'
<1>1. \A b \in Call \ {c} : AtWork(b)' <=> AtWork(b)
  BY DEF Does, Apart, AtWork
<1>2. OneAtWork'
  <2>1. AtWork(c)' => \A b \in Call \ {c} : ~AtWork(b)
    BY DEF Does
  <2> QED BY <1>1, <2>1 DEF OneAtWork, BodiesInv
<1>3. ASSUME NEW b \in Call \ {c} PROVE BodyInv(b)'
  <2>1. /\ pc'[b] = pc[b] /\ op'[b] = op[b] /\ local'[b] = local[b] /\ at'[b] = at[b]
        /\ todo'[b] = todo[b] /\ claimed'[b] = claimed[b] /\ outcome'[b] = outcome[b] /\ now' = now
    BY DEF Does, Apart
  <2>2. BodyInv(b)
    BY DEF BodiesInv
  <2>3. CASE store' = store
    BY <2>1, <2>2, <2>3, BodyInvStays
  <2>4. CASE store' # store
    <3>1. ~AtWork(b)
      BY <2>4 DEF Does, BodiesInv, OneAtWork
    <3>2. pc[b] \in {"idle", "waiting", "done", "crashed"}
      BY <3>1 DEF BodiesInv, TypeInv, Where, AtWork
    <3> QED BY <2>1, <2>2, <3>2 DEF BodyInv, ClaimStage, RunStage, SaveStage, ExecutingAt
  <2> QED BY <2>3, <2>4
<1> QED BY <1>2, <1>3 DEF Does, BodiesInv

(* The types of what a call works with. *)
LEMMA WorkerIs ==
  ASSUME BodiesInv, NEW c \in Call, pc[c] \notin {"idle", "done"}
  PROVE  /\ op[c] \in Op /\ op[c].kind \in LockedKinds /\ op[c] \in OpRecord
         /\ op[c].titles \in Seq(Title) /\ Ttl(op[c]) \in Ttls
         /\ BodyInv(c) /\ local[c] \in AgentState /\ at[c] \in 0 .. MaxTime
         /\ todo[c] \in Seq(Signature) /\ claimed[c] \in SUBSET Signature
         /\ now \in 0 .. MaxTime
<1>1. BodyInv(c) /\ op[c] \in Op /\ op[c].kind \in LockedKinds
  BY DEF BodiesInv, BodyInv
<1>2. op[c] \in OpRecord
  BY <1>1, OpAssumption
<1>3. op[c].titles \in Seq(Title) /\ Ttl(op[c]) \in Ttls
  BY <1>2, TimeAssumption DEF OpRecord, Ttl
<1> QED BY <1>1, <1>2, <1>3 DEF BodiesInv, TypeInv

(* The one title of an operation that has one. *)
LEMMA TitleIs ==
  ASSUME BodiesInv, NEW c \in Call, pc[c] \notin {"idle", "done"}, op[c].kind \in OneTitleKinds
  PROVE  /\ SignatureIn(c) \in Signature /\ Len(op[c].titles) = 1
<1>1. op[c].titles \in Seq(Title) /\ Len(op[c].titles) = 1
  BY WorkerIs, OpAssumption
<1>2. op[c].titles[1] \in Title
  BY <1>1
<1> QED BY <1>1, <1>2, SignatureAssumption DEF SignatureIn

(* The body ends ... *)
LEMMA SettleDoes ==
  ASSUME BodiesInv, NEW c \in Call, pc[c] \in Body,
         NEW how \in {"returned", "threw"}, NEW v \in Value \cup {Undefined}, Settle(c, how, v),
         claimed' = claimed \/ claimed' = [claimed EXCEPT ![c] = {}],
         UNCHANGED <<now, op, exported>>, lost' \in BOOLEAN,
         store' \in AgentState, Fits(store'.history)
  PROVE  Does(c)
<1>1. AtWork(c) /\ pc[c] \notin {"idle", "done"}
  BY DEF AtWork, Body, Steps
<1>2. op[c] \in Op /\ op[c].kind \in LockedKinds
  BY <1>1, WorkerIs
<1>3. TypeInv
  BY DEF BodiesInv
<1>4. /\ claimed' \in [Call -> SUBSET Signature] /\ \A b \in Call \ {c} : claimed'[b] = claimed[b]
  BY <1>3 DEF TypeInv
<1>5. pc' \in [Call -> Where] /\ pc'[c] = "leaving" /\ outcome'[c] \in {"returned", "threw"}
  <2>1. pc' = [pc EXCEPT ![c] = "leaving"] /\ outcome'[c] = how
    BY <1>3, SettleStep
  <2> QED BY <1>3, <2>1 DEF TypeInv, Where
<1>6. TypeInv' /\ Apart(c)
  BY <1>3, <1>4, <1>5, SettleStep DEF TypeInv, Apart
<1>7. BodyInv(c)'
  BY <1>2, <1>5 DEF BodyInv, ClaimStage, RunStage, SaveStage, ExecutingAt
<1>8. StoredInv'
  BY DEF BodiesInv, StoredInv
<1>9. \A b \in Call \ {c} : ~AtWork(b)
  BY <1>1 DEF BodiesInv, OneAtWork
<1> QED BY <1>1, <1>6, <1>7, <1>8, <1>9 DEF Does

(* ... or goes on: to be shown is what is so of the next stage. *)
LEMMA GoDoes ==
  ASSUME BodiesInv, NEW c \in Call, pc[c] \in Body, NEW l \in Where, Goto(c, l),
         NEW x \in AgentState, local' = [local EXCEPT ![c] = x],
         NEW a \in 0 .. MaxTime, at' = [at EXCEPT ![c] = a],
         NEW td \in Seq(Signature), todo' = [todo EXCEPT ![c] = td],
         NEW cl \in SUBSET Signature, claimed' = [claimed EXCEPT ![c] = cl],
         UNCHANGED <<now, exported, op, outcome, result>>,
         lost' \in BOOLEAN, store' \in AgentState, Fits(store'.history), BodyInv(c)'
  PROVE  Does(c)
<1>1. AtWork(c)
  BY DEF AtWork, Body, Steps
<1>2. TypeInv' /\ Apart(c)
  BY DEF BodiesInv, TypeInv, Goto, Apart
<1>3. StoredInv'
  BY DEF BodiesInv, StoredInv
<1>4. \A b \in Call \ {c} : ~AtWork(b)
  BY <1>1 DEF BodiesInv, OneAtWork
<1> QED BY <1>1, <1>2, <1>3, <1>4 DEF Does

-----------------------------------------------------------------------------
(* The steps of a claim *)

(* What is read is what is stored. *)
LEMMA StoreRead ==
  ASSUME NoBlindReads, NEW st \in Readings PROVE st = store
BY DEF NoBlindReads, Readings

(* A call that goes on to another stage of its body. *)
LEMMA Going ==
  ASSUME BodiesInv, NEW c \in Call, pc[c] \in Body, NEW l \in Steps, Goto(c, l), op' = op
  PROVE  /\ l \in Where /\ pc'[c] = l /\ pc[c] \notin {"idle", "done"}
         /\ op'[c] = op[c] /\ op[c] \in Op /\ op[c].kind \in LockedKinds
         /\ SignatureIn(c)' = SignatureIn(c) /\ Named(c)' = Named(c)
         /\ store \in AgentState /\ Fits(store.history) /\ OneEach(store.history)
         /\ exported \in AgentState /\ OneEach(exported.history) /\ lost \in BOOLEAN
<1>1. pc[c] \notin {"idle", "done"}
  BY DEF Body, Steps
<1>2. l \in Where /\ pc'[c] = l
  BY DEF Where, Body, Goto, BodiesInv, TypeInv
<1>3. op'[c] = op[c] /\ op[c] \in Op /\ op[c].kind \in LockedKinds
  BY <1>1, WorkerIs
<1>4. SignatureIn(c)' = SignatureIn(c) /\ Named(c)' = Named(c)
  BY DEF SignatureIn, Named
<1>5. store \in AgentState /\ Fits(store.history) /\ OneEach(store.history)
  BY DEF BodiesInv, StoredInv, Fits
<1>6. exported \in AgentState /\ OneEach(exported.history) /\ lost \in BOOLEAN
  BY DEF BodiesInv, StoredInv
<1> QED BY <1>1, <1>2, <1>3, <1>4, <1>5, <1>6

(* What is left alone is as it was, for c as well. *)
LEMMA SameTodo ==
  ASSUME BodiesInv, NEW c \in Call
  PROVE  /\ local' = local => local' = [local EXCEPT ![c] = local[c]]
         /\ at' = at => at' = [at EXCEPT ![c] = at[c]]
         /\ todo' = todo => todo' = [todo EXCEPT ![c] = todo[c]]
         /\ claimed' = claimed => claimed' = [claimed EXCEPT ![c] = claimed[c]]
BY DEF BodiesInv, TypeInv

(* The copy of a claimer is what is stored. *)
LEMMA ReadForClaimDoes ==
  ASSUME BodiesInv, NoBlindReads, NEW c \in Call, ReadForClaim(c)
  PROVE  Does(c)
<1> DEFINE td == [i \in DOMAIN op[c].titles |-> SignatureOf[op[c].titles[i]]]
<1>1. pc[c] = "locked" /\ pc[c] \in Body /\ pc[c] \notin {"idle", "done"} /\ op[c].kind \in ClaimKinds
  BY DEF ReadForClaim, Body
<1>2. Goto(c, "claiming") /\ "claiming" \in Steps /\ op' = op
  BY DEF ReadForClaim, Steps
<1>3. local' = [local EXCEPT ![c] = store] /\ lost' \in BOOLEAN
  <2>1. PICK st \in Readings : ReadDiary(st) /\ local' = [local EXCEPT ![c] = st]
    BY DEF ReadForClaim
  <2>2. st = store
    BY StoreRead
  <2> QED BY <2>1, <2>2 DEF ReadDiary, BodiesInv, StoredInv
<1>4. /\ at' = [at EXCEPT ![c] = now] /\ todo' = [todo EXCEPT ![c] = td]
      /\ UNCHANGED <<store, now, exported, claimed, outcome, result>>
  BY DEF ReadForClaim, stored, answer
<1>5. /\ op[c].titles \in Seq(Title) /\ now \in 0 .. MaxTime /\ claimed[c] = {}
      /\ claimed[c] \in SUBSET Signature
  BY <1>1, WorkerIs DEF BodyInv
<1>6. td \in Seq(Signature)
  <2>1. DOMAIN op[c].titles = 1 .. Len(op[c].titles) /\ Len(op[c].titles) \in Nat
    BY <1>5, LenProperties
  <2>2. \A i \in 1 .. Len(op[c].titles) : SignatureOf[op[c].titles[i]] \in Signature
    BY <1>5, ElementOfSeq, SignatureAssumption
  <2> QED BY <2>1, <2>2, IsASeq
<1>7. op[c].kind = "executeOnce" => \A i \in DOMAIN td : td[i] = SignatureIn(c)
  <2>1. op[c].kind = "executeOnce" => Len(op[c].titles) = 1
    BY <1>1, TitleIs DEF OneTitleKinds
  <2>2. DOMAIN op[c].titles = 1 .. Len(op[c].titles)
    BY <1>5, LenProperties
  <2> QED BY <2>1, <2>2 DEF SignatureIn
<1> HIDE DEF td
<1>8. /\ pc'[c] = "claiming" /\ "claiming" \in Where
      /\ op'[c] = op[c] /\ op[c] \in Op /\ op[c].kind \in LockedKinds
      /\ SignatureIn(c)' = SignatureIn(c)
      /\ store \in AgentState /\ Fits(store.history) /\ OneEach(store.history)
  BY <1>1, <1>2, Going
<1>9. /\ local'[c] = store /\ at'[c] = now /\ todo'[c] = td /\ claimed'[c] = {}
  BY <1>3, <1>4, <1>5 DEF BodiesInv, TypeInv
<1>10. Claims(c)'
  <2>1. Copy(store'.history, local'[c].history, at'[c], claimed'[c])
    BY <1>4, <1>8, <1>9, CopyAtFirst
  <2>2. now <= now'
    BY <1>4, <1>5
  <2> QED BY <1>1, <1>7, <1>8, <1>9, <2>1, <2>2 DEF Claims
<1>11. BodyInv(c)'
  BY <1>8, <1>10 DEF BodyInv, ClaimStage, RunStage, SaveStage, ExecutingAt
<1>12. claimed' = [claimed EXCEPT ![c] = claimed[c]]
  BY <1>4, SameTodo
<1>13. store' \in AgentState /\ Fits(store'.history)
  BY <1>4, <1>8
<1> QED BY <1>1, <1>2, <1>3, <1>4, <1>5, <1>6, <1>8, <1>11, <1>12, <1>13, GoDoes

(* A live record: the answer is its result. *)
LEMMA SkipLiveDoes ==
  ASSUME BodiesInv, NEW c \in Call, SkipLive(c)
  PROVE  Does(c)
<1>1. /\ pc[c] = "claiming" /\ pc[c] \in Body /\ pc[c] \notin {"idle", "done"} /\ todo[c] # <<>>
      /\ Live(local[c].history, Head(todo[c]), at[c])
  BY DEF SkipLive, Body, Steps
<1>2. UNCHANGED <<store, now, exported, lost, op, claimed>>
  BY DEF SkipLive, shared, stored
<1>3. store' \in AgentState /\ Fits(store'.history) /\ lost' \in BOOLEAN
  BY <1>2 DEF BodiesInv, StoredInv
<1>4. /\ todo[c] \in Seq(Signature) /\ Claims(c) /\ claimed[c] \in SUBSET Signature
      /\ local[c] \in AgentState /\ at[c] \in 0 .. MaxTime /\ now \in 0 .. MaxTime
      /\ op[c] \in Op /\ op[c].kind \in LockedKinds
  BY <1>1, WorkerIs DEF BodyInv, ClaimStage
<1>5. CASE op[c].kind = "batchClaimTasks"
  <2>1. /\ todo' = [todo EXCEPT ![c] = Tail(todo[c])] /\ UNCHANGED <<pc, local, at, outcome, result>>
    BY <1>5 DEF SkipLive, answer
  <2>2. Tail(todo[c]) \in Seq(Signature)
    BY <1>1, <1>4
  <2>3. Goto(c, "claiming") /\ "claiming" \in Where
    BY <1>1, <2>1 DEF Goto, BodiesInv, TypeInv, Where, Body, Steps
  <2>4. /\ local' = [local EXCEPT ![c] = local[c]] /\ at' = [at EXCEPT ![c] = at[c]]
        /\ claimed' = [claimed EXCEPT ![c] = claimed[c]]
    BY <1>2, <2>1, SameTodo
  <2>5. Claims(c)'
    BY <1>2, <1>4, <1>5, <2>1 DEF Claims
  <2>6. BodyInv(c)'
    BY <1>1, <1>2, <1>4, <2>1, <2>5 DEF BodyInv, ClaimStage, RunStage, SaveStage, ExecutingAt
  <2> QED BY <1>1, <1>2, <1>3, <1>4, <2>1, <2>2, <2>3, <2>4, <2>6, GoDoes
<1>6. CASE op[c].kind # "batchClaimTasks"
  <2>1. PICK v : Settle(c, "returned", v) /\
                 v = IF op[c].kind = "executeOnce"
                     THEN Find(local[c].history, Head(todo[c])).result ELSE Undefined
    BY <1>6 DEF SkipLive
  <2>2. v \in Value \cup {Undefined}
    <3>1. OneEach(local[c].history) /\ Has(local[c].history, Head(todo[c]))
      BY <1>1, <1>4 DEF Claims, Copy, Live
    <3>2. Find(local[c].history, Head(todo[c])) \in Record
      BY <3>1, FoundAt
    <3> QED BY <2>1, <3>2 DEF Record
  <2> QED BY <1>1, <1>2, <1>3, <2>1, <2>2, SettleDoes
<1> QED BY <1>5, <1>6

(* An expired record is found in the copy. *)
LEMMA NotifyExpiredDoes ==
  ASSUME BodiesInv, NEW c \in Call, NotifyExpired(c)
  PROVE  Does(c)
<1>1. /\ pc[c] = "claiming" /\ pc[c] \in Body /\ pc[c] \notin {"idle", "done"} /\ todo[c] # <<>>
      /\ Has(local[c].history, Head(todo[c]))
      /\ IsExpired(Find(local[c].history, Head(todo[c])), at[c])
  BY DEF NotifyExpired, Body, Steps, Live
<1>2. Goto(c, "notifying") /\ "notifying" \in Steps
  BY DEF NotifyExpired, Steps
<1>3. UNCHANGED <<store, now, exported, lost, op, local, at, todo, claimed, outcome, result>>
  BY DEF NotifyExpired, shared, stored, answer
<1>4. /\ todo[c] \in Seq(Signature) /\ Claims(c) /\ claimed[c] \in SUBSET Signature
      /\ local[c] \in AgentState /\ at[c] \in 0 .. MaxTime
  BY <1>1, WorkerIs DEF BodyInv, ClaimStage
<1>5. /\ pc'[c] = "notifying" /\ "notifying" \in Where
      /\ op'[c] = op[c] /\ op[c] \in Op /\ op[c].kind \in LockedKinds
      /\ store \in AgentState /\ Fits(store.history) /\ lost \in BOOLEAN
  BY <1>1, <1>2, <1>3, Going
<1>6. Claims(c)'
  BY <1>3, <1>4 DEF Claims, SignatureIn
<1>7. BodyInv(c)'
  BY <1>1, <1>3, <1>5, <1>6 DEF BodyInv, ClaimStage, RunStage, SaveStage, ExecutingAt
<1>8. /\ local' = [local EXCEPT ![c] = local[c]] /\ at' = [at EXCEPT ![c] = at[c]]
      /\ todo' = [todo EXCEPT ![c] = todo[c]] /\ claimed' = [claimed EXCEPT ![c] = claimed[c]]
  BY <1>3, SameTodo
<1> QED BY <1>1, <1>2, <1>3, <1>4, <1>5, <1>7, <1>8, GoDoes

(* The state of a claim. *)
LEMMA RecountIs ==
  ASSUME NEW st \in AgentState, NEW h \in Seq(Record)
  PROVE  /\ [st EXCEPT !.history = h, !.runCount = @ + 1] \in AgentState
         /\ [st EXCEPT !.history = h, !.runCount = @ + 1].history = h
<1>1. st.runCount + 1 \in Nat
  BY DEF AgentState
<1>2. [st EXCEPT !.history = h, !.runCount = @ + 1].history = h
  BY DEF AgentState
<1>3. [st EXCEPT !.history = h, !.runCount = @ + 1] \in AgentState
  BY <1>1 DEF AgentState
<1> QED BY <1>2, <1>3

(* A claim over a copy without the task ... *)
LEMMA ClaimDoes ==
  ASSUME BodiesInv, NEW c \in Call, pc[c] \in {"claiming", "notifying"}, todo[c] # <<>>,
         NEW h, Copy(store.history, h, at[c], claimed[c]), ~Has(h, Head(todo[c])), Claim(c, h)
  PROVE  Does(c)
<1> DEFINE s == Head(todo[c])
           g == <<Pending(s, at[c], Ttl(op[c]))>> \o h
           x == [local[c] EXCEPT !.history = g, !.runCount = @ + 1]
<1>1. /\ pc[c] \in Body /\ pc[c] \notin {"idle", "done"}
  BY DEF Body, Steps
<1>2. Goto(c, "claiming") /\ "claiming" \in Steps
  BY DEF Claim, Steps
<1>3. /\ UNCHANGED <<store, now, exported, lost, op, at, outcome, result>>
      /\ todo' = [todo EXCEPT ![c] = Tail(todo[c])]
      /\ claimed' = [claimed EXCEPT ![c] = claimed[c] \cup {s}]
  BY DEF Claim, shared, stored, answer
<1>4. /\ todo[c] \in Seq(Signature) /\ claimed[c] \in SUBSET Signature
      /\ local[c] \in AgentState /\ at[c] \in Nat /\ at[c] \in 0 .. MaxTime /\ Ttl(op[c]) \in Ttls
  BY <1>1, WorkerIs
<1>5. Claims(c)
  BY <1>1, WorkerIs DEF BodyInv, ClaimStage
<1>6. s \in Signature /\ Tail(todo[c]) \in Seq(Signature)
  BY <1>4
<1>7. /\ pc'[c] = "claiming" /\ "claiming" \in Where
      /\ op'[c] = op[c] /\ op[c] \in Op /\ op[c].kind \in LockedKinds
      /\ SignatureIn(c)' = SignatureIn(c)
      /\ store \in AgentState /\ Fits(store.history) /\ lost \in BOOLEAN
  BY <1>1, <1>2, <1>3, Going
<1>8. Copy(store.history, g, at[c], claimed[c] \cup {s})
  BY <1>4, <1>6, CopyClaims
<1>9. g \in Seq(Record)
  BY <1>8, Each DEF Copy
<1>10. local' = [local EXCEPT ![c] = x]
  BY DEF Claim
<1> HIDE DEF g
<1>11. x \in AgentState /\ x.history = g
  BY <1>4, <1>9, RecountIs
<1> HIDE DEF x
<1>12. /\ local'[c] = x /\ at'[c] = at[c] /\ todo'[c] = Tail(todo[c])
       /\ claimed'[c] = claimed[c] \cup {s}
  BY <1>3, <1>10 DEF BodiesInv, TypeInv
<1>13. op[c].kind = "executeOnce" =>
         /\ claimed[c] \cup {s} \subseteq {SignatureIn(c)}
         /\ \A i \in DOMAIN Tail(todo[c]) : Tail(todo[c])[i] = SignatureIn(c)
  <2> SUFFICES ASSUME op[c].kind = "executeOnce"
               PROVE  /\ claimed[c] \cup {s} \subseteq {SignatureIn(c)}
                      /\ \A i \in DOMAIN Tail(todo[c]) : Tail(todo[c])[i] = SignatureIn(c)
    OBVIOUS
  <2>1. claimed[c] \subseteq {SignatureIn(c)} /\ \A i \in DOMAIN todo[c] : todo[c][i] = SignatureIn(c)
    BY <1>5 DEF Claims
  <2>2. 1 \in DOMAIN todo[c] /\ s = todo[c][1]
    BY <1>4
  <2>3. \A i \in DOMAIN Tail(todo[c]) : i + 1 \in DOMAIN todo[c] /\ Tail(todo[c])[i] = todo[c][i + 1]
    BY <1>4
  <2> QED BY <2>1, <2>2, <2>3
<1>14. Claims(c)'
  BY <1>3, <1>5, <1>7, <1>8, <1>11, <1>12, <1>13 DEF Claims
<1>15. BodyInv(c)'
  BY <1>7, <1>14 DEF BodyInv, ClaimStage, RunStage, SaveStage, ExecutingAt
<1>16. at' = [at EXCEPT ![c] = at[c]]
  BY <1>3, SameTodo
<1>17. claimed[c] \cup {s} \in SUBSET Signature
  BY <1>4, <1>6
<1> QED BY <1>1, <1>2, <1>3, <1>4, <1>6, <1>7, <1>10, <1>11, <1>15, <1>16, <1>17, GoDoes

(* ... which it never had ... *)
LEMMA ClaimNewDoes ==
  ASSUME BodiesInv, NEW c \in Call, ClaimNew(c)
  PROVE  Does(c)
<1>1. /\ pc[c] = "claiming" /\ pc[c] \notin {"idle", "done"} /\ todo[c] # <<>>
      /\ ~Has(local[c].history, Head(todo[c])) /\ Claim(c, local[c].history)
  BY DEF ClaimNew
<1>2. Copy(store.history, local[c].history, at[c], claimed[c])
  BY <1>1, WorkerIs DEF BodyInv, ClaimStage, Claims
<1> QED BY <1>1, <1>2, ClaimDoes

(* ... or has no more. *)
LEMMA ReplaceExpiredDoes ==
  ASSUME BodiesInv, NEW c \in Call, ReplaceExpired(c)
  PROVE  Does(c)
<1> DEFINE h == local[c].history
           k == IndexOf(h, Head(todo[c]))
           g == RemoveAt(h, k)
<1>1. pc[c] = "notifying" /\ pc[c] \notin {"idle", "done"} /\ Claim(c, g)
  BY DEF ReplaceExpired
<1>2. /\ Copy(store.history, h, at[c], claimed[c]) /\ todo[c] # <<>>
      /\ Has(h, Head(todo[c])) /\ IsExpired(Find(h, Head(todo[c])), at[c])
  BY <1>1, WorkerIs DEF BodyInv, ClaimStage, Claims
<1>3. k \in DOMAIN h /\ IsExpired(h[k], at[c]) /\ h[k].signature = Head(todo[c])
  <2>1. OneEach(h)
    BY <1>2 DEF Copy
  <2> HIDE DEF h
  <2> QED BY <1>2, <2>1, FoundAt
<1>4. Copy(store.history, g, at[c], claimed[c]) /\ ~Has(g, Head(todo[c]))
  <2> HIDE DEF h, k
  <2> QED BY <1>2, <1>3, CopyWithout
<1> HIDE DEF g
<1> QED BY <1>1, <1>2, <1>4, ClaimDoes

(* The claims are ready to be written. *)
LEMMA EndOfClaimsDoes ==
  ASSUME BodiesInv, NEW c \in Call, EndOfClaims(c)
  PROVE  Does(c)
<1> DEFINE g == Slice(local[c].history)
           w == WithHistory(local[c], g)
           x == [w EXCEPT !.lastRun = at[c]]
<1>1. /\ pc[c] = "claiming" /\ pc[c] \in Body /\ pc[c] \notin {"idle", "done"}
  BY DEF EndOfClaims, Body, Steps
<1>2. UNCHANGED <<store, now, exported, lost, op, claimed>>
  BY DEF EndOfClaims, shared, stored
<1>3. store' \in AgentState /\ Fits(store'.history) /\ lost' \in BOOLEAN /\ OneEach(store.history)
  BY <1>2 DEF BodiesInv, StoredInv, Fits
<1>4. /\ todo[c] \in Seq(Signature) /\ Claims(c) /\ claimed[c] \in SUBSET Signature
      /\ local[c] \in AgentState /\ at[c] \in 0 .. MaxTime /\ at[c] \in Nat
  BY <1>1, WorkerIs DEF BodyInv, ClaimStage
<1>5. CASE claimed[c] = {}
  <2>1. Settle(c, "returned", Undefined)
    BY <1>5 DEF EndOfClaims
  <2> QED BY <1>1, <1>2, <1>3, <2>1, SettleDoes
<1>6. CASE claimed[c] # {}
  <2>1. /\ local' = [local EXCEPT ![c] = x] /\ Goto(c, "saveClaim") /\ "saveClaim" \in Steps
        /\ UNCHANGED <<at, todo, outcome, result>>
    BY <1>6 DEF EndOfClaims, answer, Steps
  <2>2. Fits(g) /\ ClaimsOf(store.history, g, at[c], claimed[c]) /\ KeepsAll(store.history, g, at[c], {})
    BY <1>3, <1>4, CopyWritten DEF Claims
  <2>3. g \in Seq(Record)
    BY <2>2, Each DEF Fits
  <2> HIDE DEF g
  <2>4. w \in AgentState /\ w.history = g
    BY <1>4, <2>3, CopyIs
  <2> HIDE DEF w
  <2>5. x \in AgentState /\ x.history = g
    BY <1>4, <2>3, <2>4, CopyIs
  <2> HIDE DEF x
  <2>6. /\ pc'[c] = "saveClaim" /\ "saveClaim" \in Where
        /\ op'[c] = op[c] /\ op[c] \in Op /\ op[c].kind \in LockedKinds
        /\ SignatureIn(c)' = SignatureIn(c)
    BY <1>1, <1>2, <2>1, Going
  <2>7. local'[c] = x /\ at'[c] = at[c] /\ claimed'[c] = claimed[c] /\ store' = store /\ now' = now
    BY <1>2, <2>1 DEF BodiesInv, TypeInv
  <2>8. op[c].kind = "executeOnce" => SignatureIn(c) \in claimed[c]
    BY <1>4, <1>6 DEF Claims
  <2>9. op[c].kind \in ClaimKinds /\ at[c] <= now
    BY <1>4 DEF Claims
  <2>10. BodyInv(c)'
    BY <2>2, <2>5, <2>6, <2>7, <2>8, <2>9 DEF BodyInv, ClaimStage, RunStage, SaveStage, ExecutingAt
  <2>11. /\ at' = [at EXCEPT ![c] = at[c]]
         /\ todo' = [todo EXCEPT ![c] = todo[c]] /\ claimed' = [claimed EXCEPT ![c] = claimed[c]]
    BY <1>2, <2>1, SameTodo
  <2> QED BY <1>1, <1>2, <1>3, <1>4, <2>1, <2>5, <2>6, <2>10, <2>11, GoDoes
<1> QED BY <1>5, <1>6

(* They are written: all records of the claimed tasks are pending. *)
LEMMA SaveClaimDoes ==
  ASSUME BodiesInv, NEW c \in Call, SaveClaim(c)
  PROVE  Does(c)
<1>1. /\ pc[c] = "saveClaim" /\ pc[c] \in Body /\ pc[c] \notin {"idle", "done"}
  BY DEF SaveClaim, Body, Steps
<1>2. store' = local[c] /\ UNCHANGED <<now, exported, lost, op, claimed>>
  BY DEF SaveClaim
<1>3. /\ todo[c] \in Seq(Signature) /\ claimed[c] \in SUBSET Signature
      /\ local[c] \in AgentState /\ at[c] \in 0 .. MaxTime
  BY <1>1, WorkerIs
<1>4. /\ Fits(local[c].history) /\ ClaimsOf(store.history, local[c].history, at[c], claimed[c])
      /\ op[c].kind = "executeOnce" => SignatureIn(c) \in claimed[c]
  BY <1>1, WorkerIs DEF BodyInv, ClaimStage
<1>5. store' \in AgentState /\ Fits(store'.history) /\ lost' \in BOOLEAN
  BY <1>2, <1>3, <1>4 DEF BodiesInv, StoredInv
<1>6. CASE op[c].kind # "executeOnce"
  <2>1. Settle(c, "returned", Undefined)
    BY <1>6 DEF SaveClaim
  <2> QED BY <1>1, <1>2, <1>5, <2>1, SettleDoes
<1>7. CASE op[c].kind = "executeOnce"
  <2>1. /\ local' = [local EXCEPT ![c] = EmptyState] /\ at' = [at EXCEPT ![c] = 0]
        /\ Goto(c, "running") /\ "running" \in Steps /\ UNCHANGED <<todo, outcome, result>>
    BY <1>7 DEF SaveClaim, answer, Steps
  <2>2. EmptyState \in AgentState /\ 0 \in 0 .. MaxTime
    BY Data, TimeAssumption
  <2>3. /\ pc'[c] = "running" /\ "running" \in Where
        /\ op'[c] = op[c] /\ op[c] \in Op /\ op[c].kind \in LockedKinds
        /\ SignatureIn(c)' = SignatureIn(c)
    BY <1>1, <1>2, <2>1, Going
  <2>4. \A i \in DOMAIN store'.history :
          store'.history[i].signature = SignatureIn(c) => store'.history[i].status = "pending"
    BY <1>2, <1>4, <1>7 DEF ClaimsOf
  <2>5. BodyInv(c)'
    BY <1>7, <2>3, <2>4 DEF BodyInv, ClaimStage, RunStage, SaveStage, ExecutingAt
  <2>6. /\ todo' = [todo EXCEPT ![c] = todo[c]] /\ claimed' = [claimed EXCEPT ![c] = claimed[c]]
    BY <1>2, <2>1, SameTodo
  <2> QED BY <1>1, <1>2, <1>3, <1>5, <2>1, <2>2, <2>3, <2>5, <2>6, GoDoes
<1> QED BY <1>6, <1>7

-----------------------------------------------------------------------------
(* executeOnce after its claim, and the other operations *)

(* A record that is completed or failed is a record of the same task. *)
LEMMA SettledStays ==
  ASSUME NEW r \in Record, NEW v \in Value, NEW t \in 0 .. MaxTime, NEW ttl \in Ttls
  PROVE  /\ Completed(r, v, t, ttl) \in Record /\ Completed(r, v, t, ttl).signature = r.signature
         /\ Failed(r, t) \in Record /\ Failed(r, t).signature = r.signature
<1>1. t \in Nat
  BY TimeAssumption
<1>2. Failed(r, t) \in Record /\ Failed(r, t).signature = r.signature
  BY <1>1 DEF Failed, Record
<1>3. CASE ttl = NoTtl
  <2>1. Completed(r, v, t, ttl) = [r EXCEPT !.result = v, !.status = "done", !.time = t, !.ttl = r.ttl]
    BY <1>3 DEF Completed
  <2> QED BY <1>1, <1>2, <2>1 DEF Record
<1>4. CASE ttl # NoTtl
  <2>1. Completed(r, v, t, ttl) = [r EXCEPT !.result = v, !.status = "done", !.time = t, !.ttl = ttl]
    BY <1>4 DEF Completed
  <2> QED BY <1>1, <1>2, <2>1 DEF Record
<1> QED BY <1>3, <1>4

(* The state with it. *)
LEMMA RewriteIs ==
  ASSUME NEW st \in AgentState, Fits(st.history), NEW s, Has(st.history, s),
         NEW k, k = IndexOf(st.history, s), NEW r \in Record, r.signature = s,
         NEW t \in 0 .. MaxTime, NEW x,
         x = [st EXCEPT !.history[k] = r] \/ x = [st EXCEPT !.history[k] = r, !.lastRun = t], NEW u
  PROVE  /\ x \in AgentState /\ Fits(x.history) /\ AddsNone(st.history, x.history)
         /\ KeepsAll(st.history, x.history, u, {s})
<1> DEFINE g == [st.history EXCEPT ![k] = r]
           a == [st EXCEPT !.history = g]
<1>1. Fits(g) /\ AddsNone(st.history, g) /\ KeepsAll(st.history, g, u, {s})
  BY RewrittenKeeps
<1>2. g \in Seq(Record)
  BY <1>1 DEF Fits, OneEach
<1>3. [st EXCEPT !.history[k] = r] = a
  BY DEF AgentState
<1>4. [st EXCEPT !.history[k] = r, !.lastRun = t] = [a EXCEPT !.lastRun = t]
  BY DEF AgentState
<1> HIDE DEF g
<1>5. a \in AgentState /\ a.history = g
  BY <1>2, CopyIs
<1> HIDE DEF a
<1>6. [a EXCEPT !.lastRun = t] \in AgentState /\ [a EXCEPT !.lastRun = t].history = g
  BY <1>2, <1>5, CopyIs
<1> QED BY <1>1, <1>3, <1>4, <1>5, <1>6

(* A changed diary is ready to be written ... *)
LEMMA ChangeDoes ==
  ASSUME BodiesInv, NEW c \in Call, pc[c] = "locked", op[c].kind \notin ClaimKinds,
         NEW x \in AgentState, Fits(x.history), local' = [local EXCEPT ![c] = x], Goto(c, "save"),
         UNCHANGED <<store, now, exported, op, at, claimed, outcome, result>>, lost' \in BOOLEAN,
         NEW td \in Seq(Signature), todo' = [todo EXCEPT ![c] = td],
         \A i \in DOMAIN td : ~Has(x.history, td[i]),
         op[c].kind \notin {"importHistory", "mergeHistory"} => AddsNone(store.history, x.history),
         op[c].kind \notin {"importHistory", "clearHistory"} =>
           KeepsAll(store.history, x.history, now, Named(c))
  PROVE  Does(c)
<1>1. pc[c] \in Body /\ pc[c] \notin {"idle", "done"} /\ "save" \in Steps
  BY DEF Body, Steps
<1>2. /\ pc'[c] = "save" /\ "save" \in Where
      /\ op'[c] = op[c] /\ op[c] \in Op /\ op[c].kind \in LockedKinds
      /\ Named(c)' = Named(c)
      /\ store \in AgentState /\ Fits(store.history)
  BY <1>1, Going
<1>3. /\ claimed[c] \in SUBSET Signature /\ at[c] \in 0 .. MaxTime
  BY <1>1, WorkerIs
<1>4. local'[c] = x /\ todo'[c] = td
  BY DEF BodiesInv, TypeInv
<1>5. SaveStage(c)'
  BY <1>2, <1>4 DEF SaveStage
<1>6. BodyInv(c)'
  BY <1>2, <1>5 DEF BodyInv, ClaimStage, RunStage, ExecutingAt
<1>7. /\ at' = [at EXCEPT ![c] = at[c]] /\ claimed' = [claimed EXCEPT ![c] = claimed[c]]
  BY SameTodo
<1> QED BY <1>1, <1>2, <1>3, <1>6, <1>7, GoDoes

(* ... with nothing to report ... *)
LEMMA PlainChangeDoes ==
  ASSUME BodiesInv, NEW c \in Call, pc[c] = "locked", op[c].kind \notin ClaimKinds,
         NEW x \in AgentState, Fits(x.history), Change(c, x), lost' \in BOOLEAN,
         op[c].kind \notin {"importHistory", "mergeHistory"} => AddsNone(store.history, x.history),
         op[c].kind \notin {"importHistory", "clearHistory"} =>
           KeepsAll(store.history, x.history, now, Named(c))
  PROVE  Does(c)
<1>1. /\ local' = [local EXCEPT ![c] = x] /\ Goto(c, "save")
      /\ UNCHANGED <<store, now, exported, op, at, todo, claimed, outcome, result>>
  BY DEF Change, stored, answer
<1>2. todo' = [todo EXCEPT ![c] = todo[c]]
  BY <1>1, SameTodo
<1>3. BodyInv(c) /\ todo[c] \in Seq(Signature)
  BY WorkerIs
<1>4. todo[c] = <<>>
  BY <1>3 DEF BodyInv
<1>5. \A i \in DOMAIN todo[c] : ~Has(x.history, todo[c][i])
  BY <1>4
<1> QED BY <1>1, <1>2, <1>3, <1>5, ChangeDoes

(* ... or there is nothing to change. *)
LEMMA LeaveDoes ==
  ASSUME BodiesInv, NEW c \in Call, pc[c] \in Body, NEW how \in {"returned", "threw"},
         Leave(c, how), lost' \in BOOLEAN
  PROVE  Does(c)
<1>1. Settle(c, how, Undefined) /\ UNCHANGED <<store, now, exported, op, claimed>>
  BY DEF Leave, stored
<1>2. store' \in AgentState /\ Fits(store'.history)
  BY <1>1 DEF BodiesInv, StoredInv
<1> QED BY <1>1, <1>2, SettleDoes

(* The function of executeOnce is over. *)
LEMMA ReturnsDoes ==
  ASSUME BodiesInv, NEW c \in Call, FnReturns(c) \/ FnThrows(c)
  PROVE  Does(c)
<1>1. pc[c] = "running" /\ pc[c] \in Body /\ pc[c] \notin {"idle", "done"}
  BY DEF FnReturns, FnThrows, Body, Steps
<1>2. PICK l \in {"ran", "failed"} : Goto(c, l)
  BY DEF FnReturns, FnThrows
<1>3. UNCHANGED <<store, now, exported, lost, op, local, at, todo, claimed, outcome, result>> /\ l \in Steps
  BY DEF FnReturns, FnThrows, shared, stored, answer, Steps
<1>4. /\ pc'[c] = l /\ l \in Where
      /\ op'[c] = op[c] /\ op[c] \in Op /\ op[c].kind \in LockedKinds
      /\ SignatureIn(c)' = SignatureIn(c)
      /\ store \in AgentState /\ Fits(store.history) /\ lost \in BOOLEAN
  BY <1>1, <1>2, <1>3, Going
<1>5. RunStage(c)
  BY <1>1, WorkerIs DEF BodyInv
<1>6. BodyInv(c)'
  BY <1>1, <1>2, <1>3, <1>4, <1>5 DEF BodyInv, ClaimStage, RunStage, SaveStage, ExecutingAt
<1>7. /\ local' = [local EXCEPT ![c] = local[c]] /\ at' = [at EXCEPT ![c] = at[c]]
      /\ todo' = [todo EXCEPT ![c] = todo[c]] /\ claimed' = [claimed EXCEPT ![c] = claimed[c]]
  BY <1>3, SameTodo
<1>8. /\ todo[c] \in Seq(Signature) /\ claimed[c] \in SUBSET Signature
      /\ local[c] \in AgentState /\ at[c] \in 0 .. MaxTime
  BY <1>1, WorkerIs
<1> QED BY <1>1, <1>2, <1>3, <1>4, <1>6, <1>7, <1>8, GoDoes

(* Its record, if still there, is completed or failed. *)
LEMMA RecordsDoes ==
  ASSUME BodiesInv, NoBlindReads, NEW c \in Call, RecordResult(c) \/ RecordFailure(c)
  PROVE  Does(c)
<1> DEFINE s == SignatureIn(c)
           k == IndexOf(store.history, s)
           done == Completed(store.history[k], Stringified(Returned(c)), now, Ttl(op[c]))
           failed == Failed(store.history[k], now)
<1>1. pc[c] \in {"ran", "failed"} /\ pc[c] \in Body /\ pc[c] \notin {"idle", "done"}
  BY DEF RecordResult, RecordFailure, Body, Steps
<1>2. UNCHANGED <<store, now, exported, op, claimed>>
  BY DEF RecordResult, RecordFailure, stored
<1>3. lost' \in BOOLEAN
  BY DEF RecordResult, RecordFailure, ReadDiary, BodiesInv, StoredInv
<1>4. store \in AgentState /\ Fits(store.history) /\ OneEach(store.history)
  BY DEF BodiesInv, StoredInv, Fits
<1>5. CASE ~Has(store.history, s)
  <2>1. \E how \in {"returned", "threw"}, v \in Value \cup {Undefined} : Settle(c, how, v)
    <3>1. CASE RecordResult(c)
      BY <1>5, <3>1, StoreRead, Data DEF RecordResult
    <3>2. CASE RecordFailure(c)
      BY <1>5, <3>2, StoreRead DEF RecordFailure
    <3> QED BY <3>1, <3>2
  <2> QED BY <1>1, <1>2, <1>3, <1>4, <2>1, SettleDoes
<1>6. CASE Has(store.history, s)
  <2>1. store.history[k] \in Record /\ store.history[k].signature = s
    BY <1>4, <1>6, FoundAt
  <2>2. /\ now \in 0 .. MaxTime /\ Ttl(op[c]) \in Ttls /\ Stringified(Returned(c)) \in Value
        /\ at[c] \in 0 .. MaxTime /\ todo[c] \in Seq(Signature) /\ claimed[c] \in SUBSET Signature
    BY <1>1, WorkerIs, Data
  <2>3. done \in Record /\ done.signature = s /\ failed \in Record /\ failed.signature = s
    BY <2>1, <2>2, SettledStays
  <2>4. \E l \in {"saveResult", "saveFailure"}, r \in Record : \E x :
          /\ r.signature = s /\ local' = [local EXCEPT ![c] = x] /\ Goto(c, l)
          /\ \/ x = [store EXCEPT !.history[k] = r]
             \/ x = [store EXCEPT !.history[k] = r, !.lastRun = now]
          /\ UNCHANGED <<at, todo, outcome, result>>
    <3>1. CASE RecordResult(c)
      <4>1. /\ local' = [local EXCEPT ![c] = [store EXCEPT !.history[k] = done, !.lastRun = now]]
            /\ Goto(c, "saveResult") /\ UNCHANGED <<at, todo, outcome, result>>
        BY <1>6, <3>1, StoreRead DEF RecordResult, answer
      <4> HIDE DEF done, k, s
      <4> QED BY <2>3, <4>1
    <3>2. CASE RecordFailure(c)
      <4>1. /\ local' = [local EXCEPT ![c] = [store EXCEPT !.history[k] = failed]]
            /\ Goto(c, "saveFailure") /\ UNCHANGED <<at, todo, outcome, result>>
        BY <1>6, <3>2, StoreRead DEF RecordFailure, answer
      <4> HIDE DEF failed, k, s
      <4> QED BY <2>3, <4>1
    <3> QED BY <3>1, <3>2
  <2> HIDE DEF done, failed
  <2>5. PICK l \in {"saveResult", "saveFailure"}, r \in Record : \E x :
          /\ r.signature = s /\ local' = [local EXCEPT ![c] = x] /\ Goto(c, l)
          /\ \/ x = [store EXCEPT !.history[k] = r]
             \/ x = [store EXCEPT !.history[k] = r, !.lastRun = now]
          /\ UNCHANGED <<at, todo, outcome, result>>
    BY <2>4
  <2>13. PICK x :
          /\ r.signature = s /\ local' = [local EXCEPT ![c] = x] /\ Goto(c, l)
          /\ \/ x = [store EXCEPT !.history[k] = r]
             \/ x = [store EXCEPT !.history[k] = r, !.lastRun = now]
          /\ UNCHANGED <<at, todo, outcome, result>>
    BY <2>5
  <2>6. /\ x \in AgentState /\ Fits(x.history) /\ AddsNone(store.history, x.history)
        /\ KeepsAll(store.history, x.history, now, {s})
    <3>1. /\ store \in AgentState /\ Fits(store.history) /\ Has(store.history, s)
          /\ k = IndexOf(store.history, s) /\ r.signature = s /\ now \in 0 .. MaxTime
      BY <1>4, <1>6, <2>2, <2>13
    <3>2. x = [store EXCEPT !.history[k] = r] \/ x = [store EXCEPT !.history[k] = r, !.lastRun = now]
      BY <2>13
    <3> HIDE DEF k, s
    <3>3. CASE x = [store EXCEPT !.history[k] = r]
      BY <3>1, <3>3, RewriteIs
    <3>4. CASE x = [store EXCEPT !.history[k] = r, !.lastRun = now]
      BY <3>1, <3>4, RewriteIs
    <3> QED BY <3>2, <3>3, <3>4
  <2>7. /\ pc'[c] = l /\ l \in Where
        /\ op'[c] = op[c] /\ op[c] \in Op /\ op[c].kind \in LockedKinds
        /\ SignatureIn(c)' = s
    <3>1. l \in Steps
      BY <2>13 DEF Steps
    <3> QED BY <1>1, <1>2, <2>13, <3>1, Going
  <2>8. RunStage(c)
    BY <1>1, WorkerIs DEF BodyInv
  <2>9. local'[c] = x
    BY <2>13 DEF BodiesInv, TypeInv
  <2>10. RunStage(c)'
    BY <1>1, <1>2, <2>13, <2>6, <2>7, <2>8, <2>9 DEF RunStage, ExecutingAt
  <2>11. BodyInv(c)'
    BY <2>13, <2>7, <2>10 DEF BodyInv, ClaimStage, SaveStage
  <2>12. /\ at' = [at EXCEPT ![c] = at[c]]
         /\ todo' = [todo EXCEPT ![c] = todo[c]] /\ claimed' = [claimed EXCEPT ![c] = claimed[c]]
    BY <1>2, <2>13, SameTodo
  <2> QED BY <1>1, <1>2, <1>3, <1>4, <2>2, <2>13, <2>6, <2>7, <2>11, <2>12, GoDoes
<1> QED BY <1>5, <1>6

(* That is written. *)
LEMMA SavesDoes ==
  ASSUME BodiesInv, NEW c \in Call, SaveResult(c) \/ SaveFailure(c)
  PROVE  Does(c)
<1>1. pc[c] \in {"saveResult", "saveFailure"} /\ pc[c] \in Body /\ pc[c] \notin {"idle", "done"}
  BY DEF SaveResult, SaveFailure, Body, Steps
<1>2. store' = local[c] /\ UNCHANGED <<now, exported, lost, op, claimed>>
  BY DEF SaveResult, SaveFailure
<1>3. store' \in AgentState /\ Fits(store'.history)
  BY <1>1, <1>2, WorkerIs DEF BodyInv, RunStage
<1>4. lost' \in BOOLEAN
  BY <1>2 DEF BodiesInv, StoredInv
<1>5. \E how \in {"returned", "threw"}, v \in Value \cup {Undefined} : Settle(c, how, v)
  BY Data DEF SaveResult, SaveFailure
<1> QED BY <1>1, <1>2, <1>3, <1>4, <1>5, SettleDoes

(* The state with another history. *)
LEMMA HistoryIs ==
  ASSUME NEW st \in AgentState, NEW h \in Seq(Record)
  PROVE  /\ WithHistory(st, h) \in AgentState /\ WithHistory(st, h).history = h
         /\ [st EXCEPT !.history = h] \in AgentState /\ [st EXCEPT !.history = h].history = h
<1>1. 0 \in 0 .. MaxTime
  BY TimeAssumption
<1> QED BY <1>1, CopyIs

(* writeTaskResult and failTask rewrite the record of their task. *)
LEMMA WritesDoes ==
  ASSUME BodiesInv, NoBlindReads, NEW c \in Call, WriteTaskResult(c) \/ FailTask(c)
  PROVE  Does(c)
<1> DEFINE s == SignatureIn(c)
           k == IndexOf(store.history, s)
           v == [by |-> c, form |-> "string"]
           done == Completed(store.history[k], v, now, Ttl(op[c]))
           failed == Failed(store.history[k], now)
<1>1. /\ pc[c] = "locked" /\ pc[c] \in Body /\ pc[c] \notin {"idle", "done"}
      /\ op[c].kind \in {"writeTaskResult", "failTask"} /\ op[c].kind \notin ClaimKinds
      /\ Named(c) = {s}
  BY DEF WriteTaskResult, FailTask, Starts, Body, ClaimKinds, Named
<1>2. lost' \in BOOLEAN
  BY DEF WriteTaskResult, FailTask, ReadDiary, BodiesInv, StoredInv
<1>3. store \in AgentState /\ Fits(store.history) /\ OneEach(store.history)
  BY DEF BodiesInv, StoredInv, Fits
<1>4. CASE ~Has(store.history, s)
  <2>1. Leave(c, "threw")
    BY <1>4, StoreRead DEF WriteTaskResult, FailTask
  <2> QED BY <1>1, <1>2, <2>1, LeaveDoes
<1>5. CASE Has(store.history, s)
  <2>1. store.history[k] \in Record /\ store.history[k].signature = s
    BY <1>3, <1>5, FoundAt
  <2>2. now \in 0 .. MaxTime /\ Ttl(op[c]) \in Ttls /\ v \in Value
    BY <1>1, WorkerIs DEF Value, Forms
  <2>3. done \in Record /\ done.signature = s /\ failed \in Record /\ failed.signature = s
    BY <2>1, <2>2, SettledStays
  <2>4. \/ Change(c, [store EXCEPT !.history[k] = done, !.lastRun = now])
        \/ Change(c, [store EXCEPT !.history[k] = failed, !.lastRun = now])
    BY <1>5, StoreRead DEF WriteTaskResult, FailTask
  <2>5. PICK r \in Record : /\ r.signature = s
                            /\ Change(c, [store EXCEPT !.history[k] = r, !.lastRun = now])
    <3> HIDE DEF done, failed, s, k
    <3> QED BY <2>3, <2>4
  <2> DEFINE x == [store EXCEPT !.history[k] = r, !.lastRun = now]
  <2>6. /\ x \in AgentState /\ Fits(x.history) /\ AddsNone(store.history, x.history)
        /\ KeepsAll(store.history, x.history, now, {s})
    <3>1. k = IndexOf(store.history, s) /\ x = [store EXCEPT !.history[k] = r, !.lastRun = now]
      OBVIOUS
    <3> HIDE DEF k, s, x
    <3> QED BY <1>3, <1>5, <2>2, <2>5, <3>1, RewriteIs
  <2>7. Change(c, x)
    BY <2>5
  <2> HIDE DEF x
  <2> QED BY <1>1, <1>2, <2>6, <2>7, PlainChangeDoes
<1> QED BY <1>4, <1>5

(* deleteTask filters it out. *)
LEMMA DeleteDoes ==
  ASSUME BodiesInv, NoBlindReads, NEW c \in Call, DeleteTask(c)
  PROVE  Does(c)
<1> DEFINE s == SignatureIn(c)
           K == {r \in Range(store.history) : r.signature # s}
           g == Filter(store.history, K)
           x == WithHistory(store, g)
<1>1. /\ pc[c] = "locked" /\ pc[c] \in Body /\ op[c].kind \notin ClaimKinds
      /\ Named(c) = {s}
  BY DEF DeleteTask, Starts, Body, ClaimKinds, Named
<1>2. lost' \in BOOLEAN
  BY DEF DeleteTask, ReadDiary, BodiesInv, StoredInv
<1>3. store \in AgentState /\ Fits(store.history)
  BY DEF BodiesInv, StoredInv
<1>4. CASE ~Has(store.history, s)
  <2>1. Leave(c, "returned")
    BY <1>4, StoreRead DEF DeleteTask
  <2> QED BY <1>1, <1>2, <2>1, LeaveDoes
<1>5. CASE Has(store.history, s)
  <2>1. Change(c, x)
    BY <1>5, StoreRead DEF DeleteTask
  <2>2. /\ Fits(g) /\ AddsNone(store.history, g)
        /\ \A i \in DOMAIN store.history : store.history[i] \in K => store.history[i] \in Range(g)
    BY <1>3, FilteredKeeps
  <2>3. g \in Seq(Record)
    BY <2>2 DEF Fits, OneEach
  <2>4. \A i \in DOMAIN store.history : store.history[i].signature # s => store.history[i] \in K
    BY DEF Range
  <2> HIDE DEF g, K
  <2>5. KeepsAll(store.history, g, now, Named(c))
    BY <1>1, <2>2, <2>4 DEF KeepsAll
  <2>6. x \in AgentState /\ x.history = g
    BY <1>3, <2>3, HistoryIs
  <2> HIDE DEF x
  <2> QED BY <1>1, <1>2, <2>1, <2>2, <2>5, <2>6, PlainChangeDoes
<1> QED BY <1>4, <1>5

(* What a prune reports it has filtered out. *)
LEMMA PruneDoes ==
  ASSUME BodiesInv, NoBlindReads, NEW c \in Call, PruneExpiredTasks(c)
  PROVE  Does(c)
<1> DEFINE S == store.history
           X == ExpiredIn(S, now)
           e == Filter(S, X)
           g == Filter(S, Range(S) \ X)
           x == WithHistory(store, g)
           td == Signatures(e)
<1>1. /\ pc[c] = "locked" /\ pc[c] \in Body /\ op[c].kind \notin ClaimKinds
  BY DEF PruneExpiredTasks, Starts, Body, ClaimKinds
<1>2. lost' \in BOOLEAN
  BY DEF PruneExpiredTasks, ReadDiary, BodiesInv, StoredInv
<1>3. store \in AgentState /\ Fits(S) /\ OneEach(S)
  BY DEF BodiesInv, StoredInv, Fits
<1>4. CASE e = <<>>
  <2>1. Leave(c, "returned")
    BY <1>4, StoreRead DEF PruneExpiredTasks
  <2> QED BY <1>1, <1>2, <2>1, LeaveDoes
<1>5. CASE e # <<>>
  <2>1. /\ local' = [local EXCEPT ![c] = x] /\ todo' = [todo EXCEPT ![c] = td] /\ Goto(c, "save")
        /\ UNCHANGED <<store, now, exported, op, at, claimed, outcome, result>>
    BY <1>5, StoreRead DEF PruneExpiredTasks, stored, answer
  <2>2. /\ Fits(g) /\ AddsNone(S, g)
        /\ \A i \in DOMAIN S : S[i] \in Range(S) \ X => S[i] \in Range(g)
        /\ \A p \in DOMAIN g : g[p] \in Range(S) \ X /\ g[p] \in Range(S)
    <3> HIDE DEF S, X
    <3> QED BY <1>3, FilteredKeeps
  <2>3. /\ Fits(e)
        /\ \A p \in DOMAIN e : e[p] \in X /\ e[p] \in Range(S)
    <3> HIDE DEF S, X
    <3> QED BY <1>3, FilteredKeeps
  <2>4. g \in Seq(Record) /\ e \in Seq(Record)
    BY <2>2, <2>3 DEF Fits, OneEach
  <2>5. \A i \in DOMAIN S : S[i] \in Range(S) \ X \/ IsExpired(S[i], now)
    BY DEF Range, ExpiredIn
  <2> HIDE DEF g, e, X
  <2>6. KeepsAll(S, g, now, Named(c))
    BY <2>2, <2>5 DEF KeepsAll
  <2>7. x \in AgentState /\ x.history = g
    BY <1>3, <2>4, HistoryIs
  <2>8. td \in Seq(Signature)
    <3>1. DOMAIN e = 1 .. Len(e) /\ Len(e) \in Nat /\ \A i \in 1 .. Len(e) : e[i] \in Record
      BY <2>4, LenProperties, ElementOfSeq
    <3>2. \A i \in 1 .. Len(e) : e[i].signature \in Signature
      BY <3>1 DEF Record
    <3> QED BY <3>1, <3>2, IsASeq DEF Signatures
  <2>9. \A i \in DOMAIN td : ~Has(g, td[i])
    <3> SUFFICES ASSUME NEW i \in DOMAIN td, NEW p \in DOMAIN g, g[p].signature = td[i] PROVE FALSE
      BY DEF Has
    <3>1. i \in DOMAIN e /\ td[i] = e[i].signature
      BY DEF Signatures
    <3>2. PICK a \in DOMAIN S : S[a] = e[i]
      BY <2>3, <3>1 DEF Range
    <3>3. PICK b \in DOMAIN S : S[b] = g[p]
      BY <2>2 DEF Range
    <3>4. a = b
      BY <1>3, <3>1, <3>2, <3>3 DEF OneEach
    <3> QED BY <2>2, <2>3, <3>1, <3>2, <3>3, <3>4
  <2> HIDE DEF x, td
  <2> QED BY <1>1, <1>2, <2>1, <2>2, <2>6, <2>7, <2>8, <2>9, ChangeDoes
<1> QED BY <1>4, <1>5

(* An import takes what was exported. *)
LEMMA ImportDoes ==
  ASSUME BodiesInv, NEW c \in Call, ImportHistory(c)
  PROVE  Does(c)
<1> DEFINE g == Slice(exported.history)
           x == [exported EXCEPT !.history = g]
<1>1. /\ pc[c] = "locked" /\ op[c].kind = "importHistory" /\ op[c].kind \notin ClaimKinds
      /\ Change(c, x) /\ lost' = lost
  BY DEF ImportHistory, Starts, ClaimKinds
<1>2. exported \in AgentState /\ OneEach(exported.history) /\ lost \in BOOLEAN
  BY DEF BodiesInv, StoredInv
<1>3. Fits(g)
  BY <1>2, Sliced
<1> HIDE DEF g
<1>4. x \in AgentState /\ x.history = g
  BY <1>2, <1>3, HistoryIs DEF Fits, OneEach
<1> HIDE DEF x
<1> QED BY <1>1, <1>2, <1>3, <1>4, PlainChangeDoes

(* A merge puts in front what the diary does not have. *)
LEMMA MergeDoes ==
  ASSUME BodiesInv, NoBlindReads, NEW c \in Call, MergeHistory(c)
  PROVE  Does(c)
<1> DEFINE m == IF exported.lastRun > store.lastRun THEN exported.lastRun ELSE store.lastRun
           n == store.runCount + exported.runCount
           y == [store EXCEPT !.lastRun = m, !.runCount = n]
           g == Slice(Filter(exported.history, Unknown(exported.history, store.history)) \o store.history)
           x == WithHistory(y, g)
<1>1. /\ pc[c] = "locked" /\ op[c].kind = "mergeHistory" /\ op[c].kind \notin ClaimKinds
  BY DEF MergeHistory, Starts, ClaimKinds
<1>2. Change(c, x)
  BY StoreRead DEF MergeHistory
<1>3. lost' \in BOOLEAN
  BY DEF MergeHistory, ReadDiary, BodiesInv, StoredInv
<1>4. /\ exported \in AgentState /\ OneEach(exported.history)
      /\ store \in AgentState /\ OneEach(store.history)
  BY DEF BodiesInv, StoredInv, Fits
<1>5. Fits(g) /\ KeepsAll(store.history, g, now, Named(c))
  BY <1>4, MergedKeeps
<1>6. m \in Nat /\ n \in Nat
  BY <1>4 DEF AgentState
<1> HIDE DEF m, n, g
<1>7. y \in AgentState
  BY <1>4, <1>6 DEF AgentState
<1> HIDE DEF y
<1>8. x \in AgentState /\ x.history = g
  BY <1>5, <1>7, HistoryIs DEF Fits, OneEach
<1> HIDE DEF x
<1> QED BY <1>1, <1>2, <1>3, <1>5, <1>8, PlainChangeDoes

(* The empty diary has no record. *)
LEMMA EmptyFits == Fits(EmptyState.history) /\ \A S : AddsNone(S, EmptyState.history)
BY HistoryAssumption DEF EmptyState, Fits, OneEach, AddsNone

(* A clear leaves it. *)
LEMMA ClearDoes ==
  ASSUME BodiesInv, NEW c \in Call, ClearHistory(c)
  PROVE  Does(c)
<1>1. /\ pc[c] = "locked" /\ op[c].kind = "clearHistory" /\ op[c].kind \notin ClaimKinds
      /\ Change(c, EmptyState) /\ lost' = lost
  BY DEF ClearHistory, Starts, ClaimKinds
<1>2. lost \in BOOLEAN
  BY DEF BodiesInv, StoredInv
<1>3. Fits(EmptyState.history) /\ AddsNone(store.history, EmptyState.history) /\ EmptyState \in AgentState
  BY EmptyFits, Data
<1> QED BY <1>1, <1>2, <1>3, PlainChangeDoes

(* The change is written; what it removed is not there any more. *)
LEMMA SaveDoes ==
  ASSUME BodiesInv, NEW c \in Call, Save(c)
  PROVE  Does(c)
<1>1. /\ pc[c] = "save" /\ pc[c] \in Body /\ pc[c] \notin {"idle", "done"}
  BY DEF Save, Body, Steps
<1>2. store' = local[c] /\ UNCHANGED <<now, exported, lost, op, claimed>>
  BY DEF Save
<1>3. /\ todo[c] \in Seq(Signature) /\ claimed[c] \in SUBSET Signature
      /\ local[c] \in AgentState /\ at[c] \in 0 .. MaxTime
  BY <1>1, WorkerIs
<1>4. SaveStage(c)
  BY <1>1, WorkerIs DEF BodyInv
<1>5. store' \in AgentState /\ Fits(store'.history) /\ lost' \in BOOLEAN
  BY <1>1, <1>2, <1>3, <1>4 DEF BodiesInv, StoredInv, SaveStage
<1>6. CASE todo[c] = <<>>
  <2>1. Settle(c, "returned", Undefined)
    BY <1>6 DEF Save
  <2> QED BY <1>1, <1>2, <1>5, <2>1, SettleDoes
<1>7. CASE todo[c] # <<>>
  <2>1. /\ local' = [local EXCEPT ![c] = EmptyState] /\ Goto(c, "reporting") /\ "reporting" \in Steps
        /\ UNCHANGED <<at, todo, outcome, result>>
    BY <1>7 DEF Save, answer, Steps
  <2>2. EmptyState \in AgentState
    BY Data
  <2>3. /\ pc'[c] = "reporting" /\ "reporting" \in Where
        /\ op'[c] = op[c] /\ op[c] \in Op /\ op[c].kind \in LockedKinds
    BY <1>1, <1>2, <2>1, Going
  <2>4. \A i \in DOMAIN todo'[c] : ~Has(store'.history, todo'[c][i])
    BY <1>1, <1>2, <1>4, <2>1 DEF SaveStage
  <2>5. BodyInv(c)'
    BY <2>3, <2>4 DEF BodyInv, ClaimStage, RunStage, SaveStage, ExecutingAt
  <2>6. /\ at' = [at EXCEPT ![c] = at[c]] /\ todo' = [todo EXCEPT ![c] = todo[c]]
        /\ claimed' = [claimed EXCEPT ![c] = claimed[c]]
    BY <1>2, <2>1, SameTodo
  <2> QED BY <1>1, <1>2, <1>3, <1>5, <2>1, <2>2, <2>3, <2>5, <2>6, GoDoes
<1> QED BY <1>6, <1>7

(* One report is over. *)
LEMMA ReportDoes ==
  ASSUME BodiesInv, NEW c \in Call, Report(c)
  PROVE  Does(c)
<1>1. /\ pc[c] = "reporting" /\ pc[c] \in Body /\ pc[c] \notin {"idle", "done"}
  BY DEF Report, Body, Steps
<1>2. UNCHANGED <<store, now, exported, lost, op, claimed>>
  BY DEF Report, shared, stored
<1>3. /\ todo[c] \in Seq(Signature) /\ claimed[c] \in SUBSET Signature
      /\ local[c] \in AgentState /\ at[c] \in 0 .. MaxTime
      /\ op[c] \in Op /\ op[c].kind \in LockedKinds
  BY <1>1, WorkerIs
<1>4. SaveStage(c)
  BY <1>1, WorkerIs DEF BodyInv
<1>5. store' \in AgentState /\ Fits(store'.history) /\ lost' \in BOOLEAN
  BY <1>2 DEF BodiesInv, StoredInv
<1>6. CASE ~(Len(todo[c]) > 1)
  <2>1. Settle(c, "returned", Undefined)
    BY <1>6 DEF Report
  <2> QED BY <1>1, <1>2, <1>5, <2>1, SettleDoes
<1>7. CASE Len(todo[c]) > 1
  <2>1. /\ todo' = [todo EXCEPT ![c] = Tail(todo[c])]
        /\ UNCHANGED <<pc, local, at, outcome, result>>
    BY <1>7 DEF Report, answer
  <2>2. /\ Tail(todo[c]) \in Seq(Signature)
        /\ \A i \in DOMAIN Tail(todo[c]) : i + 1 \in DOMAIN todo[c] /\ Tail(todo[c])[i] = todo[c][i + 1]
    BY <1>3, <1>7
  <2>3. Goto(c, "reporting") /\ "reporting" \in Where
    BY <1>1, <2>1 DEF Goto, BodiesInv, TypeInv, Where, Body, Steps
  <2>4. todo'[c] = Tail(todo[c])
    BY <2>1 DEF BodiesInv, TypeInv
  <2>5. \A i \in DOMAIN todo'[c] : ~Has(store'.history, todo'[c][i])
    BY <1>1, <1>2, <1>4, <2>2, <2>4 DEF SaveStage
  <2>6. BodyInv(c)'
    BY <1>1, <1>2, <1>3, <2>1, <2>5 DEF BodyInv, ClaimStage, RunStage, SaveStage, ExecutingAt
  <2>7. /\ at' = [at EXCEPT ![c] = at[c]] /\ local' = [local EXCEPT ![c] = local[c]]
        /\ claimed' = [claimed EXCEPT ![c] = claimed[c]]
    BY <1>2, <2>1, SameTodo
  <2> QED BY <1>1, <1>2, <1>3, <1>5, <2>1, <2>2, <2>3, <2>6, <2>7, GoDoes
<1> QED BY <1>6, <1>7

(* A callback, a read or a write throws. *)
LEMMA ThrowsDoes ==
  ASSUME BodiesInv, NEW c \in Call,
         CallbackThrows(c) \/ ReportThrows(c) \/ StorageFails(c) \/ ReadFails(c)
  PROVE  Does(c)
<1>1. pc[c] \in Body /\ Settle(c, "threw", Undefined)
  BY DEF CallbackThrows, ReportThrows, StorageFails, ReadFails, Body, Steps, Saving
<1>2. claimed' = claimed \/ claimed' = [claimed EXCEPT ![c] = {}]
  BY DEF CallbackThrows, ReportThrows, StorageFails, ReadFails, DropUnwritten
<1>3. UNCHANGED <<store, now, exported, lost, op>>
  BY DEF CallbackThrows, ReportThrows, StorageFails, ReadFails, shared, stored
<1>4. store' \in AgentState /\ Fits(store'.history) /\ lost' \in BOOLEAN
  BY <1>3 DEF BodiesInv, StoredInv
<1> QED BY <1>1, <1>2, <1>3, <1>4, SettleDoes

(* So every step in a body keeps the invariant. *)
LEMMA BodyDoes ==
  ASSUME BodiesInv, NoBlindReads, NEW c \in Call, BodyStep(c) \/ BodyFault(c) \/ ReadFails(c)
  PROVE  Does(c)
BY ReadForClaimDoes, SkipLiveDoes, NotifyExpiredDoes, ClaimNewDoes, ReplaceExpiredDoes,
   EndOfClaimsDoes, SaveClaimDoes, ReturnsDoes, RecordsDoes, SavesDoes, WritesDoes, DeleteDoes,
   PruneDoes, ImportDoes, MergeDoes, ClearDoes, SaveDoes, ReportDoes, ThrowsDoes
DEF BodyStep, BodyFault

-----------------------------------------------------------------------------
(* The steps outside the bodies *)

(* A call is made. *)
LEMMA InvokeDoes ==
  ASSUME BodiesInv, NEW c \in Call, Invoke(c)
  PROVE  Does(c)
<1>1. pc[c] = "idle" /\ pc' = [pc EXCEPT ![c] = "waiting"]
  BY DEF Invoke, Goto
<1>2. PICK o \in Op : o.kind \in LockedKinds /\ op' = [op EXCEPT ![c] = o]
  BY DEF Invoke
<1>3. UNCHANGED <<store, now, exported, lost, local, at, todo, claimed, outcome, result>>
  BY DEF Invoke, shared, stored, answer
<1>4. TypeInv' /\ Apart(c) /\ pc'[c] = "waiting" /\ op'[c] = o
  BY <1>1, <1>2, <1>3 DEF BodiesInv, TypeInv, Apart, Where
<1>5. claimed[c] = {} /\ todo[c] = <<>>
  BY <1>1 DEF BodiesInv, BodyInv
<1>6. BodyInv(c)'
  BY <1>2, <1>3, <1>4, <1>5 DEF BodyInv, ClaimStage, RunStage, SaveStage, ExecutingAt
<1>7. StoredInv' /\ ~AtWork(c)'
  BY <1>3, <1>4 DEF BodiesInv, StoredInv, AtWork, Body, Steps
<1> QED BY <1>3, <1>4, <1>6, <1>7 DEF Does

(* It is let in, when no other is. *)
LEMMA LockedDoes ==
  ASSUME BodiesInv, NEW c \in Call, Locked(c), \A b \in Call : ~AtWork(b)
  PROVE  Does(c)
<1>1. pc[c] = "waiting" /\ pc' = [pc EXCEPT ![c] = "locked"]
  BY DEF Locked, Goto
<1>2. UNCHANGED <<store, now, exported, lost, op, local, at, todo, claimed, outcome, result>>
  BY DEF Locked, shared, stored, answer
<1>3. TypeInv' /\ Apart(c) /\ pc'[c] = "locked"
  BY <1>1, <1>2 DEF BodiesInv, TypeInv, Apart, Where, Body
<1>4. claimed[c] = {} /\ todo[c] = <<>> /\ op[c] \in Op /\ op[c].kind \in LockedKinds
  BY <1>1 DEF BodiesInv, BodyInv
<1>5. BodyInv(c)'
  BY <1>2, <1>3, <1>4 DEF BodyInv, ClaimStage, RunStage, SaveStage, ExecutingAt
<1>6. StoredInv'
  BY <1>2 DEF BodiesInv, StoredInv
<1> QED BY <1>2, <1>3, <1>5, <1>6 DEF Does

(* It is over. *)
LEMMA FinishDoes ==
  ASSUME BodiesInv, NEW c \in Call, Finish(c)
  PROVE  Does(c)
<1>1. pc[c] = "leaving" /\ pc' = [pc EXCEPT ![c] = "done"]
  BY DEF Finish, Goto
<1>2. UNCHANGED <<store, now, exported, lost, op, local, at, todo, claimed, outcome, result>>
  BY DEF Finish, shared, stored, answer
<1>3. TypeInv' /\ Apart(c) /\ pc'[c] = "done"
  BY <1>1, <1>2 DEF BodiesInv, TypeInv, Apart, Where
<1>4. BodyInv(c)'
  BY <1>3 DEF BodyInv, ClaimStage, RunStage, SaveStage, ExecutingAt
<1>5. StoredInv' /\ ~AtWork(c)'
  BY <1>2, <1>3 DEF BodiesInv, StoredInv, AtWork, Body, Steps
<1> QED BY <1>2, <1>3, <1>4, <1>5 DEF Does

(* A read without the lock gives out what is stored. *)
LEMMA ReadDoes ==
  ASSUME BodiesInv, NoBlindReads, NEW c \in Call, Read(c)
  PROVE  Does(c)
<1>1. /\ pc[c] = "idle" /\ pc' = [pc EXCEPT ![c] = "done"]
      /\ outcome' = [outcome EXCEPT ![c] = "returned"]
      /\ UNCHANGED <<store, now, lost, local, at, todo, claimed>>
  BY DEF Read, Goto
<1>2. PICK o \in Op :
        /\ op' = [op EXCEPT ![c] = o]
        /\ IF o.kind = "exportHistory"
           THEN exported' = store /\ UNCHANGED result
           ELSE /\ result' = [result EXCEPT ![c] =
                     IF Live(store.history, SignatureOf[o.titles[1]], now)
                     THEN Find(store.history, SignatureOf[o.titles[1]]).result ELSE Undefined]
                /\ UNCHANGED exported
  BY StoreRead DEF Read
<1>3. store \in AgentState /\ OneEach(store.history) /\ Fits(store.history) /\ lost \in BOOLEAN
  BY DEF BodiesInv, StoredInv, Fits
<1>4. exported' \in AgentState /\ OneEach(exported'.history)
  BY <1>2, <1>3 DEF BodiesInv, StoredInv
<1>5. PICK v \in Value \cup {Undefined} : result' = result \/ result' = [result EXCEPT ![c] = v]
  <2>1. CASE o.kind = "exportHistory"
    BY <1>2, <2>1
  <2>2. CASE o.kind # "exportHistory"
    <3> DEFINE s == SignatureOf[o.titles[1]]
    <3>1. CASE Live(store.history, s, now)
      <4>1. result' = [result EXCEPT ![c] = Find(store.history, s).result]
        BY <1>2, <2>2, <3>1
      <4>2. Find(store.history, s) \in Record
        BY <1>3, <3>1, FoundAt DEF Live
      <4>3. Find(store.history, s).result \in Value \cup {Undefined}
        BY <4>2 DEF Record
      <4> QED BY <4>1, <4>3
    <3>2. CASE ~Live(store.history, s, now)
      BY <1>2, <2>2, <3>2
    <3> QED BY <3>1, <3>2
  <2> QED BY <2>1, <2>2
<1>6. TypeInv' /\ Apart(c) /\ pc'[c] = "done"
  <2>1. TypeInv
    BY DEF BodiesInv
  <2>2. pc'[c] = "done" /\ Apart(c)
    BY <1>1, <1>2, <1>5, <2>1 DEF TypeInv, Apart
  <2>3. pc' \in [Call -> Where] /\ result' \in [Call -> Value \cup {Undefined}]
    BY <1>1, <1>2, <1>5, <2>1 DEF TypeInv, Where
  <2>4. op' \in [Call -> Op \cup {NoOp}]
    BY <1>1, <1>2, <2>1 DEF TypeInv
  <2>5. UNCHANGED <<now, local, at, todo, claimed>> /\ outcome' \in [Call -> {"none", "returned", "threw"}]
    BY <1>1, <1>2, <2>1 DEF TypeInv
  <2> QED BY <2>1, <2>2, <2>3, <2>4, <2>5 DEF TypeInv
<1>7. BodyInv(c)'
  BY <1>6 DEF BodyInv, ClaimStage, RunStage, SaveStage, ExecutingAt
<1>8. StoredInv' /\ ~AtWork(c)'
  BY <1>1, <1>3, <1>4, <1>6 DEF StoredInv, AtWork, Body, Steps
<1> QED BY <1>1, <1>6, <1>7, <1>8 DEF Does

(* Time passes: what had expired stays expired. *)
LEMMA TickKeepsBodies ==
  ASSUME BodiesInv, Tick
  PROVE  BodiesInv'
<1>1. /\ now' = now + 1 /\ now < MaxTime
      /\ UNCHANGED <<store, exported, lost, pc, op, local, at, todo, claimed, outcome, result>>
  BY DEF Tick, answer
<1>2. now \in Nat /\ now' \in 0 .. MaxTime /\ now <= now' /\ now' \in Nat
  BY <1>1, TimeAssumption DEF BodiesInv, TypeInv
<1>3. TypeInv'
  BY <1>1, <1>2 DEF BodiesInv, TypeInv
<1>4. OneAtWork' /\ StoredInv'
  BY <1>1 DEF BodiesInv, OneAtWork, StoredInv, AtWork
<1>5. ASSUME NEW c \in Call PROVE BodyInv(c)'
  <2>1. BodyInv(c) /\ at[c] \in Nat /\ OneEach(store.history)
    BY TimeAssumption DEF BodiesInv, TypeInv, StoredInv, Fits
  <2>2. SignatureIn(c)' = SignatureIn(c) /\ Named(c)' = Named(c)
    BY <1>1 DEF SignatureIn, Named
  <2>3. at[c] <= now => at[c] <= now'
    BY <1>2, <2>1
  <2>4. Claims(c) => Claims(c)'
    BY <1>1, <2>2, <2>3 DEF Claims
  <2>5. ClaimStage(c)'
    BY <1>1, <2>1, <2>2, <2>3, <2>4 DEF BodyInv, ClaimStage
  <2>6. \A g, ss : KeepsAll(store.history, g, now, ss) => KeepsAll(store.history, g, now', ss)
    BY <1>2, <2>1, KeptLater
  <2>7. RunStage(c)'
    BY <1>1, <2>1, <2>2, <2>6 DEF BodyInv, RunStage
  <2>8. SaveStage(c)'
    BY <1>1, <2>1, <2>2, <2>6 DEF BodyInv, SaveStage
  <2> QED BY <1>1, <2>1, <2>5, <2>7, <2>8 DEF BodyInv
<1> QED BY <1>3, <1>4, <1>5 DEF BodiesInv

(* At first nobody is at work. *)
LEMMA InitBodies ==
  ASSUME DiaryInit
  PROVE  BodiesInv
<1>1. EmptyState \in AgentState /\ Fits(EmptyState.history) /\ 0 \in 0 .. MaxTime
  BY Data, EmptyFits, TimeAssumption
<1>2. TypeInv
  <2> HIDE DEF EmptyState, NoOp
  <2> QED BY <1>1 DEF DiaryInit, TypeInv, Where
<1>3. OneAtWork
  BY DEF DiaryInit, OneAtWork, AtWork, Body, Steps
<1>4. StoredInv
  <2>1. exported \in AgentState /\ OneEach(exported.history)
    BY SnapshotAssumption DEF DiaryInit, OneEach, AgentState
  <2> QED BY <1>1, <2>1 DEF DiaryInit, StoredInv
<1>5. ASSUME NEW c \in Call PROVE BodyInv(c)
  <2>1. pc[c] = "idle" /\ claimed[c] = {} /\ todo[c] = <<>>
    BY DEF DiaryInit
  <2> QED BY <2>1 DEF BodyInv, ClaimStage, RunStage, SaveStage, ExecutingAt
<1> QED BY <1>2, <1>3, <1>4, <1>5 DEF BodiesInv

(* Nothing happens. *)
LEMMA IdleKeepsBodies ==
  ASSUME BodiesInv, UNCHANGED diaryVars
  PROVE  BodiesInv'
<1>1. UNCHANGED <<store, now, exported, lost, pc, op, local, at, todo, claimed, outcome, result>>
  BY DEF diaryVars
<1>2. TypeInv' /\ OneAtWork' /\ StoredInv'
  BY <1>1 DEF BodiesInv, TypeInv, OneAtWork, StoredInv, AtWork
<1>3. ASSUME NEW c \in Call PROVE BodyInv(c)'
  <2>1. BodyInv(c)
    BY DEF BodiesInv
  <2> QED BY <1>1, <2>1, BodyInvStays
<1> QED BY <1>2, <1>3 DEF BodiesInv

-----------------------------------------------------------------------------
(* All operations: what follows *)

(* The lock lets one call in, and the diary is what the calls left it. *)
WorkInv == LockInv /\ BodiesInv

(* What a step is: of the clock, or of one call. *)
LEMMA StepIs ==
  ASSUME NoBlindReads, WorkInv, [Next]_vars
  PROVE  /\ LockInv'
         /\ \/ UNCHANGED diaryVars
            \/ Tick
            \/ \E c \in Call : Does(c)
<1>1. CASE UNCHANGED vars \/ (Tick /\ UNCHANGED lockVars)
  <2>1. UNCHANGED <<pc, lockVars>>
    BY <1>1 DEF vars, diaryVars, Tick
  <2>2. LockInv'
    BY <2>1 DEF WorkInv, LockInv, lockVars, AtWork
  <2> QED BY <1>1, <2>2 DEF vars
<1>2. ASSUME NEW c \in Call, Ask(c) \/ Granted(c) \/ GiveBack(c)
      PROVE  LockInv' /\ Does(c)
  <2>1. LockInv /\ BodiesInv
    BY DEF WorkInv
  <2>2. pc[c] = "leaving" => outcome[c] \in {"returned", "threw"}
    BY <2>1 DEF BodiesInv, BodyInv
  <2>3. LockInv'
    BY <1>2, <2>1, <2>2, LockStepKeepsOrder
  <2>4. CASE Ask(c)
    BY <2>1, <2>3, <2>4, InvokeDoes DEF Ask
  <2>5. CASE Granted(c)
    BY <2>1, <2>3, <2>5, GrantedAlone, LockedDoes DEF Granted
  <2>6. CASE GiveBack(c)
    BY <2>1, <2>3, <2>6, FinishDoes DEF GiveBack
  <2> QED BY <1>2, <2>4, <2>5, <2>6
<1>3. ASSUME NEW c \in Call, BodyStep(c) \/ BodyFault(c) \/ ReadFails(c), UNCHANGED lockVars
      PROVE  LockInv' /\ Does(c)
  <2>1. LockInv /\ BodiesInv /\ Does(c)
    BY <1>3, BodyDoes DEF WorkInv
  <2>2. AtWork(c) /\ AtWork(c)'
    BY <1>3, <2>1, StaysAtWork DEF LockInv
  <2>3. pc' \in [Call -> Where] /\ \A b \in Call \ {c} : pc'[b] = pc[b]
    BY <2>1 DEF Does, TypeInv, Apart
  <2>4. pc[c] # "waiting" /\ pc'[c] # "waiting"
    BY <2>2 DEF AtWork, Body, Steps
  <2>5. \A b \in Call \ {c} : AtWork(b)' <=> AtWork(b)
    BY <2>3 DEF AtWork
  <2>6. Aside
    BY <1>3, <2>2, <2>3, <2>4, <2>5 DEF Aside
  <2> QED BY <2>1, <2>6, AsideKeepsOrder
<1>4. ASSUME NEW c \in Call, Read(c), UNCHANGED lockVars
      PROVE  LockInv' /\ Does(c)
  <2>1. LockInv /\ BodiesInv /\ Does(c)
    BY <1>4, ReadDoes DEF WorkInv
  <2>2. pc[c] = "idle" /\ pc' = [pc EXCEPT ![c] = "done"]
    BY <1>4 DEF Read, Goto
  <2>3. pc' \in [Call -> Where] /\ pc'[c] = "done" /\ \A b \in Call \ {c} : pc'[b] = pc[b]
    BY <2>1, <2>2 DEF Does, TypeInv, Apart, LockInv
  <2>4. Aside
    BY <1>4, <2>2, <2>3 DEF Aside, AtWork, Body, Steps
  <2> QED BY <2>1, <2>4, AsideKeepsOrder
<1> QED BY <1>1, <1>2, <1>3, <1>4 DEF Next

(* The inductive invariant of all operations: one call in its body, whose  *)
(* copy differs from what is stored by the change that it is making.       *)
THEOREM WorkInvariance ==
  ASSUME NoBlindReads
  PROVE  SafeSpec => []WorkInv
<1>1. Init => WorkInv
  <2> SUFFICES ASSUME Init PROVE WorkInv
    OBVIOUS
  <2>1. LockInv
    BY InitOnce DEF OnceInv
  <2> QED BY <2>1, InitBodies DEF Init, WorkInv
<1>2. WorkInv /\ [Next]_vars => WorkInv'
  <2> SUFFICES ASSUME WorkInv, [Next]_vars PROVE WorkInv'
    OBVIOUS
  <2>1. BodiesInv
    BY DEF WorkInv
  <2>2. LockInv' /\ (UNCHANGED diaryVars \/ Tick \/ \E c \in Call : Does(c))
    BY StepIs
  <2>3. BodiesInv'
    BY <2>1, <2>2, IdleKeepsBodies, TickKeepsBodies, DoesKeep
  <2> QED BY <2>2, <2>3 DEF WorkInv
<1> QED BY <1>1, <1>2, PTL DEF SafeSpec

(* Type correctness, of whatever operations in whatever order. *)
THEOREM TypeCorrect ==
  ASSUME NoBlindReads
  PROVE  SafeSpec => []TypeOK
<1>1. WorkInv => TypeOK
  BY DEF WorkInv, LockInv, BodiesInv, TypeInv, StoredInv, TypeOK, DiaryTypeOK, Lock!FifoTypeOK
<1> QED BY <1>1, WorkInvariance, PTL

(* The history stays a bounded set of signatures, whatever the operations  *)
(* and whatever goes wrong in them, short of a read that is taken for an   *)
(* empty diary.                                                            *)
THEOREM HistoryStaysASet ==
  ASSUME NoBlindReads
  PROVE  SafeSpec => []HistoryIsASet
<1>1. WorkInv => HistoryIsASet
  BY DEF WorkInv, BodiesInv, StoredInv, Fits, OneEach, HistoryIsASet
<1> QED BY <1>1, WorkInvariance, PTL

(* While a prune reports a record, its task is not in the diary. *)
THEOREM ReportsAreOfTheGone ==
  ASSUME NoBlindReads
  PROVE  SafeSpec => []ReportedAreGone
<1>1. WorkInv => ReportedAreGone
  BY DEF WorkInv, BodiesInv, BodyInv, SaveStage, ReportedAreGone
<1> QED BY <1>1, WorkInvariance, PTL

-----------------------------------------------------------------------------
(* What the writes may do *)

(* Four steps write. *)
LEMMA WriterIs ==
  ASSUME NoBlindReads, WorkInv, [Next]_vars, store' # store
  PROVE  \E c \in Call :
           /\ SaveClaim(c) \/ SaveResult(c) \/ SaveFailure(c) \/ Save(c)
           /\ store' = local[c] /\ pc[c] \notin {"idle", "done"} /\ pc'[c] # pc[c]
<1>1. ASSUME NEW c \in Call, Ask(c) \/ Granted(c) \/ GiveBack(c) PROVE FALSE
  BY <1>1 DEF Ask, Granted, GiveBack, Invoke, Locked, Finish, shared, stored
<1>2. ASSUME NEW c \in Call, Read(c) \/ ReadFails(c) \/ BodyFault(c) PROVE FALSE
  BY <1>2 DEF Read, ReadFails, BodyFault, FnThrows, CallbackThrows, ReportThrows, StorageFails,
              shared, stored
<1>3. ~Tick /\ ~UNCHANGED vars
  BY DEF Tick, vars, diaryVars
<1>4. PICK c \in Call : BodyStep(c)
  BY <1>1, <1>2, <1>3 DEF Next
<1>5. SaveClaim(c) \/ SaveResult(c) \/ SaveFailure(c) \/ Save(c)
  <2>1. CASE ReadForClaim(c) \/ SkipLive(c) \/ NotifyExpired(c) \/ ClaimNew(c)
             \/ ReplaceExpired(c) \/ EndOfClaims(c) \/ FnReturns(c) \/ Report(c)
    BY <2>1 DEF ReadForClaim, SkipLive, NotifyExpired, ClaimNew, ReplaceExpired, Claim,
                EndOfClaims, FnReturns, Report, shared, stored
  <2>2. CASE RecordResult(c) \/ RecordFailure(c) \/ WriteTaskResult(c) \/ FailTask(c)
             \/ DeleteTask(c) \/ PruneExpiredTasks(c)
    BY <2>2 DEF RecordResult, RecordFailure, WriteTaskResult, FailTask, DeleteTask,
                PruneExpiredTasks, Change, Leave, stored
  <2>3. CASE ImportHistory(c) \/ MergeHistory(c) \/ ClearHistory(c)
    BY <2>3 DEF ImportHistory, MergeHistory, ClearHistory, Change, stored
  <2> QED BY <1>4, <2>1, <2>2, <2>3 DEF BodyStep
<1>6. store' = local[c] /\ pc[c] \in Saving
  BY <1>5 DEF SaveClaim, SaveResult, SaveFailure, Save, Saving
<1>7. pc' = [pc EXCEPT ![c] = "leaving"] \/ pc' = [pc EXCEPT ![c] = "running"]
      \/ pc' = [pc EXCEPT ![c] = "reporting"]
  BY <1>5 DEF SaveClaim, SaveResult, SaveFailure, Save, Settle, Goto
<1>8. pc'[c] \in {"leaving", "running", "reporting"}
  BY <1>7 DEF WorkInv, LockInv
<1> QED BY <1>5, <1>6, <1>8 DEF Saving

(* A claim is written only over a diary in which the signature is free: no *)
(* live record of it was written while the claimer worked on its copy.     *)
THEOREM ClaimsAreExclusive ==
  ASSUME NoBlindReads
  PROVE  SafeSpec => ExclusiveClaim
<1>1. WorkInv => \A c \in Call : WritesClaim(c) /\ outcome'[c] # "threw" =>
                   \A s \in claimed[c] : ~Live(store.history, s, at[c])
  <2> SUFFICES ASSUME WorkInv, NEW c \in Call, pc[c] = "saveClaim", NEW s \in claimed[c]
               PROVE  ~Live(store.history, s, at[c])
    BY DEF WritesClaim
  <2>1. ClaimsOf(store.history, local[c].history, at[c], claimed[c])
    BY DEF WorkInv, BodiesInv, BodyInv, ClaimStage
  <2>2. OneEach(store.history)
    BY DEF WorkInv, BodiesInv, StoredInv, Fits
  <2> QED BY <2>1, <2>2, NoneLive
<1> QED BY <1>1, WorkInvariance, PTL DEF ExclusiveClaim

(* A signature enters the history by a claim or an import. *)
THEOREM RecordsComeByClaims ==
  ASSUME NoBlindReads
  PROVE  SafeSpec => OnlyClaimsAddRecords
<1> DEFINE A == \A s \in Signature : Has(store'.history, s) /\ ~Has(store.history, s) =>
                  \E c \in Call :
                    \/ pc[c] = "saveClaim" /\ s \in claimed[c]
                    \/ Writes(c) /\ op[c].kind \in {"importHistory", "mergeHistory"}
<1>1. WorkInv /\ [Next]_vars => A
  <2> SUFFICES ASSUME WorkInv, [Next]_vars,
                      NEW s \in Signature, Has(store'.history, s), ~Has(store.history, s)
               PROVE  \E c \in Call :
                        \/ pc[c] = "saveClaim" /\ s \in claimed[c]
                        \/ Writes(c) /\ op[c].kind \in {"importHistory", "mergeHistory"}
    OBVIOUS
  <2>1. PICK c \in Call :
          /\ SaveClaim(c) \/ SaveResult(c) \/ SaveFailure(c) \/ Save(c)
          /\ store' = local[c] /\ pc[c] \notin {"idle", "done"} /\ pc'[c] # pc[c]
    BY WriterIs
  <2>2. BodyInv(c)
    BY DEF WorkInv, BodiesInv
  <2>3. PICK p \in DOMAIN local[c].history : local[c].history[p].signature = s
    BY <2>1 DEF Has
  <2>4. ~AddsNone(store.history, local[c].history)
    BY <2>3 DEF AddsNone
  <2>5. CASE SaveClaim(c)
    <3>1. pc[c] = "saveClaim" /\ ClaimsOf(store.history, local[c].history, at[c], claimed[c])
      BY <2>2, <2>5 DEF SaveClaim, BodyInv, ClaimStage
    <3>2. local[c].history[p] \notin Range(store.history)
      BY <2>3 DEF Range, Has
    <3> QED BY <2>3, <3>1, <3>2 DEF ClaimsOf
  <2>6. CASE SaveResult(c) \/ SaveFailure(c)
    BY <2>2, <2>4, <2>6 DEF SaveResult, SaveFailure, BodyInv, RunStage
  <2>7. CASE Save(c)
    BY <2>1, <2>2, <2>4, <2>7 DEF Save, BodyInv, SaveStage, Writes
  <2> QED BY <2>1, <2>5, <2>6, <2>7
<1>2. SafeSpec => [][A]_vars
  BY <1>1, WorkInvariance, PTL DEF SafeSpec
<1> QED BY <1>2 DEF OnlyClaimsAddRecords

(* A result once stored stays until it expires, is rewritten or deleted by *)
(* name, imported over, cleared, or cut off by newer records.              *)
THEOREM ResultsStay ==
  ASSUME NoBlindReads
  PROVE  SafeSpec => ResultsAreKept
<1> DEFINE K(i) == LET r == store.history[i]
                   IN  r.status = "done" =>
                         \/ r \in Range(store'.history)
                         \/ IsExpired(r, now)
                         \/ \E c \in Call :
                              /\ Writes(c)
                              /\ \/ op[c].kind \in {"importHistory", "clearHistory"}
                                 \/ /\ op[c].kind \in {"deleteTask", "writeTaskResult", "failTask"}
                                    /\ SignatureIn(c) = r.signature
                         \/ /\ Len(store'.history) = MaxHistory
                            /\ \A j \in i .. Len(store.history) :
                                 store.history[j] \notin Range(store'.history)
           A == \A i \in DOMAIN store.history : K(i)
<1>1. WorkInv /\ [Next]_vars => A
  <2> SUFFICES ASSUME WorkInv, [Next]_vars, NEW i \in DOMAIN store.history,
                      store.history[i].status = "done",
                      store.history[i] \notin Range(store'.history),
                      ~IsExpired(store.history[i], now),
                      ~Cut(store.history, store'.history, i)
               PROVE  \E c \in Call :
                        /\ Writes(c)
                        /\ \/ op[c].kind \in {"importHistory", "clearHistory"}
                           \/ /\ op[c].kind \in {"deleteTask", "writeTaskResult", "failTask"}
                              /\ SignatureIn(c) = store.history[i].signature
    BY DEF Cut
  <2>1. store' # store
    BY DEF Range
  <2>2. PICK c \in Call :
          /\ SaveClaim(c) \/ SaveResult(c) \/ SaveFailure(c) \/ Save(c)
          /\ store' = local[c] /\ pc[c] \notin {"idle", "done"} /\ pc'[c] # pc[c]
    BY <2>1, WriterIs
  <2>3. BodyInv(c) /\ OneEach(store.history) /\ now \in Nat /\ at[c] \in Nat
    BY TimeAssumption DEF WorkInv, BodiesInv, StoredInv, Fits, TypeInv
  <2>4. \A ss : KeepsAll(store.history, local[c].history, now, ss)
                => store.history[i].signature \in ss
    BY <2>2 DEF KeepsAll
  <2>5. CASE SaveClaim(c)
    <3>1. KeepsAll(store.history, local[c].history, at[c], {}) /\ at[c] <= now
      BY <2>3, <2>5 DEF SaveClaim, BodyInv, ClaimStage
    <3>2. KeepsAll(store.history, local[c].history, now, {})
      BY <2>3, <3>1, KeptLater
    <3> QED BY <2>4, <3>2
  <2>6. CASE SaveResult(c) \/ SaveFailure(c)
    <3>1. /\ pc[c] \in {"saveResult", "saveFailure"} /\ pc[c] \in ExecutingAt
          /\ KeepsAll(store.history, local[c].history, now, {SignatureIn(c)})
      BY <2>3, <2>6 DEF SaveResult, SaveFailure, BodyInv, RunStage, ExecutingAt
    <3>2. store.history[i].signature = SignatureIn(c)
      BY <2>4, <3>1
    <3> QED BY <2>3, <3>1, <3>2 DEF BodyInv, RunStage
  <2>7. CASE Save(c)
    <3>1. Writes(c) /\ SaveStage(c) /\ pc[c] = "save"
      BY <2>2, <2>3, <2>7 DEF Save, Writes, BodyInv
    <3>2. CASE op[c].kind \notin {"importHistory", "clearHistory"}
      <4>1. store.history[i].signature \in Named(c)
        BY <2>4, <3>1, <3>2 DEF SaveStage
      <4> QED BY <3>1, <4>1 DEF Named
    <3> QED BY <3>1, <3>2
  <2> QED BY <2>2, <2>5, <2>6, <2>7
<1>2. SafeSpec => [][A]_vars
  BY <1>1, WorkInvariance, PTL DEF SafeSpec
<1> QED BY <1>2 DEF ResultsAreKept

-----------------------------------------------------------------------------
(* All operations: the books, which are seenSignatures and runCount *)

(* What has been seen of a diary begins with its history. *)
InStep(st) == IsPrefix(Signatures(st.history), st.seenSignatures)

(* The claims of a call that are in the diary, or were. *)
Counted(c) == IF ClaimWritten(c) THEN claimed[c] ELSE {}
Written == {x \in Call \X Signature : ClaimWritten(x[1]) /\ x[2] \in claimed[x[1]]}
Rewriting == {"saveResult", "saveFailure", "save"}

(* What is so of each call: its copy has the stored number of claims and   *)
(* its own, and the records of these.  An operation for one task has       *)
(* nothing to do once it has claimed.                                      *)
CallBooks(c) ==
  /\ IsFiniteSet(claimed[c])
  /\ pc[c] = "idle" => op[c] = NoOp
  /\ pc[c] \in Saving => InStep(local[c])
  /\ pc[c] \in {"claiming", "notifying", "saveClaim"} =>
       local[c].runCount = store.runCount + Cardinality(claimed[c])
  /\ pc[c] \in Rewriting => op[c].kind \in Resets \/ local[c].runCount = store.runCount
  /\ pc[c] \in {"claiming", "notifying"} => \A s \in claimed[c] : Has(local[c].history, s)
  /\ pc[c] \in {"claiming", "notifying"} /\ op[c].kind # "batchClaimTasks" =>
       Len(todo[c]) <= 1 /\ (todo[c] # <<>> => claimed[c] = {})

(* What is so of the diary: the claims that were written are counted. *)
BooksInv ==
  /\ InStep(store) /\ InStep(exported)
  /\ \A c \in Call : CallBooks(c)
  /\ \/ \E c \in Call : op[c].kind \in Resets
     \/ IsFiniteSet(Written) /\ store.runCount = Cardinality(Written)

(* What a step of c may do to the books: nothing, or reset them, or enter  *)
(* its claims.                                                             *)
BooksMove(c) ==
  /\ CallBooks(c)' /\ InStep(store') /\ InStep(exported')
  /\ pc[c] # "idle" => op'[c] = op[c]
  /\ \/ Counted(c)' = Counted(c) /\ store'.runCount = store.runCount
     \/ op'[c].kind \in Resets
     \/ /\ Counted(c) = {} /\ Counted(c)' = claimed[c]
        /\ store'.runCount = store.runCount + Cardinality(claimed[c])

(* A sequence begins with another if it has its members in their places. *)
LEMMA PrefixIs ==
  ASSUME NEW T, NEW p \in Seq(T), NEW q \in Seq(T)
  PROVE  IsPrefix(p, q) <=> Len(p) <= Len(q) /\ \A i \in 1 .. Len(p) : p[i] = q[i]
<1>1. Len(p) \in Nat /\ Len(q) \in Nat
  OBVIOUS
<1>2. SubSeq(p, 1, Len(p)) = [i \in 1 .. Len(p) |-> p[i]]
  BY <1>1
<1>3. ASSUME Len(p) <= Len(q)
      PROVE  SubSeq(q, 1, Len(p)) = [i \in 1 .. Len(p) |-> q[i]]
  BY <1>1, <1>3
<1>4. [i \in 1 .. Len(p) |-> p[i]] = [i \in 1 .. Len(p) |-> q[i]]
        <=> \A i \in 1 .. Len(p) : p[i] = q[i]
  <2> DEFINE a == [i \in 1 .. Len(p) |-> p[i]]  b == [i \in 1 .. Len(p) |-> q[i]]
  <2>1. \A i \in 1 .. Len(p) : a[i] = p[i] /\ b[i] = q[i]
    OBVIOUS
  <2>2. a = b => \A i \in 1 .. Len(p) : a[i] = b[i]
    OBVIOUS
  <2>3. (\A i \in 1 .. Len(p) : p[i] = q[i]) => a = b
    OBVIOUS
  <2> HIDE DEF a, b
  <2>4. a = b <=> \A i \in 1 .. Len(p) : p[i] = q[i]
    BY <2>1, <2>2, <2>3
  <2> QED BY <2>4 DEF a, b
<1> QED BY <1>2, <1>3, <1>4 DEF IsPrefix

(* The signatures of a history. *)
LEMMA SignaturesAre ==
  ASSUME NEW h \in Seq(Record)
  PROVE  /\ Signatures(h) \in Seq(Signature) /\ Len(Signatures(h)) = Len(h)
         /\ \A i \in 1 .. Len(h) : Signatures(h)[i] = h[i].signature
<1>1. Len(h) \in Nat /\ DOMAIN h = 1 .. Len(h) /\ \A i \in 1 .. Len(h) : h[i] \in Record
  BY LenProperties, ElementOfSeq
<1>2. \A i \in 1 .. Len(h) : h[i].signature \in Signature
  BY <1>1 DEF Record
<1>3. Signatures(h) \in Seq(Signature)
  BY <1>1, <1>2, IsASeq DEF Signatures
<1>4. \A i \in 1 .. Len(h) : Signatures(h)[i] = h[i].signature
  BY <1>1 DEF Signatures
<1>5. DOMAIN Signatures(h) = 1 .. Len(h)
  BY <1>1 DEF Signatures
<1>6. Len(Signatures(h)) = Len(h)
  BY <1>1, <1>3, <1>5, LenProperties
<1> QED BY <1>3, <1>4, <1>6

(* A diary whose list was computed from its history. *)
LEMMA FreshInStep ==
  ASSUME NEW st, st.history \in Seq(Record), st.seenSignatures = Signatures(st.history)
  PROVE  InStep(st)
<1>1. Signatures(st.history) \in Seq(Signature)
  BY SignaturesAre
<1>2. PICK q \in Seq(Signature) : q = Signatures(st.history)
  BY <1>1
<1>3. Len(q) \in Nat
  OBVIOUS
<1>4. IsPrefix(q, q)
  BY <1>3, PrefixIs
<1> QED BY <1>2, <1>4 DEF InStep

(* A record rewritten in its place changes no signature. *)
LEMMA RewrittenInStep ==
  ASSUME NEW st, NEW x, InStep(st), OneEach(st.history), NEW s, Has(st.history, s),
         NEW r \in Record, r.signature = s,
         x.history = [st.history EXCEPT ![IndexOf(st.history, s)] = r],
         x.seenSignatures = st.seenSignatures
  PROVE  InStep(x)
<1> DEFINE h == st.history  g == x.history
<1>1. /\ DOMAIN g = DOMAIN h /\ \A i \in DOMAIN h : g[i].signature = h[i].signature
  <2>1. h = st.history /\ g = [h EXCEPT ![IndexOf(h, s)] = r] /\ OneEach(h) /\ Has(h, s)
    OBVIOUS
  <2> HIDE DEF h, g
  <2>2. DOMAIN g = DOMAIN h
    BY <2>1, ReplacedAt
  <2>3. \A i \in DOMAIN h : g[i].signature = h[i].signature
    BY <2>1, ReplacedAt
  <2> QED BY <2>2, <2>3
<1>2. Signatures(g) = Signatures(h)
  BY <1>1 DEF Signatures
<1> QED BY <1>2 DEF InStep

(* Nor does a cut of the history, other than those it cuts. *)
LEMMA CutInStep ==
  ASSUME NEW st \in AgentState, InStep(st), OneEach(st.history), NEW g, g = Slice(st.history),
         NEW x, x.history = g, x.seenSignatures = st.seenSignatures
  PROVE  InStep(x)
<1> DEFINE h == st.history  q == st.seenSignatures
<1>1. h \in Seq(Record) /\ q \in Seq(Signature)
  BY DEF AgentState
<1>2. /\ OneEach(g) /\ Len(g) <= Len(h) /\ \A i \in DOMAIN g : i \in DOMAIN h /\ g[i] = h[i]
  <2>1. Fits(g) /\ Len(g) <= Len(h)
    BY Sliced
  <2>2. \A i \in DOMAIN g : i \in DOMAIN h /\ g[i] = h[i]
    BY Sliced
  <2> QED BY <2>1, <2>2 DEF Fits
<1>3. /\ g \in Seq(Record) /\ DOMAIN g = 1 .. Len(g) /\ Len(g) \in Nat
      /\ DOMAIN h = 1 .. Len(h) /\ Len(h) \in Nat /\ Len(q) \in Nat
  BY <1>1, <1>2, Each
<1>4. IsPrefix(Signatures(h), q)
  BY DEF InStep
<1> HIDE DEF h, q
<1>5. /\ Signatures(h) \in Seq(Signature) /\ Len(Signatures(h)) = Len(h)
      /\ \A i \in 1 .. Len(h) : Signatures(h)[i] = h[i].signature
  BY <1>1, SignaturesAre
<1>6. /\ Signatures(g) \in Seq(Signature) /\ Len(Signatures(g)) = Len(g)
      /\ \A i \in 1 .. Len(g) : Signatures(g)[i] = g[i].signature
  BY <1>3, SignaturesAre
<1>7. Len(h) <= Len(q) /\ \A i \in 1 .. Len(h) : h[i].signature = q[i]
  <2>1. PICK p \in Seq(Signature) : p = Signatures(h)
    BY <1>5
  <2>2. Len(p) <= Len(q) /\ \A i \in 1 .. Len(p) : p[i] = q[i]
    BY <1>1, <1>4, <2>1, PrefixIs
  <2> QED BY <1>5, <2>1, <2>2
<1>8. Len(g) <= Len(q) /\ \A i \in 1 .. Len(g) : g[i].signature = q[i]
  BY <1>2, <1>3, <1>7
<1>9. IsPrefix(Signatures(g), q)
  <2>1. PICK p \in Seq(Signature) : p = Signatures(g)
    BY <1>6
  <2>2. Len(p) <= Len(q) /\ \A i \in 1 .. Len(p) : p[i] = q[i]
    BY <1>6, <1>8, <2>1
  <2>3. IsPrefix(p, q)
    BY <1>1, <2>2, PrefixIs
  <2> QED BY <2>1, <2>3
<1> QED BY <1>9 DEF InStep, q

(* The claims of one call, as entries of the books. *)
LEMMA EntriesOf ==
  ASSUME NEW c, NEW S, IsFiniteSet(S)
  PROVE  IsFiniteSet({c} \X S) /\ Cardinality({c} \X S) = Cardinality(S)
<1> DEFINE f == [s \in S |-> <<c, s>>]
<1>1. f \in Bijection(S, {c} \X S)
  <2>1. f \in [S -> {c} \X S] /\ \A x \in {c} \X S : x[2] \in S /\ f[x[2]] = x
    OBVIOUS
  <2>2. \A s, t \in S : f[s] = f[t] => s = t
    OBVIOUS
  <2> HIDE DEF f
  <2> QED BY <2>1, <2>2 DEF Bijection, Injection, Surjection, IsInjective
<1> HIDE DEF f
<1> QED BY <1>1, FS_Bijection DEF ExistsBijection

(* A step that does to the books what it may keeps them. *)
LEMMA BooksKept ==
  ASSUME BodiesInv, BooksInv, NEW c \in Call, Does(c), BooksMove(c)
  PROVE  BooksInv'
<1>1. /\ TypeInv /\ TypeInv' /\ Apart(c) /\ BooksMove(c) /\ OneAtWork
      /\ store \in AgentState /\ store' \in AgentState
  BY DEF BodiesInv, Does, StoredInv
<1>2. ASSUME NEW b \in Call, b # c PROVE CallBooks(b)'
  <2>1. /\ pc'[b] = pc[b] /\ op'[b] = op[b] /\ local'[b] = local[b]
        /\ todo'[b] = todo[b] /\ claimed'[b] = claimed[b]
    BY <1>1, <1>2 DEF Apart
  <2>2. CallBooks(b)
    BY DEF BooksInv
  <2>3. CASE store' = store
    BY <2>1, <2>2, <2>3 DEF CallBooks
  <2>4. CASE store' # store
    <3>1. AtWork(c)
      BY <2>4 DEF Does
    <3>2. ~AtWork(b)
      BY <1>1, <1>2, <3>1 DEF OneAtWork
    <3>3. pc[b] \notin Body
      BY <3>2 DEF AtWork
    <3> QED BY <2>1, <2>2, <3>3 DEF CallBooks, Body, Steps, Saving, Rewriting
  <2> QED BY <2>3, <2>4
<1>3. \A b \in Call : CallBooks(b)'
  BY <1>1, <1>2 DEF BooksMove
<1>4. ASSUME NEW b \in Call, op[b].kind \in Resets PROVE op'[b].kind \in Resets
  <2>1. CASE b = c
    <3>1. pc[c] # "idle"
      <4>1. CallBooks(c) /\ NoOp.kind \notin Resets
        BY DEF BooksInv, NoOp, Resets
      <4> QED BY <1>4, <2>1, <4>1 DEF CallBooks
    <3> QED BY <1>1, <1>4, <2>1, <3>1 DEF BooksMove
  <2>2. CASE b # c
    BY <1>1, <1>4, <2>2 DEF Apart
  <2> QED BY <2>1, <2>2
<1>5. Written = UNION {{b} \X Counted(b) : b \in Call}
  <2>1. \A b \in Call : Counted(b) \subseteq Signature
    BY <1>1 DEF TypeInv, Counted
  <2> QED BY <2>1 DEF Written, Counted
<1>6. Written' = UNION {{b} \X Counted(b)' : b \in Call}
  <2>1. \A b \in Call : Counted(b)' \subseteq Signature
    BY <1>1 DEF TypeInv, Counted
  <2> QED BY <2>1 DEF Written, Counted
<1>7. \A b \in Call \ {c} : Counted(b)' = Counted(b)
  BY <1>1 DEF Apart, Counted, ClaimWritten
<1>8. CASE \E b \in Call : op[b].kind \in Resets
  BY <1>1, <1>3, <1>4, <1>8 DEF BooksMove, BooksInv
<1>9. CASE op'[c].kind \in Resets
  BY <1>1, <1>3, <1>9 DEF BooksMove, BooksInv
<1>10. CASE /\ IsFiniteSet(Written) /\ store.runCount = Cardinality(Written)
            /\ Counted(c)' = Counted(c) /\ store'.runCount = store.runCount
  <2>1. Written' = Written
    BY <1>5, <1>6, <1>7, <1>10
  <2> QED BY <1>1, <1>3, <1>10, <2>1 DEF BooksMove, BooksInv
<1>11. CASE /\ IsFiniteSet(Written) /\ store.runCount = Cardinality(Written)
            /\ Counted(c) = {} /\ Counted(c)' = claimed[c]
            /\ store'.runCount = store.runCount + Cardinality(claimed[c])
  <2> DEFINE new == {c} \X claimed[c]
  <2>1. Written' = Written \cup new /\ Written \cap new = {}
    <3>1. Written' = Written \cup new
      BY <1>5, <1>6, <1>7, <1>11
    <3>2. \A x \in Written : x[1] # c
      BY <1>5, <1>11
    <3> QED BY <3>1, <3>2
  <2>2. IsFiniteSet(claimed[c])
    BY DEF BooksInv, CallBooks
  <2>3. PICK new2 : new2 = new
    OBVIOUS
  <2>4. IsFiniteSet(new2) /\ Cardinality(new2) = Cardinality(claimed[c])
    BY <2>2, <2>3, EntriesOf
  <2> HIDE DEF new
  <2>5. PICK w : w = Written
    OBVIOUS
  <2>6. /\ IsFiniteSet(w \cup new2)
        /\ Cardinality(w \cup new2) = Cardinality(w) + Cardinality(new2) - Cardinality(w \cap new2)
    BY <1>11, <2>4, <2>5, FS_Union
  <2>7. Cardinality(w \cap new2) = 0 /\ Cardinality(w) \in Nat /\ Cardinality(new2) \in Nat
    BY <1>11, <2>1, <2>3, <2>4, <2>5, FS_EmptySet, FS_CardinalityType
  <2>8. Written' = w \cup new2
    BY <2>1, <2>3, <2>5
  <2>9. IsFiniteSet(Written') /\ store'.runCount = Cardinality(Written')
    BY <1>11, <2>4, <2>5, <2>6, <2>7, <2>8
  <2> QED BY <1>1, <1>3, <2>9 DEF BooksMove, BooksInv
<1> QED BY <1>1, <1>8, <1>9, <1>10, <1>11 DEF BooksMove, BooksInv

-----------------------------------------------------------------------------
(* All operations: the steps and the books *)

(* What a call at work has to do with the books. *)
LEMMA BookOf ==
  ASSUME BodiesInv, BooksInv, NEW c \in Call, pc[c] \notin {"idle", "done"}
  PROVE  /\ CallBooks(c) /\ BodyInv(c) /\ IsFiniteSet(claimed[c])
         /\ InStep(store) /\ InStep(exported)
         /\ store \in AgentState /\ exported \in AgentState /\ local[c] \in AgentState
         /\ OneEach(store.history) /\ OneEach(exported.history)
         /\ store.history \in Seq(Record) /\ exported.history \in Seq(Record)
         /\ store.runCount \in Nat /\ Cardinality(claimed[c]) \in Nat
         /\ op[c].kind \in LockedKinds
<1>1. CallBooks(c) /\ InStep(store) /\ InStep(exported)
  BY DEF BooksInv
<1>2. IsFiniteSet(claimed[c])
  BY <1>1 DEF CallBooks
<1>3. /\ store \in AgentState /\ exported \in AgentState
      /\ OneEach(store.history) /\ OneEach(exported.history)
  BY DEF BodiesInv, StoredInv, Fits
<1>4. BodyInv(c) /\ local[c] \in AgentState /\ op[c].kind \in LockedKinds
  BY WorkerIs
<1>5. store.runCount \in Nat /\ store.history \in Seq(Record) /\ exported.history \in Seq(Record)
  BY <1>3 DEF AgentState
<1> QED BY <1>1, <1>2, <1>3, <1>4, <1>5, FS_CardinalityType

(* Where nothing is so but that the claims are finitely many. *)
LEMMA QuietBook ==
  ASSUME NEW c \in Call, IsFiniteSet(claimed'[c]),
         pc'[c] \in {"waiting", "locked", "running", "ran", "failed", "reporting", "leaving", "done"}
  PROVE  CallBooks(c)'
BY DEF CallBooks, Saving, Rewriting

(* The body ends over the diary it found. *)
LEMMA SettleBooks ==
  ASSUME BodiesInv, BooksInv, NEW c \in Call, pc[c] \in Body,
         NEW how \in {"returned", "threw"}, NEW v \in Value \cup {Undefined}, Settle(c, how, v),
         UNCHANGED <<store, exported, op>>,
         \/ claimed' = claimed /\ (ClaimWritten(c) \/ claimed[c] = {})
         \/ claimed' = [claimed EXCEPT ![c] = {}] /\ ~ClaimWritten(c)
  PROVE  BooksMove(c)
<1>1. pc[c] \notin {"idle", "done"} /\ TypeInv
  BY DEF Body, Steps, BodiesInv
<1>2. pc'[c] = "leaving"
  BY <1>1, SettleStep
<1>3. IsFiniteSet(claimed[c]) /\ InStep(store) /\ InStep(exported)
  BY <1>1, BookOf
<1>4. claimed'[c] = Counted(c)
  BY <1>1 DEF Counted, TypeInv
<1>5. IsFiniteSet(claimed'[c]) /\ Counted(c)' = Counted(c)
  BY <1>2, <1>3, <1>4, FS_EmptySet DEF Counted, ClaimWritten
<1>6. CallBooks(c)'
  BY <1>2, <1>5, QuietBook
<1> QED BY <1>3, <1>5, <1>6 DEF BooksMove

(* A claimer reads the diary. *)
LEMMA ReadForClaimBooks ==
  ASSUME BodiesInv, BooksInv, NoBlindReads, NEW c \in Call, ReadForClaim(c)
  PROVE  BooksMove(c)
<1> DEFINE td == [i \in DOMAIN op[c].titles |-> SignatureOf[op[c].titles[i]]]
<1>1. pc[c] = "locked" /\ pc[c] \notin {"idle", "done"} /\ op[c].kind \in ClaimKinds
  BY DEF ReadForClaim
<1>2. /\ UNCHANGED <<store, exported, op, claimed>> /\ pc' = [pc EXCEPT ![c] = "claiming"]
      /\ todo' = [todo EXCEPT ![c] = td] /\ \E st \in Readings : local' = [local EXCEPT ![c] = st]
  BY DEF ReadForClaim, stored, Goto
<1>3. local' = [local EXCEPT ![c] = store]
  BY <1>2, StoreRead
<1>4. claimed[c] = {} /\ InStep(store) /\ InStep(exported) /\ store.runCount \in Nat
  BY <1>1, BookOf DEF BodyInv
<1>5. op[c].kind # "batchClaimTasks" => Len(td) <= 1
  <2> SUFFICES ASSUME op[c].kind # "batchClaimTasks" PROVE Len(td) <= 1
    OBVIOUS
  <2>1. Len(op[c].titles) = 1
    BY <1>1, TitleIs DEF OneTitleKinds, ClaimKinds
  <2>2. DOMAIN op[c].titles = 1 .. 1
    BY <1>1, <2>1, WorkerIs, LenProperties
  <2>3. DOMAIN td = 1 .. 1
    BY <2>2
  <2>4. SignatureOf[op[c].titles[1]] \in Signature
    BY <1>1, <2>1, WorkerIs, SignatureAssumption
  <2>5. td \in Seq(Signature)
    <3>1. \A i \in 1 .. 1 : td[i] = SignatureOf[op[c].titles[1]]
      BY <2>2
    <3>2. td = [i \in 1 .. 1 |-> SignatureOf[op[c].titles[1]]]
      BY <2>2
    <3> HIDE DEF td
    <3> QED BY <2>4, <3>2, IsASeq
  <2> HIDE DEF td
  <2>6. Len(td) = 1
    BY <2>3, <2>5, LenProperties
  <2> QED BY <2>6
<1> HIDE DEF td
<1>6. pc'[c] = "claiming" /\ local'[c] = store /\ todo'[c] = td /\ claimed'[c] = {} /\ op'[c] = op[c]
  BY <1>2, <1>3, <1>4 DEF BodiesInv, TypeInv
<1>7. CallBooks(c)'
  BY <1>2, <1>4, <1>5, <1>6, FS_EmptySet DEF CallBooks, Saving, Rewriting
<1>8. Counted(c)' = Counted(c)
  BY <1>4, <1>6 DEF Counted
<1> QED BY <1>2, <1>4, <1>6, <1>7, <1>8 DEF BooksMove

(* A live record ends an operation for one task, before it has claimed. *)
LEMMA SkipLiveBooks ==
  ASSUME BodiesInv, BooksInv, NEW c \in Call, SkipLive(c)
  PROVE  BooksMove(c)
<1>1. pc[c] = "claiming" /\ pc[c] \in Body /\ pc[c] \notin {"idle", "done"} /\ todo[c] # <<>>
  BY DEF SkipLive, Body, Steps
<1>2. UNCHANGED <<store, exported, op, claimed>>
  BY DEF SkipLive, shared, stored
<1>3. CallBooks(c) /\ InStep(store) /\ InStep(exported)
  BY <1>1, BookOf
<1>4. CASE op[c].kind = "batchClaimTasks"
  <2>1. pc'[c] = "claiming" /\ local'[c] = local[c]
    BY <1>1, <1>4 DEF SkipLive
  <2>2. CallBooks(c)' /\ Counted(c)' = Counted(c)
    BY <1>1, <1>2, <1>3, <1>4, <2>1 DEF CallBooks, Counted, ClaimWritten, Saving, Rewriting
  <2> QED BY <1>2, <1>3, <2>2 DEF BooksMove
<1>5. CASE op[c].kind # "batchClaimTasks"
  <2>1. PICK v : Settle(c, "returned", v) /\
                 v = IF op[c].kind = "executeOnce"
                     THEN Find(local[c].history, Head(todo[c])).result ELSE Undefined
    BY <1>5 DEF SkipLive
  <2>2. v \in Value \cup {Undefined}
    <3>1. OneEach(local[c].history) /\ Has(local[c].history, Head(todo[c]))
      BY <1>1, WorkerIs DEF BodyInv, ClaimStage, Claims, Copy, Live, SkipLive
    <3>2. Find(local[c].history, Head(todo[c])) \in Record
      BY <3>1, FoundAt
    <3> QED BY <2>1, <3>2 DEF Record
  <2>3. claimed[c] = {}
    BY <1>1, <1>3, <1>5 DEF CallBooks
  <2> QED BY <1>1, <1>2, <2>1, <2>2, <2>3, SettleBooks
<1> QED BY <1>4, <1>5

(* An expired record is reported first. *)
LEMMA NotifyBooks ==
  ASSUME BodiesInv, BooksInv, NEW c \in Call, NotifyExpired(c)
  PROVE  BooksMove(c)
<1>1. /\ pc[c] = "claiming" /\ pc[c] \notin {"idle", "done"}
      /\ UNCHANGED <<store, exported, op, local, todo, claimed>>
  BY DEF NotifyExpired, shared, stored
<1>2. pc'[c] = "notifying"
  BY <1>1 DEF NotifyExpired, Goto, BodiesInv, TypeInv
<1>3. CallBooks(c) /\ InStep(store) /\ InStep(exported)
  BY <1>1, BookOf
<1>4. CallBooks(c)' /\ Counted(c)' = Counted(c)
  BY <1>1, <1>2, <1>3 DEF CallBooks, Counted, ClaimWritten, Saving, Rewriting
<1> QED BY <1>1, <1>3, <1>4 DEF BooksMove

(* A claim adds one to the count of the copy and one task to the claims. *)
LEMMA ClaimBooks ==
  ASSUME BodiesInv, BooksInv, NEW c \in Call, pc[c] \in {"claiming", "notifying"}, todo[c] # <<>>,
         NEW h, Copy(store.history, h, at[c], claimed[c]), ~Has(h, Head(todo[c])), Claim(c, h),
         \A x \in claimed[c] : Has(h, x)
  PROVE  BooksMove(c)
<1> DEFINE s == Head(todo[c])
           n == local[c].runCount
<1>1. pc[c] \notin {"idle", "done"}
  OBVIOUS
<1>2. /\ CallBooks(c) /\ IsFiniteSet(claimed[c]) /\ InStep(store) /\ InStep(exported)
      /\ local[c] \in AgentState /\ store.runCount \in Nat /\ Cardinality(claimed[c]) \in Nat
  BY <1>1, BookOf
<1>3. /\ UNCHANGED <<store, exported, op>> /\ pc' = [pc EXCEPT ![c] = "claiming"]
      /\ todo' = [todo EXCEPT ![c] = Tail(todo[c])]
      /\ claimed' = [claimed EXCEPT ![c] = claimed[c] \cup {s}]
  BY DEF Claim, shared, stored, Goto
<1>4. /\ pc'[c] = "claiming" /\ todo'[c] = Tail(todo[c]) /\ claimed'[c] = claimed[c] \cup {s}
      /\ op'[c] = op[c]
  BY <1>3 DEF BodiesInv, TypeInv
<1>5. /\ local'[c].runCount = n + 1
      /\ local'[c].history = <<Pending(s, at[c], Ttl(op[c]))>> \o h
  <2>1. local'[c] = [local[c] EXCEPT !.history = <<Pending(s, at[c], Ttl(op[c]))>> \o h, !.runCount = @ + 1]
    BY DEF Claim, BodiesInv, TypeInv
  <2> QED BY <1>2, <2>1 DEF AgentState
<1>6. s \notin claimed[c]
  OBVIOUS
<1>7. IsFiniteSet(claimed[c] \cup {s}) /\ Cardinality(claimed[c] \cup {s}) = Cardinality(claimed[c]) + 1
  <2> HIDE DEF s
  <2> QED BY <1>2, <1>6, FS_AddElement
<1>8. op[c].kind # "batchClaimTasks" => Len(Tail(todo[c])) <= 1 /\ Tail(todo[c]) = <<>>
  <2>1. op[c].kind # "batchClaimTasks" => Len(todo[c]) <= 1
    BY <1>2 DEF CallBooks
  <2>2. todo[c] \in Seq(Signature)
    BY <1>1, WorkerIs
  <2>3. Len(todo[c]) \in Nat /\ Len(todo[c]) # 0
    BY <2>2, EmptySeq
  <2>4. /\ Tail(todo[c]) \in Seq(Signature) /\ Len(Tail(todo[c])) = Len(todo[c]) - 1
    BY <2>2
  <2>5. Len(Tail(todo[c])) = 0 => Tail(todo[c]) = <<>>
    BY <2>4, EmptySeq
  <2> QED BY <2>1, <2>3, <2>4, <2>5
<1>9. n = store.runCount + Cardinality(claimed[c])
  BY <1>2 DEF CallBooks
<1> HIDE DEF n, s
<1>10. local'[c].runCount = store'.runCount + Cardinality(claimed'[c])
  <2>1. PICK a \in Nat, b \in Nat : a = store.runCount /\ b = Cardinality(claimed[c])
    BY <1>2
  <2>2. n + 1 = a + (b + 1)
    BY <1>9, <2>1
  <2>3. store'.runCount = a
    BY <1>3, <2>1
  <2>4. Cardinality(claimed'[c]) = b + 1
    BY <1>4, <1>7, <2>1
  <2> QED BY <1>5, <2>2, <2>3, <2>4
<1>13. \A x \in claimed'[c] : Has(local'[c].history, x)
  <2> DEFINE r == Pending(s, at[c], Ttl(op[c]))
             g == <<r>> \o h
  <2>1. OneEach(h) /\ r \in Record /\ r.signature = s
    <3>1. at[c] \in Nat /\ Ttl(op[c]) \in Ttls /\ todo[c] \in Seq(Signature)
      BY <1>1, WorkerIs
    <3>2. s \in Signature
      BY <3>1 DEF s
    <3> QED BY <3>1, <3>2, FreshClaim DEF Copy
  <2>2. g = <<r>> \o h /\ ~Has(h, r.signature)
    BY <2>1 DEF s
  <2> HIDE DEF r, g
  <2>3. g[1] = r
    BY <2>1, <2>2, InFront
  <2>4. \A i \in DOMAIN h : i + 1 \in DOMAIN g /\ g[i + 1] = h[i]
    BY <2>1, <2>2, InFront
  <2>5. 1 \in DOMAIN g
    <3>1. OneEach(g) /\ Len(g) = Len(h) + 1
      BY <2>1, <2>2, InFront
    <3>2. DOMAIN g = 1 .. Len(h) + 1 /\ Len(h) \in Nat
      BY <2>1, <3>1, Each
    <3> QED BY <3>2
  <2>6. Has(g, s) /\ \A x \in claimed[c] : Has(g, x)
    BY <2>1, <2>3, <2>4, <2>5 DEF Has
  <2>7. g = local'[c].history
    BY <1>5, <2>2 DEF r
  <2> QED BY <1>4, <2>6, <2>7
<1>11. CallBooks(c)'
  BY <1>4, <1>7, <1>8, <1>10, <1>13 DEF CallBooks, Saving, Rewriting
<1>12. Counted(c)' = Counted(c)
  BY <1>4 DEF Counted, ClaimWritten
<1> QED BY <1>2, <1>3, <1>4, <1>11, <1>12 DEF BooksMove

(* A new task is claimed ... *)
LEMMA ClaimNewBooks ==
  ASSUME BodiesInv, BooksInv, NEW c \in Call, ClaimNew(c)
  PROVE  BooksMove(c)
<1>1. /\ pc[c] = "claiming" /\ pc[c] \notin {"idle", "done"} /\ todo[c] # <<>>
      /\ ~Has(local[c].history, Head(todo[c])) /\ Claim(c, local[c].history)
  BY DEF ClaimNew
<1>2. Copy(store.history, local[c].history, at[c], claimed[c])
  BY <1>1, WorkerIs DEF BodyInv, ClaimStage, Claims
<1>3. \A x \in claimed[c] : Has(local[c].history, x)
  BY <1>1, BookOf DEF CallBooks
<1> QED BY <1>1, <1>2, <1>3, ClaimBooks

(* ... or one that has expired, which none of the claims has. *)
LEMMA ReplaceExpiredBooks ==
  ASSUME BodiesInv, BooksInv, NEW c \in Call, ReplaceExpired(c)
  PROVE  BooksMove(c)
<1> DEFINE h == local[c].history
           k == IndexOf(h, Head(todo[c]))
           g == RemoveAt(h, k)
<1>1. pc[c] = "notifying" /\ pc[c] \notin {"idle", "done"} /\ Claim(c, g)
  BY DEF ReplaceExpired
<1>2. /\ Copy(store.history, h, at[c], claimed[c]) /\ todo[c] # <<>>
      /\ Has(h, Head(todo[c])) /\ IsExpired(Find(h, Head(todo[c])), at[c])
  BY <1>1, WorkerIs DEF BodyInv, ClaimStage, Claims
<1>3. \A x \in claimed[c] : Has(h, x)
  BY <1>1, BookOf DEF CallBooks
<1> HIDE DEF h
<1>4. OneEach(h)
  BY <1>2 DEF Copy
<1>5. k \in DOMAIN h /\ IsExpired(h[k], at[c]) /\ h[k].signature = Head(todo[c])
  BY <1>2, <1>4, FoundAt
<1> HIDE DEF k
<1>6. Copy(store.history, g, at[c], claimed[c]) /\ ~Has(g, Head(todo[c]))
  BY <1>2, <1>5, CopyWithout
<1>7. ASSUME NEW x \in claimed[c] PROVE Has(g, x)
  <2>1. PICK i \in DOMAIN h : h[i].signature = x
    BY <1>3 DEF Has
  <2>2. ~IsExpired(h[i], at[c])
    BY <1>2, <2>1 DEF Copy, ClaimsOf
  <2>3. \A j \in DOMAIN h : j # k => h[j] \in Range(g)
    BY <1>4, <1>5, Without
  <2>4. h[i] \in Range(g)
    BY <1>5, <2>2, <2>3
  <2> QED BY <2>1, <2>4 DEF Has, Range
<1> HIDE DEF g
<1> QED BY <1>1, <1>2, <1>6, <1>7, ClaimBooks

(* The claims are ready: what was seen is computed from the history. *)
LEMMA EndOfClaimsBooks ==
  ASSUME BodiesInv, BooksInv, NEW c \in Call, EndOfClaims(c)
  PROVE  BooksMove(c)
<1> DEFINE g == Slice(local[c].history)
           x == [WithHistory(local[c], g) EXCEPT !.lastRun = at[c]]
<1>1. /\ pc[c] = "claiming" /\ pc[c] \in Body /\ pc[c] \notin {"idle", "done"}
      /\ UNCHANGED <<store, exported, op, claimed>>
  BY DEF EndOfClaims, Body, Steps, shared, stored
<1>2. CallBooks(c) /\ InStep(store) /\ InStep(exported) /\ local[c] \in AgentState
  BY <1>1, BookOf
<1>3. CASE claimed[c] = {}
  <2>1. Settle(c, "returned", Undefined)
    BY <1>3 DEF EndOfClaims
  <2> QED BY <1>1, <1>3, <2>1, SettleBooks
<1>4. CASE claimed[c] # {}
  <2>1. /\ local' = [local EXCEPT ![c] = x] /\ pc' = [pc EXCEPT ![c] = "saveClaim"]
    BY <1>4 DEF EndOfClaims, Goto
  <2>2. OneEach(local[c].history)
    BY <1>1, WorkerIs DEF BodyInv, ClaimStage, Claims, Copy
  <2>3. g \in Seq(Record)
    BY <2>2, Sliced DEF Fits, OneEach
  <2> HIDE DEF g
  <2>4. /\ x.history = g /\ x.seenSignatures = Signatures(g) /\ x.runCount = local[c].runCount
    BY <1>2 DEF AgentState, WithHistory
  <2> HIDE DEF x
  <2>5. InStep(x)
    BY <2>3, <2>4, FreshInStep
  <2>6. pc'[c] = "saveClaim" /\ local'[c] = x
    BY <2>1 DEF BodiesInv, TypeInv
  <2>7. CallBooks(c)'
    BY <1>1, <1>2, <2>4, <2>5, <2>6 DEF CallBooks, Saving, Rewriting, InStep
  <2>8. Counted(c)' = Counted(c)
    BY <1>1, <2>6 DEF Counted, ClaimWritten
  <2> QED BY <1>1, <1>2, <2>7, <2>8 DEF BooksMove
<1> QED BY <1>3, <1>4

(* They are written, and count from now on. *)
LEMMA SaveClaimBooks ==
  ASSUME BodiesInv, BooksInv, NEW c \in Call, SaveClaim(c)
  PROVE  BooksMove(c)
<1>1. /\ pc[c] = "saveClaim" /\ pc[c] \notin {"idle", "done"}
      /\ store' = local[c] /\ UNCHANGED <<exported, op, claimed>>
  BY DEF SaveClaim
<1>2. pc'[c] \in {"running", "leaving"}
  BY DEF SaveClaim, Settle, Goto, BodiesInv, TypeInv
<1>3. CallBooks(c) /\ IsFiniteSet(claimed[c]) /\ InStep(exported)
  BY <1>1, BookOf
<1>4. InStep(local[c]) /\ local[c].runCount = store.runCount + Cardinality(claimed[c])
  BY <1>1, <1>3 DEF CallBooks, Saving
<1>5. CallBooks(c)'
  BY <1>1, <1>2, <1>3, QuietBook
<1>6. Counted(c) = {} /\ Counted(c)' = claimed[c]
  BY <1>1, <1>2 DEF Counted, ClaimWritten
<1>7. InStep(store')
  BY <1>1, <1>4 DEF InStep
<1> QED BY <1>1, <1>3, <1>4, <1>5, <1>6, <1>7 DEF BooksMove

(* The operation has nothing to write. *)
LEMMA LeaveBooks ==
  ASSUME BodiesInv, BooksInv, NEW c \in Call, pc[c] = "locked", NEW how \in {"returned", "threw"},
         Leave(c, how)
  PROVE  BooksMove(c)
<1>1. /\ Settle(c, how, Undefined) /\ UNCHANGED <<store, exported, op, claimed>>
      /\ pc[c] \in Body /\ ClaimWritten(c)
  BY DEF Leave, stored, Body, ClaimWritten
<1> QED BY <1>1, SettleBooks

(* A changed diary is ready to be written: its list follows its history,   *)
(* and its count is the stored one, unless it is imported or cleared.      *)
LEMMA ChangeBooks ==
  ASSUME BodiesInv, BooksInv, NEW c \in Call, pc[c] \in {"locked", "ran", "failed"},
         NEW l \in Rewriting, Goto(c, l), NEW x, local' = [local EXCEPT ![c] = x],
         UNCHANGED <<store, exported, op, claimed>>,
         InStep(x), op[c].kind \in Resets \/ x.runCount = store.runCount
  PROVE  BooksMove(c)
<1>1. pc[c] \notin {"idle", "done"}
  OBVIOUS
<1>2. IsFiniteSet(claimed[c]) /\ InStep(store) /\ InStep(exported)
  BY <1>1, BookOf
<1>3. pc'[c] = l /\ local'[c] = x
  BY DEF Goto, BodiesInv, TypeInv
<1>4. CallBooks(c)'
  BY <1>2, <1>3 DEF CallBooks, Saving, Rewriting, InStep
<1>5. Counted(c)' = Counted(c)
  BY <1>3 DEF Counted, ClaimWritten, Rewriting
<1> QED BY <1>1, <1>2, <1>4, <1>5 DEF BooksMove

(* The same for an operation with a change to write. *)
LEMMA PlainChangeBooks ==
  ASSUME BodiesInv, BooksInv, NEW c \in Call, pc[c] = "locked", NEW x, Change(c, x),
         InStep(x), op[c].kind \in Resets \/ x.runCount = store.runCount
  PROVE  BooksMove(c)
<1>1. /\ Goto(c, "save") /\ "save" \in Rewriting /\ local' = [local EXCEPT ![c] = x]
      /\ UNCHANGED <<store, exported, op, claimed>>
  BY DEF Change, Rewriting, stored
<1> QED BY <1>1, ChangeBooks

(* How executeOnce ended is recorded ... *)
LEMMA RecordsBooks ==
  ASSUME BodiesInv, BooksInv, NoBlindReads, NEW c \in Call, RecordResult(c) \/ RecordFailure(c)
  PROVE  BooksMove(c)
<1> DEFINE s == SignatureIn(c)
           k == IndexOf(store.history, s)
           done == Completed(store.history[k], Stringified(Returned(c)), now, Ttl(op[c]))
           failed == Failed(store.history[k], now)
<1>1. /\ pc[c] \in {"ran", "failed"} /\ pc[c] \in Body /\ pc[c] \notin {"idle", "done"}
      /\ ClaimWritten(c) /\ UNCHANGED <<store, now, exported, op, claimed>>
  BY DEF RecordResult, RecordFailure, Body, Steps, stored, ClaimWritten
<1>2. store \in AgentState /\ OneEach(store.history) /\ InStep(store)
  BY <1>1, BookOf
<1>3. CASE ~Has(store.history, s)
  <2>1. \E how \in {"returned", "threw"}, v \in Value \cup {Undefined} : Settle(c, how, v)
    <3>1. CASE RecordResult(c)
      BY <1>3, <3>1, StoreRead, Data DEF RecordResult
    <3>2. CASE RecordFailure(c)
      BY <1>3, <3>2, StoreRead DEF RecordFailure
    <3> QED BY <3>1, <3>2
  <2> QED BY <1>1, <2>1, SettleBooks
<1>4. CASE Has(store.history, s)
  <2>1. store.history[k] \in Record /\ store.history[k].signature = s
    BY <1>2, <1>4, FoundAt
  <2>2. now \in 0 .. MaxTime /\ Ttl(op[c]) \in Ttls /\ Stringified(Returned(c)) \in Value
    BY <1>1, WorkerIs, Data
  <2>3. done \in Record /\ done.signature = s /\ failed \in Record /\ failed.signature = s
    BY <2>1, <2>2, SettledStays
  <2>4. \E l \in {"saveResult", "saveFailure"}, r \in {done, failed} : \E x :
          /\ local' = [local EXCEPT ![c] = x] /\ Goto(c, l)
          /\ \/ x = [store EXCEPT !.history[k] = r]
             \/ x = [store EXCEPT !.history[k] = r, !.lastRun = now]
    <3>1. CASE RecordResult(c)
      BY <1>4, <3>1, StoreRead DEF RecordResult
    <3>2. CASE RecordFailure(c)
      BY <1>4, <3>2, StoreRead DEF RecordFailure
    <3> QED BY <3>1, <3>2
  <2> HIDE DEF done, failed
  <2>5. PICK l \in {"saveResult", "saveFailure"}, r \in {done, failed} : \E x :
          /\ local' = [local EXCEPT ![c] = x] /\ Goto(c, l)
          /\ \/ x = [store EXCEPT !.history[k] = r]
             \/ x = [store EXCEPT !.history[k] = r, !.lastRun = now]
    BY <2>4
  <2>6. PICK x :
          /\ local' = [local EXCEPT ![c] = x] /\ Goto(c, l)
          /\ \/ x = [store EXCEPT !.history[k] = r]
             \/ x = [store EXCEPT !.history[k] = r, !.lastRun = now]
    BY <2>5
  <2>7. r \in Record /\ r.signature = s /\ k = IndexOf(store.history, s)
    BY <2>3
  <2>8. InStep(x) /\ x.runCount = store.runCount
    <3>1. /\ x.history = [store.history EXCEPT ![k] = r]
          /\ x.seenSignatures = store.seenSignatures /\ x.runCount = store.runCount
      BY <1>2, <2>6 DEF AgentState
    <3>2. k = IndexOf(store.history, s)
      BY <2>7
    <3> HIDE DEF k, s
    <3>3. x.history = [store.history EXCEPT ![IndexOf(store.history, s)] = r]
      BY <3>1, <3>2
    <3> QED BY <1>2, <1>4, <2>7, <3>1, <3>3, RewrittenInStep
  <2>9. l \in Rewriting
    BY DEF Rewriting
  <2> QED BY <1>1, <2>6, <2>8, <2>9, ChangeBooks
<1> QED BY <1>3, <1>4

(* ... and a result or a failure given by name. *)
LEMMA WritesBooks ==
  ASSUME BodiesInv, BooksInv, NoBlindReads, NEW c \in Call, WriteTaskResult(c) \/ FailTask(c)
  PROVE  BooksMove(c)
<1> DEFINE s == SignatureIn(c)
           k == IndexOf(store.history, s)
           v == [by |-> c, form |-> "string"]
           done == Completed(store.history[k], v, now, Ttl(op[c]))
           failed == Failed(store.history[k], now)
<1>1. pc[c] = "locked" /\ pc[c] \notin {"idle", "done"}
  BY DEF WriteTaskResult, FailTask, Starts
<1>2. store \in AgentState /\ OneEach(store.history) /\ InStep(store)
  BY <1>1, BookOf
<1>3. CASE ~Has(store.history, s)
  <2>1. Leave(c, "threw")
    BY <1>3, StoreRead DEF WriteTaskResult, FailTask
  <2> QED BY <1>1, <2>1, LeaveBooks
<1>4. CASE Has(store.history, s)
  <2>1. store.history[k] \in Record /\ store.history[k].signature = s
    BY <1>2, <1>4, FoundAt
  <2>2. now \in 0 .. MaxTime /\ Ttl(op[c]) \in Ttls /\ v \in Value
    BY <1>1, WorkerIs DEF Value, Forms
  <2>3. done \in Record /\ done.signature = s /\ failed \in Record /\ failed.signature = s
    BY <2>1, <2>2, SettledStays
  <2>4. \/ Change(c, [store EXCEPT !.history[k] = done, !.lastRun = now])
        \/ Change(c, [store EXCEPT !.history[k] = failed, !.lastRun = now])
    BY <1>4, StoreRead DEF WriteTaskResult, FailTask
  <2>5. PICK r \in Record : /\ r.signature = s
                            /\ Change(c, [store EXCEPT !.history[k] = r, !.lastRun = now])
    <3> HIDE DEF done, failed, s, k
    <3> QED BY <2>3, <2>4
  <2> DEFINE x == [store EXCEPT !.history[k] = r, !.lastRun = now]
  <2>6. Change(c, x) /\ x = [store EXCEPT !.history[k] = r, !.lastRun = now]
        /\ k = IndexOf(store.history, s)
    BY <2>5
  <2> HIDE DEF x, k, s
  <2>7. InStep(x) /\ x.runCount = store.runCount
    <3>1. /\ x.history = [store.history EXCEPT ![k] = r]
          /\ x.seenSignatures = store.seenSignatures /\ x.runCount = store.runCount
      BY <1>2, <2>6 DEF AgentState
    <3>2. k = IndexOf(store.history, s)
      BY <2>6
    <3>3. x.history = [store.history EXCEPT ![IndexOf(store.history, s)] = r]
      BY <3>1, <3>2
    <3> QED BY <1>2, <1>4, <2>5, <3>1, <3>3, RewrittenInStep
  <2> QED BY <1>1, <2>6, <2>7, PlainChangeBooks
<1> QED BY <1>3, <1>4

(* A filtered history: what was seen is computed from it. *)
LEMMA FilterBooks ==
  ASSUME NEW st \in AgentState, OneEach(st.history), NEW K, NEW g, g = Filter(st.history, K),
         NEW x, x = WithHistory(st, g)
  PROVE  InStep(x) /\ x.runCount = st.runCount
<1>1. g \in Seq(Record)
  BY Filtered DEF OneEach
<1>2. x.history = g /\ x.seenSignatures = Signatures(g) /\ x.runCount = st.runCount
  BY DEF WithHistory, AgentState
<1> QED BY <1>1, <1>2, FreshInStep

(* deleteTask *)
LEMMA DeleteBooks ==
  ASSUME BodiesInv, BooksInv, NoBlindReads, NEW c \in Call, DeleteTask(c)
  PROVE  BooksMove(c)
<1> DEFINE s == SignatureIn(c)
           K == {r \in Range(store.history) : r.signature # s}
           x == WithHistory(store, Filter(store.history, K))
<1>1. pc[c] = "locked" /\ pc[c] \notin {"idle", "done"}
  BY DEF DeleteTask, Starts
<1>2. CASE ~Has(store.history, s)
  <2>1. Leave(c, "returned")
    BY <1>2, StoreRead DEF DeleteTask
  <2> QED BY <1>1, <2>1, LeaveBooks
<1>3. CASE Has(store.history, s)
  <2>1. Change(c, x)
    BY <1>3, StoreRead DEF DeleteTask
  <2>2. store \in AgentState /\ OneEach(store.history)
    BY <1>1, BookOf
  <2>3. InStep(x) /\ x.runCount = store.runCount
    <3> HIDE DEF K
    <3> QED BY <2>2, FilterBooks
  <2> HIDE DEF x
  <2> QED BY <1>1, <2>1, <2>3, PlainChangeBooks
<1> QED BY <1>2, <1>3

(* pruneExpiredTasks *)
LEMMA PruneBooks ==
  ASSUME BodiesInv, BooksInv, NoBlindReads, NEW c \in Call, PruneExpiredTasks(c)
  PROVE  BooksMove(c)
<1> DEFINE S == store.history
           X == ExpiredIn(S, now)
           x == WithHistory(store, Filter(S, Range(S) \ X))
<1>1. pc[c] = "locked" /\ pc[c] \notin {"idle", "done"}
  BY DEF PruneExpiredTasks, Starts
<1>2. CASE Filter(S, X) = <<>>
  <2>1. Leave(c, "returned")
    BY <1>2, StoreRead DEF PruneExpiredTasks
  <2> QED BY <1>1, <2>1, LeaveBooks
<1>3. CASE Filter(S, X) # <<>>
  <2>1. /\ local' = [local EXCEPT ![c] = x] /\ Goto(c, "save") /\ "save" \in Rewriting
        /\ UNCHANGED <<store, exported, op, claimed>>
    BY <1>3, StoreRead DEF PruneExpiredTasks, stored, Rewriting
  <2>2. store \in AgentState /\ OneEach(store.history)
    BY <1>1, BookOf
  <2>3. InStep(x) /\ x.runCount = store.runCount
    <3> HIDE DEF X
    <3> QED BY <2>2, FilterBooks
  <2> HIDE DEF x
  <2> QED BY <1>1, <2>1, <2>3, ChangeBooks
<1> QED BY <1>2, <1>3

(* An import: the list comes with the history, which is cut. *)
LEMMA ImportBooks ==
  ASSUME BodiesInv, BooksInv, NEW c \in Call, ImportHistory(c)
  PROVE  BooksMove(c)
<1> DEFINE g == Slice(exported.history)
           x == [exported EXCEPT !.history = g]
<1>1. /\ pc[c] = "locked" /\ pc[c] \notin {"idle", "done"} /\ op[c].kind \in Resets
      /\ Change(c, x)
  BY DEF ImportHistory, Starts, Resets
<1>2. exported \in AgentState /\ OneEach(exported.history) /\ InStep(exported)
  BY <1>1, BookOf
<1> HIDE DEF g
<1>3. x.history = g /\ x.seenSignatures = exported.seenSignatures /\ g = Slice(exported.history)
  BY <1>2 DEF AgentState, g
<1> HIDE DEF x
<1>4. InStep(x)
  BY <1>2, <1>3, CutInStep
<1> QED BY <1>1, <1>4, PlainChangeBooks

(* A merge, after which the list is computed. *)
LEMMA MergeBooks ==
  ASSUME BodiesInv, BooksInv, NoBlindReads, NEW c \in Call, MergeHistory(c)
  PROVE  BooksMove(c)
<1> DEFINE m == IF exported.lastRun > store.lastRun THEN exported.lastRun ELSE store.lastRun
           n == store.runCount + exported.runCount
           y == [store EXCEPT !.lastRun = m, !.runCount = n]
           g == Slice(Filter(exported.history, Unknown(exported.history, store.history)) \o store.history)
           x == WithHistory(y, g)
<1>1. pc[c] = "locked" /\ pc[c] \notin {"idle", "done"} /\ op[c].kind \in Resets
  BY DEF MergeHistory, Starts, Resets
<1>2. Change(c, x)
  BY StoreRead DEF MergeHistory
<1>3. /\ exported \in AgentState /\ OneEach(exported.history)
      /\ store \in AgentState /\ OneEach(store.history)
  BY <1>1, BookOf
<1>4. g \in Seq(Record)
  <2>1. \A t, ss : Fits(g) /\ KeepsAll(store.history, g, t, ss)
    <3>1. PICK S : S = store.history
      OBVIOUS
    <3>2. PICK E : E = exported.history
      OBVIOUS
    <3>3. \A u : u = Slice(Filter(E, Unknown(E, S)) \o S) =>
            \A t, ss : Fits(u) /\ KeepsAll(S, u, t, ss)
      BY <1>3, <3>1, <3>2, MergedKeeps
    <3> QED BY <3>1, <3>2, <3>3
  <2> HIDE DEF g
  <2> QED BY <2>1 DEF Fits, OneEach
<1> HIDE DEF m, n, g
<1>5. x.history = g /\ x.seenSignatures = Signatures(g)
  BY <1>3 DEF AgentState, WithHistory
<1> HIDE DEF x
<1>6. InStep(x)
  BY <1>4, <1>5, FreshInStep
<1> QED BY <1>1, <1>2, <1>6, PlainChangeBooks

(* The empty diary has seen nothing. *)
LEMMA EmptyInStep == InStep(EmptyState)
<1>1. /\ EmptyState.history \in Seq(Record) /\ EmptyState.seenSignatures = <<>>
      /\ EmptyState.history = <<>>
  BY DEF EmptyState
<1>2. Signatures(<<>>) = <<>>
  BY DEF Signatures
<1> QED BY <1>1, <1>2, FreshInStep

(* A clear leaves it. *)
LEMMA ClearBooks ==
  ASSUME BodiesInv, BooksInv, NEW c \in Call, ClearHistory(c)
  PROVE  BooksMove(c)
<1>1. pc[c] = "locked" /\ op[c].kind \in Resets /\ Change(c, EmptyState)
  BY DEF ClearHistory, Starts, Resets
<1> QED BY <1>1, EmptyInStep, PlainChangeBooks

(* A change is written. *)
LEMMA SavesBooks ==
  ASSUME BodiesInv, BooksInv, NEW c \in Call, SaveResult(c) \/ SaveFailure(c) \/ Save(c)
  PROVE  BooksMove(c)
<1>1. /\ pc[c] \in Rewriting /\ pc[c] \notin {"idle", "done"} /\ pc[c] \in Saving
      /\ store' = local[c] /\ UNCHANGED <<exported, op, claimed>>
  BY DEF SaveResult, SaveFailure, Save, Rewriting, Saving
<1>2. pc'[c] \in {"reporting", "leaving"}
  BY DEF SaveResult, SaveFailure, Save, Settle, Goto, BodiesInv, TypeInv
<1>3. CallBooks(c) /\ IsFiniteSet(claimed[c]) /\ InStep(exported)
  BY <1>1, BookOf
<1>4. InStep(local[c]) /\ (op[c].kind \in Resets \/ local[c].runCount = store.runCount)
  BY <1>1, <1>3 DEF CallBooks
<1>5. CallBooks(c)'
  BY <1>1, <1>2, <1>3, QuietBook
<1>6. Counted(c)' = Counted(c)
  BY <1>1, <1>2 DEF Counted, ClaimWritten, Rewriting
<1> QED BY <1>1, <1>3, <1>4, <1>5, <1>6 DEF BooksMove

(* Steps that are about neither: a function or a report is over, a call is *)
(* let in, or leaves.                                                      *)
LEMMA QuietBooks ==
  ASSUME BodiesInv, BooksInv, NEW c \in Call, UNCHANGED <<store, exported, op, claimed>>,
         pc[c] \in {"waiting", "running", "reporting", "leaving"},
         pc'[c] \in {"locked", "ran", "failed", "reporting", "leaving", "done"}
  PROVE  BooksMove(c)
<1>1. IsFiniteSet(claimed[c]) /\ InStep(store) /\ InStep(exported)
  BY BookOf
<1>2. CallBooks(c)'
  BY <1>1, QuietBook
<1>3. Counted(c)' = Counted(c)
  BY DEF Counted, ClaimWritten
<1> QED BY <1>1, <1>2, <1>3 DEF BooksMove

(* A callback, a read or a write throws: claims not written are dropped. *)
LEMMA ThrowsBooks ==
  ASSUME BodiesInv, BooksInv, NEW c \in Call,
         CallbackThrows(c) \/ ReportThrows(c) \/ StorageFails(c) \/ ReadFails(c)
  PROVE  BooksMove(c)
<1>1. /\ pc[c] \in Body /\ Settle(c, "threw", Undefined) /\ UNCHANGED <<store, exported, op>>
  BY DEF CallbackThrows, ReportThrows, StorageFails, ReadFails, Body, Steps, Saving, shared, stored
<1>2. \/ claimed' = claimed /\ ClaimWritten(c)
      \/ claimed' = [claimed EXCEPT ![c] = {}] /\ ~ClaimWritten(c)
  BY DEF CallbackThrows, ReportThrows, StorageFails, ReadFails, DropUnwritten, ClaimWritten
<1> QED BY <1>1, <1>2, SettleBooks

(* So every step in a body keeps the books. *)
LEMMA BodyBooks ==
  ASSUME BodiesInv, BooksInv, NoBlindReads, NEW c \in Call,
         BodyStep(c) \/ BodyFault(c) \/ ReadFails(c)
  PROVE  BooksMove(c)
<1>1. CASE FnReturns(c) \/ FnThrows(c) \/ Report(c)
  <2>1. /\ UNCHANGED <<store, exported, op, claimed>>
        /\ pc[c] \in {"running", "reporting"} /\ pc'[c] \in {"ran", "failed", "reporting", "leaving"}
    BY <1>1 DEF FnReturns, FnThrows, Report, Settle, Goto, shared, stored, BodiesInv, TypeInv
  <2> QED BY <2>1, QuietBooks
<1> QED BY <1>1, ReadForClaimBooks, SkipLiveBooks, NotifyBooks, ClaimNewBooks, ReplaceExpiredBooks,
     EndOfClaimsBooks, SaveClaimBooks, RecordsBooks, WritesBooks, DeleteBooks, PruneBooks,
     ImportBooks, MergeBooks, ClearBooks, SavesBooks, ThrowsBooks
  DEF BodyStep, BodyFault

-----------------------------------------------------------------------------
(* All operations: the books are exact *)

(* A call is made: it has claimed nothing. *)
LEMMA InvokeBooks ==
  ASSUME BodiesInv, BooksInv, NEW c \in Call, Invoke(c)
  PROVE  BooksMove(c)
<1>1. /\ pc[c] = "idle" /\ pc'[c] = "waiting"
      /\ UNCHANGED <<store, exported, claimed>>
  BY DEF Invoke, Goto, shared, stored, BodiesInv, TypeInv
<1>2. claimed[c] = {} /\ InStep(store) /\ InStep(exported)
  BY <1>1 DEF BodiesInv, BodyInv, BooksInv
<1>3. CallBooks(c)'
  BY <1>1, <1>2, FS_EmptySet, QuietBook
<1>4. Counted(c)' = Counted(c)
  BY <1>1, <1>2 DEF Counted
<1> QED BY <1>1, <1>2, <1>3, <1>4 DEF BooksMove

(* A read gives out what is stored. *)
LEMMA ReadBooks ==
  ASSUME BodiesInv, BooksInv, NoBlindReads, NEW c \in Call, Read(c)
  PROVE  BooksMove(c)
<1>1. /\ pc[c] = "idle" /\ pc'[c] = "done" /\ UNCHANGED <<store, claimed>>
      /\ exported' \in {store, exported}
  BY StoreRead DEF Read, Goto, BodiesInv, TypeInv
<1>2. claimed[c] = {} /\ InStep(store) /\ InStep(exported)
  BY <1>1 DEF BodiesInv, BodyInv, BooksInv
<1>3. CallBooks(c)' /\ InStep(exported')
  BY <1>1, <1>2, FS_EmptySet, QuietBook
<1>4. Counted(c)' = Counted(c)
  BY <1>1, <1>2 DEF Counted
<1> QED BY <1>1, <1>2, <1>3, <1>4 DEF BooksMove

(* The clock is not in the books. *)
LEMMA AsideKeepsBooks ==
  ASSUME BooksInv, UNCHANGED <<store, exported, pc, op, local, todo, claimed>>
  PROVE  BooksInv'
<1>1. Written' = Written
  BY DEF Written, ClaimWritten
<1>2. \A c \in Call : CallBooks(c)'
  BY DEF BooksInv, CallBooks
<1> QED BY <1>1, <1>2 DEF BooksInv

(* They are opened empty. *)
LEMMA InitBooks ==
  ASSUME DiaryInit
  PROVE  BooksInv
<1>1. InStep(store) /\ InStep(exported)
  BY EmptyInStep, SnapshotAssumption DEF DiaryInit, InStep
<1>2. Written = {} /\ store.runCount = 0
  BY DEF Written, DiaryInit, EmptyState
<1>3. \A c \in Call : CallBooks(c)
  BY FS_EmptySet DEF DiaryInit, CallBooks, Saving, Rewriting
<1>4. IsFiniteSet(Written) /\ store.runCount = Cardinality(Written)
  BY <1>2, FS_EmptySet
<1> QED BY <1>1, <1>3, <1>4 DEF BooksInv

(* Every step keeps the books. *)
LEMMA NextBooks ==
  ASSUME NoBlindReads, WorkInv, BooksInv, [Next]_vars
  PROVE  BooksInv'
<1>1. BodiesInv /\ LockInv
  BY DEF WorkInv
<1>2. CASE UNCHANGED vars \/ Tick
  BY <1>2, AsideKeepsBooks DEF vars, diaryVars, Tick
<1>3. ASSUME NEW c \in Call, Ask(c)
      PROVE  BooksInv'
  BY <1>1, <1>3, InvokeDoes, InvokeBooks, BooksKept DEF Ask
<1>4. ASSUME NEW c \in Call, Granted(c)
      PROVE  BooksInv'
  <2>1. Locked(c) /\ Does(c)
    BY <1>1, <1>4, GrantedAlone, LockedDoes DEF Granted
  <2>2. /\ pc[c] = "waiting" /\ pc'[c] = "locked"
        /\ UNCHANGED <<store, exported, op, claimed>>
    BY <1>1, <2>1 DEF Locked, Goto, shared, stored, BodiesInv, TypeInv
  <2> QED BY <1>1, <2>1, <2>2, QuietBooks, BooksKept
<1>5. ASSUME NEW c \in Call, GiveBack(c)
      PROVE  BooksInv'
  <2>1. Finish(c) /\ Does(c)
    BY <1>1, <1>5, FinishDoes DEF GiveBack
  <2>2. /\ pc[c] = "leaving" /\ pc'[c] = "done"
        /\ UNCHANGED <<store, exported, op, claimed>>
    BY <1>1, <2>1 DEF Finish, Goto, shared, stored, BodiesInv, TypeInv
  <2> QED BY <1>1, <2>1, <2>2, QuietBooks, BooksKept
<1>6. ASSUME NEW c \in Call, BodyStep(c) \/ BodyFault(c) \/ ReadFails(c)
      PROVE  BooksInv'
  BY <1>1, <1>6, BodyDoes, BodyBooks, BooksKept
<1>7. ASSUME NEW c \in Call, Read(c)
      PROVE  BooksInv'
  BY <1>1, <1>7, ReadDoes, ReadBooks, BooksKept
<1> QED BY <1>2, <1>3, <1>4, <1>5, <1>6, <1>7 DEF Next

(* The inductive invariant of what the diary counts: every copy that is on *)
(* its way into the storage has the stored number of claims and its own.   *)
THEOREM BooksInvariance ==
  ASSUME NoBlindReads
  PROVE  SafeSpec => [](WorkInv /\ BooksInv)
<1>1. Init => BooksInv
  BY InitBooks DEF Init
<1>2. WorkInv /\ BooksInv /\ [Next]_vars => BooksInv'
  BY NextBooks
<1> QED BY <1>1, <1>2, WorkInvariance, PTL DEF SafeSpec

(* seenSignatures begins with the history, whatever the operations. *)
LEMMA SeenIsInStep ==
  ASSUME BooksInv
  PROVE  SeenMatchesHistory
BY DEF BooksInv, InStep, SeenMatchesHistory

(* No claim is lost and none is counted twice. *)
LEMMA CountIsExact ==
  ASSUME BooksInv
  PROVE  RunCountExact
BY DEF BooksInv, Written, RunCountExact

-----------------------------------------------------------------------------
(* All operations: the queries *)

(* A history is as long as the set of its records is large ... *)
LEMMA LengthIsSize ==
  ASSUME NEW g, OneEach(g)
  PROVE  IsFiniteSet(Range(g)) /\ Cardinality(Range(g)) = Len(g)
<1>1. /\ Len(g) \in Nat /\ DOMAIN g = 1 .. Len(g) /\ g \in Seq(Record)
      /\ \A i, j \in 1 .. Len(g) : g[i].signature = g[j].signature => i = j
  BY Each
<1>2. PICK n \in Nat : n = Len(g)
  BY <1>1
<1>3. IsFiniteSet(1 .. n) /\ Cardinality(1 .. n) = n
  <2>1. PICK o \in Int : o = 1
    OBVIOUS
  <2>2. n \in Int
    BY <1>2
  <2>3. IsFiniteSet(o .. n) /\ Cardinality(o .. n) = IF o > n THEN 0 ELSE n - o + 1
    BY <2>1, <2>2, FS_Interval
  <2>4. (IF o > n THEN 0 ELSE n - o + 1) = n
    BY <1>2, <2>1
  <2> QED BY <2>1, <2>3, <2>4
<1>4. g \in Bijection(1 .. n, Range(g))
  <2>1. g \in [1 .. n -> Range(g)] /\ \A r \in Range(g) : \E i \in 1 .. n : g[i] = r
    BY <1>1, <1>2 DEF Range
  <2>2. \A i, j \in 1 .. n : g[i] = g[j] => i = j
    BY <1>1, <1>2
  <2> QED BY <2>1, <2>2 DEF Bijection, Injection, Surjection, IsInjective
<1> QED BY <1>2, <1>3, <1>4, FS_Bijection DEF ExistsBijection

(* ... so two that hold the same have one length. *)
LEMMA SameLength ==
  ASSUME NEW g, OneEach(g), NEW h, OneEach(h), Range(g) = Range(h)
  PROVE  Len(g) = Len(h)
BY LengthIsSize

(* Pages: all of a list, and a list in two. *)
LEMMA Pages ==
  ASSUME NEW g, Fits(g)
  PROVE  /\ Page(g, 0, AllRecords) = g
         /\ \A n \in 0 .. MaxHistory : Page(g, 0, n) \o Page(g, n, AllRecords) = g
<1>1. g \in Seq(Record) /\ Len(g) \in Nat /\ Len(g) <= MaxHistory /\ MaxHistory \in Nat \ {0}
  BY Each, HistoryAssumption DEF Fits
<1>2. \A n \in 0 .. MaxHistory : Page(g, n, AllRecords) = SubSeq(g, n + 1, Len(g))
  BY <1>1 DEF Page, AllRecords
<1>3. SubSeq(g, 1, Len(g)) = g
  BY <1>1, SubSeqFull
<1>4. ASSUME NEW n \in 0 .. MaxHistory
      PROVE  Page(g, 0, n) \o Page(g, n, AllRecords) = g
  <2>1. CASE n < Len(g)
    <3>1. Page(g, 0, n) = SubSeq(g, 1, n)
      BY <1>1, <2>1 DEF Page
    <3>2. PICK m : m = 1
      OBVIOUS
    <3>3. PICK l : l = Len(g)
      OBVIOUS
    <3>4. m \in 1 .. Len(g) + 1 /\ n \in m - 1 .. Len(g) /\ l \in n .. Len(g)
      BY <1>1, <2>1, <3>2, <3>3
    <3>5. SubSeq(g, m, n) \o SubSeq(g, n + 1, l) = SubSeq(g, m, l)
      BY <1>1, <3>4, ConcatAdjacentSubSeq
    <3> QED BY <1>2, <1>3, <3>1, <3>2, <3>3, <3>5
  <2>2. CASE ~(n < Len(g))
    <3>1. Page(g, 0, n) = SubSeq(g, 1, Len(g))
      BY <1>1, <2>2 DEF Page
    <3>2. SubSeq(g, n + 1, Len(g)) = <<>>
      <4>1. n + 1 \in Int /\ Len(g) \in Int /\ Len(g) < n + 1
        BY <1>1, <2>2
      <4> QED BY <4>1, SubSeqEmpty
    <3> QED BY <1>1, <1>2, <1>3, <3>1, <3>2, ConcatEmptySeq
  <2> QED BY <2>1, <2>2
<1>5. Page(g, 0, AllRecords) = SubSeq(g, 1, Len(g))
  BY <1>1 DEF Page, AllRecords
<1> QED BY <1>3, <1>4, <1>5

(* A filtered list of one. *)
LEMMA FilterOne ==
  ASSUME NEW t, NEW K
  PROVE  (Filter(<<t>>, K) = <<>>) = (t \notin K)
<1>1. <<t>> \in Seq({t}) /\ Len(<<t>>) = 1 /\ <<t>>[1] = t
  OBVIOUS
<1> DEFINE T == {t}
<1>2. PICK h \in Seq(T) : h = <<t>>
  BY <1>1
<1>6. Len(h) = 1 /\ h[1] = t
  BY <1>1, <1>2
<1> HIDE DEF T
<1>3. PICK F : /\ Filter(h, K) = F[Len(h)] /\ F[0] = <<>>
               /\ \A i \in 1 .. Len(h) :
                    F[i] = IF h[i] \in K THEN Append(F[i - 1], h[i]) ELSE F[i - 1]
  BY FilterSteps
<1>4. Filter(h, K) = IF t \in K THEN Append(<<>>, t) ELSE <<>>
  <2>1. F[1] = IF t \in K THEN Append(F[0], t) ELSE F[0]
    <3>1. PICK i \in 1 .. Len(h) : i = 1 /\ i - 1 = 0
      BY <1>6
    <3>2. F[i] = IF h[i] \in K THEN Append(F[i - 1], h[i]) ELSE F[i - 1]
      BY <1>3
    <3> QED BY <1>6, <3>1, <3>2
  <2> QED BY <1>3, <1>6, <2>1
<1>5. Append(<<>>, t) # <<>>
  OBVIOUS
<1> QED BY <1>2, <1>4, <1>5

(* Of the times of a list, if it has any, one is the oldest. *)
LEMMA OldestIs ==
  ASSUME NEW g, OneEach(g)
  PROVE  (g = <<>>) = ({j \in DOMAIN g : \A k \in DOMAIN g : g[j].time <= g[k].time} = {})
<1>1. /\ g \in Seq(Record) /\ Len(g) \in Nat /\ DOMAIN g = 1 .. Len(g)
      /\ \A i \in 1 .. Len(g) : g[i] \in Record
  BY Each
<1>2. CASE g = <<>>
  BY <1>2
<1>3. CASE g # <<>>
  <2> DEFINE R == OpToRel(<, Nat)  T == {g[k].time : k \in DOMAIN g}
  <2>1. IsWellFoundedOn(R, Nat)
    BY NatLessThanWellFounded
  <2>2. T \subseteq Nat /\ T # {}
    <3>1. 1 \in DOMAIN g
      BY <1>1, <1>3, EmptySeq
    <3> QED BY <1>1, <3>1 DEF Record
  <2>3. PICK x \in T : \A y \in T : ~(<<y, x>> \in R)
    <3> HIDE DEF T, R
    <3> QED BY <2>1, <2>2, WFMin
  <2>4. \A y \in T : x <= y
    <3>1. \A y \in Nat : y < x => <<y, x>> \in R
      BY <2>2 DEF OpToRel
    <3>2. \A y \in T : ~(y < x)
      <4> HIDE DEF R, T
      <4> QED BY <2>2, <2>3, <3>1
    <3> HIDE DEF T, R
    <3> QED BY <2>2, <2>3, <3>2
  <2>5. PICK j \in DOMAIN g : x = g[j].time
    OBVIOUS
  <2>6. \A k \in DOMAIN g : g[j].time <= g[k].time
    BY <2>4, <2>5
  <2> QED BY <1>3, <2>5, <2>6
<1> QED BY <1>2, <1>3

(* A list of the diary: the records that are asked for, all on one page. *)
LEMMA ListIs ==
  ASSUME Fits(store.history), NEW K, NEW g, g = Filter(store.history, K)
  PROVE  /\ Fits(g) /\ Range(g) = Range(store.history) \cap K
         /\ Page(g, 0, AllRecords) = g
<1>1. Fits(g)
  BY FilteredKeeps
<1>2. Range(g) = Range(store.history) \cap K
  BY Filtered DEF Fits
<1> QED BY <1>1, <1>2, Pages

(* A live record is a record of the list of live ones, and is found there. *)
LEMMA ListedIs ==
  ASSUME NEW h, OneEach(h), NEW g, OneEach(g), NEW t, Range(g) = {r \in Range(h) : ~IsExpired(r, t)},
         NEW s
  PROVE  /\ Live(h, s, t) <=> Has(g, s)
         /\ Has(g, s) => Has(h, s) /\ Find(g, s) = Find(h, s)
<1>1. ASSUME Live(h, s, t) PROVE Has(g, s)
  <2>1. IndexOf(h, s) \in DOMAIN h /\ Find(h, s) = h[IndexOf(h, s)] /\ Find(h, s).signature = s
    BY <1>1, FoundAt DEF Live
  <2>2. Find(h, s) \in Range(g)
    BY <1>1, <2>1 DEF Live, Range
  <2> QED BY <2>1, <2>2 DEF Range, Has
<1>2. ASSUME Has(g, s) PROVE Has(h, s) /\ Find(g, s) = Find(h, s) /\ Live(h, s, t)
  <2>1. Find(g, s) \in Range(g) /\ Find(g, s).signature = s
    BY <1>2, FoundAt DEF Range
  <2>2. PICK i \in DOMAIN h : h[i] = Find(g, s)
    BY <2>1 DEF Range
  <2>3. Find(h, h[i].signature) = h[i]
    BY IndexAt
  <2> QED BY <2>1, <2>2, <2>3 DEF Has, Live
<1> QED BY <1>1, <1>2

(* The lists of the queries, as histories. *)
LEMMA QueriesAre ==
  ASSUME Fits(store.history), NEW live, live = Filter(store.history, {r \in Records : ~IsExpired(r, now)})
  PROVE  /\ Fits(live) /\ Range(live) = {r \in Range(store.history) : ~IsExpired(r, now)}
         /\ \A n, l : ListTasks(Status, FALSE, n, l) = Page(live, n, l)
         /\ ListTasks(Status, FALSE, 0, AllRecords) = live
         /\ \A x : /\ OneEach(GetTasksByStatus(x))
                   /\ Range(GetTasksByStatus(x)) = {r \in Range(live) : r.status = x}
<1> DEFINE h == store.history
           L == {r \in Records : ~IsExpired(r, now)}
           K(ss) == {r \in Records : (FALSE \/ ~IsExpired(r, now)) /\ r.status \in ss}
<1>1. \A r \in Range(h) : r \in Record /\ r.status \in Status
  BY Each DEF Fits, Range, Record, Status
<1>2. K(Status) = L
  BY <1>1 DEF Records
<1>3. Fits(live) /\ Range(live) = Range(h) \cap L /\ Page(live, 0, AllRecords) = live
  <2>1. live = Filter(store.history, L)
    OBVIOUS
  <2> HIDE DEF L
  <2> QED BY <2>1, ListIs
<1>4. Range(live) = {r \in Range(h) : ~IsExpired(r, now)}
  BY <1>3 DEF Records
<1>5. \A n, l : ListTasks(Status, FALSE, n, l) = Page(live, n, l)
  BY <1>2 DEF ListTasks, Select
<1>6. ASSUME NEW x
      PROVE  OneEach(GetTasksByStatus(x)) /\ Range(GetTasksByStatus(x)) = {r \in Range(live) : r.status = x}
  <2> DEFINE X == K({x})  g == Filter(h, X)
  <2>1. GetTasksByStatus(x) = Page(g, 0, AllRecords)
    BY DEF GetTasksByStatus, ListTasks, Select
  <2>2. Fits(g) /\ Range(g) = Range(h) \cap X /\ Page(g, 0, AllRecords) = g
    <3> HIDE DEF X
    <3> QED BY ListIs
  <2>3. Range(h) \cap X = {r \in Range(live) : r.status = x}
    BY <1>4 DEF Records
  <2> HIDE DEF X, g
  <2> QED BY <2>1, <2>2, <2>3 DEF Fits
<1> QED BY <1>3, <1>4, <1>5, <1>6

(* The queries agree: they are all about the list of live records. *)
LEMMA QueriesAgree ==
  ASSUME Fits(store.history), now \in Nat
  PROVE  ViewsAgree
<1> DEFINE h == store.history
<1>1. OneEach(h)
  BY DEF Fits
<1>2. PICK live : live = Filter(h, {r \in Records : ~IsExpired(r, now)})
  OBVIOUS
<1>3. Fits(live) /\ Range(live) = {r \in Range(h) : ~IsExpired(r, now)}
  BY <1>2, QueriesAre
<1>4. \A n, l : ListTasks(Status, FALSE, n, l) = Page(live, n, l)
  BY <1>2, QueriesAre
<1>5. ListTasks(Status, FALSE, 0, AllRecords) = live
  BY <1>2, QueriesAre
<1>6. \A x : OneEach(GetTasksByStatus(x))
  BY <1>2, QueriesAre
<1>7. \A x : Range(GetTasksByStatus(x)) = {r \in Range(live) : r.status = x}
  BY <1>2, QueriesAre
<1>8. OneEach(live)
  BY <1>3 DEF Fits
<1>9. ASSUME NEW s
      PROVE  /\ HasProcessedTask(s) <=> Has(live, s)
             /\ Has(live, s) => FindBySignature(s) = {Find(live, s)}
  <2>1. HasProcessedTask(s) <=> Has(live, s)
    BY <1>1, <1>3, <1>8, ListedIs DEF HasProcessedTask
  <2>2. ASSUME Has(live, s) PROVE FindBySignature(s) = {Find(live, s)}
    <3>1. Has(h, s) /\ Find(live, s) = Find(h, s)
      BY <1>1, <1>3, <1>8, <2>2, ListedIs
    <3>2. IndexOf(h, s) \in DOMAIN h /\ h[IndexOf(h, s)] = Find(h, s) /\ Find(h, s).signature = s
      BY <1>1, <3>1, FoundAt
    <3>3. \A i \in DOMAIN h : h[i].signature = s => i = IndexOf(h, s)
      BY <1>1, <3>2 DEF OneEach
    <3>4. \A k \in 1 .. IndexOf(h, s) - 1 : h[k].signature # s
      <4>1. DOMAIN h = 1 .. Len(h) /\ Len(h) \in Nat
        BY <1>1, Each
      <4>2. PICK i \in 1 .. Len(h) : i = IndexOf(h, s)
        BY <3>2, <4>1
      <4> QED BY <3>3, <4>1, <4>2
    <3> QED BY <3>1, <3>2, <3>3, <3>4 DEF FindBySignature
  <2> QED BY <2>1, <2>2
<1>10. ASSUME NEW t \in Title
       PROVE  (FilterNewTasks(<<t>>) = <<>>) = HasProcessedTask(SignatureOf[t])
  <2> DEFINE K == {x \in Range(<<t>>) : ~HasProcessedTask(SignatureOf[x])}
  <2>1. FilterNewTasks(<<t>>) = Filter(<<t>>, K)
    BY DEF FilterNewTasks
  <2>2. t \in K <=> ~HasProcessedTask(SignatureOf[t])
    BY DEF Range
  <2> HIDE DEF K
  <2>3. (Filter(<<t>>, K) = <<>>) = (t \notin K)
    BY FilterOne
  <2> QED BY <2>1, <2>2, <2>3 DEF HasProcessedTask, Live
<1>11. \A n \in 0 .. MaxHistory :
         ListTasks(Status, FALSE, 0, n) \o ListTasks(Status, FALSE, n, AllRecords) = live
  <2>1. \A n \in 0 .. MaxHistory : Page(live, 0, n) \o Page(live, n, AllRecords) = live
    BY <1>3, Pages
  <2> QED BY <1>4, <2>1
<1>12. GetStats.historyCount = Len(live)
  BY <1>2 DEF GetStats, Select
<1>13. ASSUME NEW x, NEW g, g = Filter(live, {r \in Range(live) : r.status = x})
       PROVE  Len(g) = Len(GetTasksByStatus(x))
  <2> DEFINE K == {r \in Range(live) : r.status = x}
  <2>1. g = Filter(live, K)
    BY <1>13
  <2>2. OneEach(g) /\ Range(g) = Range(live) \cap K
    <3> HIDE DEF K
    <3> QED BY <1>8, <2>1, Filtered
  <2>3. Range(g) = Range(GetTasksByStatus(x))
    BY <1>7, <2>2
  <2> QED BY <1>6, <2>2, <2>3, SameLength
<1>14. /\ GetStats.pendingCount = Len(GetPendingTasks)
       /\ GetStats.doneCount = Len(GetDoneTasks)
       /\ GetStats.failedCount = Len(GetFailedTasks)
  BY <1>2, <1>13 DEF GetStats, Select, GetPendingTasks, GetDoneTasks, GetFailedTasks
<1>15. GetStats.oldestTaskAt = {} <=> live = <<>>
  <2> DEFINE O == {j \in DOMAIN live : \A k \in DOMAIN live : live[j].time <= live[k].time}
  <2>1. GetStats.oldestTaskAt = {live[i].time : i \in O}
    BY <1>2 DEF GetStats, Select
  <2>2. (live = <<>>) = (O = {})
    BY <1>8, OldestIs
  <2> HIDE DEF O
  <2> QED BY <2>1, <2>2
<1>16. ASSUME NEW i \in DOMAIN GetDoneTasks, GetDoneTasks[i].result # Undefined
       PROVE  GetDoneTasks[i] \in Range(GetTasksCompletedSince(0))
  <2> DEFINE K == {r \in Records : r.result # Undefined /\ r.time >= 0 /\ ~IsExpired(r, now)}
             r == GetDoneTasks[i]
  <2>1. r \in Range(live)
    BY <1>7, <1>16 DEF GetDoneTasks, Range
  <2>2. r \in Range(h) /\ ~IsExpired(r, now)
    BY <1>3, <2>1
  <2>3. r.time \in Nat
    <3>1. r \in Record
      BY <1>1, <2>2, Each DEF Range
    <3> QED BY <3>1 DEF Record
  <2>4. r \in K
    BY <1>16, <2>2, <2>3 DEF Records
  <2>5. GetTasksCompletedSince(0) = Filter(h, K)
    BY DEF GetTasksCompletedSince, Select
  <2> HIDE DEF K, r
  <2>6. Range(Filter(h, K)) = Range(h) \cap K
    BY <1>1, Filtered
  <2> QED BY <2>2, <2>4, <2>5, <2>6 DEF r
<1>17. \/ ListDiaryEntries(Status, 0, AllRecords) = live
       \/ \E i \in DOMAIN h : h[i].ttl = 0
  <2> SUFFICES ASSUME \A i \in DOMAIN h : h[i].ttl # 0
               PROVE  ListDiaryEntries(Status, 0, AllRecords) = live
    OBVIOUS
  <2>1. \A r \in Range(h) : r.ttl # 0 /\ r.status \in Status
    BY <1>1, Each DEF Range, Record, Status
  <2>2. {r \in Records : (r.ttl \in {NoTtl, 0} \/ ~IsExpired(r, now)) /\ r.status \in Status}
          = {r \in Records : ~IsExpired(r, now)}
    BY <2>1 DEF Records, IsExpired
  <2> QED BY <1>2, <1>3, <2>2, Pages DEF ListDiaryEntries, Select
<1> HIDE DEF h
<1> QED BY <1>5, <1>9, <1>10, <1>11, <1>12, <1>14, <1>15, <1>16, <1>17 DEF ViewsAgree, h

(* The diary agrees with itself in every state. *)
THEOREM DiaryAgreesAlways ==
  ASSUME NoBlindReads
  PROVE  SafeSpec => []DiaryAgrees
<1>1. WorkInv => HistoryIsASet /\ ViewsAgree
  <2> SUFFICES ASSUME WorkInv PROVE HistoryIsASet /\ ViewsAgree
    OBVIOUS
  <2>1. Fits(store.history) /\ now \in Nat
    BY TimeAssumption DEF WorkInv, BodiesInv, StoredInv, TypeInv
  <2> QED BY <2>1, QueriesAgree DEF Fits, OneEach, HistoryIsASet
<1>2. BooksInv => SeenMatchesHistory /\ RunCountExact
  BY SeenIsInStep, CountIsExact
<1> QED BY <1>1, <1>2, BooksInvariance, PTL DEF DiaryAgrees
=============================================================================
