---------------------------- MODULE MemoryDiary ----------------------------
(***************************************************************************)
(* AgentDiary on MemoryStorage (src/memory/storage.ts): the bodies of      *)
(* module Diary under the FIFO lock that module PromiseMutex is proved to  *)
(* implement.  The storage lives and dies with the process, so there is no *)
(* crash here; get and set are single steps.  MemoryStorage itself cannot  *)
(* fail; the storage faults are those an adapter with such a lock may have *)
(* (options.storage takes any).                                            *)
(***************************************************************************)
EXTENDS Diary, Functions

CONSTANT NoCall

VARIABLES status, ticket, arrivals   \* the lock's

Lock == INSTANCE FifoMutex

lockVars == <<status, ticket, arrivals>>
vars == <<diaryVars, lockVars>>

Init == DiaryInit /\ Lock!FifoInit

Ask(c) == Invoke(c) /\ Lock!Request(c)
Granted(c) == Locked(c) /\ Lock!Grant(c)
GiveBack(c) == Finish(c) /\ Lock!Release(c, outcome[c])

Next ==
  \/ \E c \in Call :
       \/ Ask(c) \/ Granted(c) \/ GiveBack(c)
       \/ (BodyStep(c) \/ BodyFault(c) \/ ReadFails(c) \/ Read(c))
          /\ UNCHANGED lockVars
  \/ Tick /\ UNCHANGED lockVars

SafeSpec == Init /\ [][Next]_vars

(* The event loop lets the next call in, and every await ends: storage and *)
(* callbacks answer, and the caller's function returns or throws.          *)
Fairness ==
  \A c \in Call :
    /\ WF_vars(Granted(c))
    /\ WF_vars(GiveBack(c))
    /\ WF_vars((BodyStep(c) \/ BodyFault(c)) /\ UNCHANGED lockVars)

Spec == SafeSpec /\ Fairness

-----------------------------------------------------------------------------
TypeOK == DiaryTypeOK /\ Lock!FifoTypeOK

(* A claim is written only over a diary in which the signature is free: no *)
(* live record of it was written while the claimer worked on its copy.     *)
WritesClaim(c) == pc[c] = "saveClaim" /\ store' = local[c] /\ pc'[c] # "saveClaim"
ExclusiveClaim ==
  [][\A c \in Call : WritesClaim(c) /\ outcome'[c] # "threw" =>
       \A s \in claimed[c] : ~Live(store.history, s, at[c])]_vars

(* writeTaskResult and failTask change the record of a task that was       *)
(* claimed, and never bring back one that is gone: "Task was not claimed"  *)
(* (diary.ts:458).  A signature enters the history by a claim or an import. *)
Writes(c) == pc[c] = "save" /\ pc'[c] # "save"
OnlyClaimsAddRecords ==
  [][\A s \in Signature : Has(store'.history, s) /\ ~Has(store.history, s) =>
       \E c \in Call :
         \/ pc[c] = "saveClaim" /\ s \in claimed[c]
         \/ Writes(c) /\ op[c].kind \in {"importHistory", "mergeHistory"}]_vars

(* A result once stored is what the diary answers with until it expires,   *)
(* is rewritten or deleted by name, imported over, cleared, or cut off by  *)
(* maxHistory newer records: no other step, of any call, replaces it.      *)
ResultsAreKept ==
  [][\A i \in DOMAIN store.history :
       LET r == store.history[i]
       IN  r.status = "done" =>
             \/ r \in Range(store'.history)
             \/ IsExpired(r, now)
             \/ \E c \in Call :
                  /\ Writes(c)
                  /\ \/ op[c].kind \in {"importHistory", "clearHistory"}
                     \/ /\ op[c].kind \in {"deleteTask", "writeTaskResult", "failTask"}
                        /\ SignatureIn(c) = r.signature
             \/ /\ Len(store'.history) = MaxHistory
                /\ \A j \in i .. Len(store.history) :
                     store.history[j] \notin Range(store'.history)]_vars

-----------------------------------------------------------------------------
(* executeOnce on MemoryStorage implements the register (executeOnce alone, *)
(* no TTL, room for all records, no storage errors).                       *)
RunnerOf(s) == {c \in Call : Executing(c) /\ SignatureIn(c) = s}

AskedFor == [c \in Call |-> IF op[c] = NoOp THEN NoCall ELSE SignatureIn(c)]
TaskState ==
  [s \in Signature |->
     IF ~Has(store.history, s) THEN "new"
     ELSE IF Find(store.history, s).status = "pending" THEN "running"
     ELSE Find(store.history, s).status]
Runner ==
  [s \in Signature |->
     IF RunnerOf(s) = {} THEN NoCall ELSE CHOOSE c \in RunnerOf(s) : TRUE]
Memo ==
  [s \in Signature |->
     IF Has(store.history, s) THEN Find(store.history, s).result ELSE Undefined]
Answers == [c \in Call |-> [how |-> outcome[c], value |-> result[c]]]

Register == INSTANCE OnceRegister WITH
  Raw <- Returned, Text <- Stringified,
  asks <- AskedFor, task <- TaskState, runner <- Runner, memo <- Memo,
  answers <- Answers

ExecutesOnce == Register!RegisterSpec
=============================================================================
