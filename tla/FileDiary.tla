----------------------------- MODULE FileDiary -----------------------------
(***************************************************************************)
(* AgentDiary on LocalFileStorage (src/memory/storage.ts), the default:    *)
(* the bodies of module Diary, one JSON file, and the lock directory of    *)
(* the proper-lockfile package beside it.  The callers are processes or    *)
(* threads; any of them may die between two steps.                         *)
(*                                                                         *)
(* writeFile is two steps: open, which truncates, and write.  A file that  *)
(* is missing, empty, cut short or "null" reads as no diary, so in between *)
(* the store is the empty state.                                           *)
(***************************************************************************)
EXTENDS Diary

CONSTANTS NoCall,
          Created   \* whether the file may, or may not, be there at the start

ASSUME CreatedAssumption == Created \subseteq BOOLEAN /\ NoCall \notin Call

VARIABLES
  exists,   \* fs.existsSync(filePath)
  fl,       \* where each call is in withLock
  holder,   \* who made the lock directory
  opened,   \* calls that have opened the file for a write, not yet written
  wiped     \* history: the diary was emptied by a write that died or failed
            \* half-way, or by a late creation of the file

fileVars == <<exists, fl, holder, opened, wiped>>
vars == <<diaryVars, fileVars>>

Init ==
  /\ DiaryInit
  /\ exists \in Created
  /\ fl = [c \in Call |-> "idle"]
  /\ holder = NoCall
  /\ opened = {}
  /\ wiped = FALSE

Fl(c, l) == fl' = [fl EXCEPT ![c] = l]

(* withLock up to its first await: a file that is not there is created.    *)
Ask(c) ==
  /\ Invoke(c)
  /\ Fl(c, IF exists THEN "locking" ELSE "creating")
  /\ UNCHANGED <<exists, holder, opened, wiped>>

(* writeFile(filePath, "null"), before the lock is taken. *)
CreateOpen(c) ==
  /\ fl[c] = "creating" /\ c \notin opened /\ pc[c] = "waiting"
  /\ exists' = TRUE
  /\ store' = EmptyState
  /\ wiped' = (wiped \/ store # EmptyState)
  /\ opened' = opened \cup {c}
  /\ UNCHANGED <<now, exported, lost, pc, op, local, at, todo, claimed, answer,
                 fl, holder>>

CreateWrite(c) ==
  /\ fl[c] = "creating" /\ c \in opened /\ pc[c] = "waiting"
  /\ store' = EmptyState
  /\ wiped' = (wiped \/ store # EmptyState)
  /\ opened' = opened \ {c}
  /\ Fl(c, "locking")
  /\ UNCHANGED <<now, exported, lost, pc, op, local, at, todo, claimed, answer,
                 exists, holder>>

(* Mutant of LockIsFree: every lock directory counts as stale. *)
AlwaysStale == TRUE

(* The lock directory of a dead process grows stale and is taken over; a   *)
(* live one keeps its directory fresh.                                     *)
LockIsFree == holder # NoCall => pc[holder] = "crashed"

Granted(c) ==
  /\ fl[c] = "locking"
  /\ LockIsFree
  /\ holder' = c
  /\ Fl(c, "inside")
  /\ Locked(c)
  /\ UNCHANGED <<exists, opened, wiped>>

(* All retries found the lock taken: ELOCKED. *)
GiveUp(c) ==
  /\ fl[c] = "locking" /\ pc[c] = "waiting"
  /\ ~LockIsFree
  /\ Fl(c, "done")
  /\ Goto(c, "done")
  /\ outcome' = [outcome EXCEPT ![c] = "threw"]
  /\ UNCHANGED <<shared, op, local, at, todo, claimed, result,
                 exists, holder, opened, wiped>>

(* set: the file is opened, and with that emptied... *)
SetOpen(c) ==
  /\ pc[c] \in Saving /\ c \notin opened
  /\ store' = EmptyState
  /\ opened' = opened \cup {c}
  /\ UNCHANGED <<now, exported, lost, pc, op, local, at, todo, claimed, answer,
                 exists, fl, holder, wiped>>

(* It cannot be opened: set throws, the diary is as it was. *)
SetRefused(c) ==
  /\ pc[c] \in Saving /\ c \notin opened
  /\ BodyFault(c)
  /\ UNCHANGED fileVars

(* ... and written: the step that module Diary calls Save; or it fails.    *)
SetWrite(c) ==
  /\ pc[c] \in Saving /\ c \in opened
  /\ opened' = opened \ {c}
  /\ \/ BodyStep(c) /\ UNCHANGED wiped
     \/ BodyFault(c) /\ wiped' = TRUE
  /\ UNCHANGED <<exists, fl, holder>>

Inside(c) ==
  /\ pc[c] \notin Saving
  /\ BodyStep(c) \/ BodyFault(c)
  /\ UNCHANGED fileVars

(* `await release()`, which removes the lock directory. *)
GiveBack(c) ==
  /\ Finish(c)
  /\ Fl(c, "done")
  /\ holder' = NoCall
  /\ UNCHANGED <<exists, opened, wiped>>

Dies(c) ==
  /\ Crash(c)
  /\ opened' = opened \ {c}
  /\ wiped' = (wiped \/ (c \in opened /\ pc[c] \in Saving))
  /\ UNCHANGED <<exists, fl, holder>>

(* The steps of a call that has begun, crashes aside. *)
Proceed(c) ==
  \/ CreateOpen(c) \/ CreateWrite(c) \/ Granted(c) \/ GiveUp(c)
  \/ SetOpen(c) \/ SetRefused(c) \/ SetWrite(c)
  \/ Inside(c) \/ GiveBack(c)

(* The clock stands still: what expires does so as in MemoryDiary. *)
Next ==
  \E c \in Call :
    \/ Ask(c) \/ Proceed(c) \/ Dies(c)
    \/ Read(c) /\ UNCHANGED fileVars

SafeSpec == Init /\ [][Next]_vars

(* The file system answers, functions end, and a lock that is free or has  *)
(* grown stale is found so by a retry.                                     *)
Fairness == \A c \in Call : WF_vars(Proceed(c))

Spec == SafeSpec /\ Fairness

-----------------------------------------------------------------------------
(* Two bodies never run at once, stale locks of dead processes included.   *)
OneBody ==
  \A c, d \in Call : {pc[c], pc[d]} \subseteq Body \cup {"leaving"} => c = d

(* Crashes, failing functions and failing writes cost neither a second     *)
(* execution nor a stored result, as long as no crash or failure falls     *)
(* between the opening and the writing of the file, and nobody creates the *)
(* file after others have written it.                                      *)
SoundUnlessWiped ==
  ~wiped => AtMostOnce /\ (opened = {} => CompletedIsStored)

(* Every call ends, also one that waits for the lock of a dead process.    *)
EveryCallEnds ==
  \A c \in Call : pc[c] = "waiting" ~> pc[c] \in {"done", "crashed"}

=============================================================================
