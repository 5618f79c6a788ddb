------------------------------- MODULE Diary -------------------------------
(***************************************************************************)
(* AgentDiary (src/diary.ts): the operations of one agent's diary, each of *)
(* which runs its body under storage.withLock("diary_<agentId>").  This    *)
(* module has the bodies, cut where they await: reading the diary, the     *)
(* onTaskExpired callback, writing the diary, the caller's function.  The  *)
(* lock is not here: MemoryDiary and LeaseDiary put these actions under    *)
(* the locks of the storage adapters.                                      *)
(*                                                                         *)
(* A member of Call is one call of one operation; which one is chosen from *)
(* Op when it is made.  `store` is what the storage holds under the        *)
(* diary's key; null reads as the empty state.  Titles, texts and fail     *)
(* reasons are left out; a result is named by the call that produced it.   *)
(***************************************************************************)
EXTENDS Calls, Sequences, FiniteSets, SequencesExt

CONSTANTS
  Op,            \* the operations a call may be: a set of OpRecord
  Title,         \* task titles
  Signature,     \* what titles are compared by
  SignatureOf,   \* computeSignature: normalizeSignature or the hashFn option
  MaxHistory,    \* options.maxHistory
  DefaultTtl,    \* options.defaultTtlMs, or NoTtl
  ObjectResult,  \* the calls whose function returns something not a string
  Snapshot,      \* states exported by diaries before: what exported starts as
  Fault,         \* which of FaultKinds may happen
  NoTtl,         \* ttlMs undefined
  Undefined      \* no result

ClaimKinds == {"executeOnce", "claimTask", "batchClaimTasks"}
LockedKinds == ClaimKinds \cup
  {"writeTaskResult", "failTask", "deleteTask", "pruneExpiredTasks",
   "importHistory", "mergeHistory", "clearHistory"}
ReadKinds == {"getTaskResult", "exportHistory"}
FaultKinds == {"fn", "callback", "storage", "get", "read", "crash"}

OneTitleKinds ==
  {"executeOnce", "claimTask", "writeTaskResult", "failTask", "deleteTask", "getTaskResult"}

Ttls == Nat \cup {NoTtl}
OpRecord == [kind : LockedKinds \cup ReadKinds, titles : Seq(Title), ttl : Ttls]

ASSUME SignatureAssumption == SignatureOf \in [Title -> Signature]
ASSUME OpAssumption ==
  /\ Op \subseteq OpRecord
  /\ \A o \in Op : o.kind \in OneTitleKinds => Len(o.titles) = 1
ASSUME HistoryAssumption == MaxHistory \in Nat \ {0}  \* maxHistory || 500
ASSUME TimeAssumption == MaxTime \in Nat /\ DefaultTtl \in Ttls
ASSUME FaultAssumption == Fault \subseteq FaultKinds

VARIABLES
  store,     \* the AgentState in the storage
  exported,  \* the last state exportHistory gave out
  lost,      \* history: a diary with something in it was taken for empty
  pc,        \* where each call is
  op,        \* what it does
  local,     \* its `state`: the copy it read and works on
  at,        \* its `now`: the time it read
  todo,      \* signatures it has still to claim, or to report as expired
  claimed,   \* signatures it has claimed
  outcome,   \* whether it returned or threw
  result     \* the task result it returned

diaryVars ==
  <<store, now, exported, lost, pc, op, local, at, todo, claimed, outcome, result>>
stored == <<store, now, exported>>
shared == <<stored, lost>>
answer == <<outcome, result>>

-----------------------------------------------------------------------------
(* Data *)

Forms == {"string", "object", "json"}
Value == [by : Call, form : Forms]
Record == [signature : Signature, status : {"pending", "done", "failed"},
           time : Nat, ttl : Ttls, result : Value \cup {Undefined}]
AgentState == [history : Seq(Record), seenSignatures : Seq(Signature),
               runCount : Nat, lastRun : Nat]

EmptyState ==
  [history |-> <<>>, seenSignatures |-> <<>>, runCount |-> 0, lastRun |-> 0]

Signatures(h) == [i \in DOMAIN h |-> h[i].signature]

(* The snapshots are diaries: each has one record of a task, and what it    *)
(* has seen begins with them, in their order.                              *)
ASSUME SnapshotAssumption ==
  \A st \in Snapshot :
    /\ st \in AgentState
    /\ IsPrefix(Signatures(st.history), st.seenSignatures)
    /\ \A i, j \in DOMAIN st.history :
         st.history[i].signature = st.history[j].signature => i = j

NoOp == [kind |-> "exportHistory", titles |-> <<>>, ttl |-> NoTtl]

IsExpired(r, t) == r.ttl # NoTtl /\ t - r.time > r.ttl

Has(h, s) == \E i \in DOMAIN h : h[i].signature = s
(* findIndex: the first record with the signature. *)
IndexOf(h, s) ==
  CHOOSE i \in DOMAIN h : /\ h[i].signature = s
                          /\ \A j \in 1 .. i - 1 : h[j].signature # s
Find(h, s) == h[IndexOf(h, s)]
(* Mutant of Live: a failed task may be claimed again. *)
LiveUnlessFailed(h, s, t) ==
  Has(h, s) /\ ~IsExpired(Find(h, s), t) /\ Find(h, s).status # "failed"
Live(h, s, t) == Has(h, s) /\ ~IsExpired(Find(h, s), t)

(* filter: the records of h that are in the set rs, in their order. *)
Filter(h, rs) ==
  LET kept[i \in 0 .. Len(h)] ==
        IF i = 0 THEN <<>>
        ELSE IF h[i] \in rs THEN Append(kept[i - 1], h[i]) ELSE kept[i - 1]
  IN  kept[Len(h)]

ExpiredIn(h, t) == {r \in Range(h) : IsExpired(r, t)}

Slice(h) == SubSeq(h, 1, IF Len(h) < MaxHistory THEN Len(h) ELSE MaxHistory)

(* Mutant of WithHistory: seenSignatures is forgotten. *)
HistoryAlone(st, h) == [st EXCEPT !.history = h]
(* State with the history h, seenSignatures recomputed from it. *)
WithHistory(st, h) ==
  [st EXCEPT !.history = h, !.seenSignatures = Signatures(h)]

Ttl(o) == IF o.ttl # NoTtl THEN o.ttl ELSE DefaultTtl

(* Mutant of Pending: time and TTL swapped. *)
PendingSwapped(s, t, ttl) ==
  [signature |-> s, status |-> "pending", time |-> ttl, ttl |-> t,
   result |-> Undefined]
Pending(s, t, ttl) ==
  [signature |-> s, status |-> "pending", time |-> t, ttl |-> ttl,
   result |-> Undefined]

(* The record with a result; the TTL is renewed if the call has one. *)
Completed(r, v, t, ttl) ==
  [r EXCEPT !.result = v, !.status = "done", !.time = t,
            !.ttl = IF ttl # NoTtl THEN ttl ELSE @]
(* The record of a failure; an earlier result stays in it. *)
Failed(r, t) == [r EXCEPT !.status = "failed", !.time = t]

(* What fn of call c returns, and what is stored of it: a string as it is, *)
(* anything else as JSON text.                                             *)
Returned(c) == [by |-> c, form |-> IF c \in ObjectResult THEN "object" ELSE "string"]
Stringified(v) == [v EXCEPT !.form = IF @ = "string" THEN "string" ELSE "json"]

SignatureIn(c) == SignatureOf[op[c].titles[1]]

-----------------------------------------------------------------------------
(* Control *)

Steps == {"claiming", "notifying", "saveClaim", "running", "ran", "failed",
          "saveResult", "saveFailure", "save", "reporting"}
Saving == {"saveClaim", "saveResult", "saveFailure", "save"}
Body == {"locked"} \cup Steps
Where == {"idle", "waiting", "leaving", "done", "crashed"} \cup Body

DiaryTypeOK ==
  /\ store \in AgentState
  /\ now \in 0 .. MaxTime
  /\ exported \in AgentState
  /\ lost \in BOOLEAN
  /\ pc \in [Call -> Where]
  /\ op \in [Call -> Op \cup {NoOp}]
  /\ local \in [Call -> AgentState]
  /\ at \in [Call -> 0 .. MaxTime]
  /\ todo \in [Call -> Seq(Signature)]
  /\ claimed \in [Call -> SUBSET Signature]
  /\ outcome \in [Call -> {"none", "returned", "threw"}]
  /\ result \in [Call -> Value \cup {Undefined}]

DiaryInit ==
  /\ store = EmptyState
  /\ now = 0
  /\ exported \in Snapshot
  /\ lost = FALSE
  /\ pc = [c \in Call |-> "idle"]
  /\ op = [c \in Call |-> NoOp]
  /\ local = [c \in Call |-> EmptyState]
  /\ at = [c \in Call |-> 0]
  /\ todo = [c \in Call |-> <<>>]
  /\ claimed = [c \in Call |-> {}]
  /\ outcome = [c \in Call |-> "none"]
  /\ result = [c \in Call |-> Undefined]

Goto(c, l) == pc' = [pc EXCEPT ![c] = l]

(* The body of the operation settles; the lock is still to be given back.  *)
(* What it worked with is gone.                                            *)
Settle(c, how, value) ==
  /\ Goto(c, "leaving")
  /\ outcome' = [outcome EXCEPT ![c] = how]
  /\ result' = [result EXCEPT ![c] = value]
  /\ local' = [local EXCEPT ![c] = EmptyState]
  /\ at' = [at EXCEPT ![c] = 0]
  /\ todo' = [todo EXCEPT ![c] = <<>>]

ClaimWritten(c) == pc[c] \notin {"claiming", "notifying", "saveClaim"}

(* Claims that were not written are claims of nobody. *)
DropUnwritten(c) ==
  claimed' = IF ClaimWritten(c) THEN claimed ELSE [claimed EXCEPT ![c] = {}]

(* The call of an operation that takes the lock. *)
Invoke(c) ==
  /\ pc[c] = "idle"
  /\ \E o \in Op : /\ o.kind \in LockedKinds
                   /\ op' = [op EXCEPT ![c] = o]
  /\ Goto(c, "waiting")
  /\ UNCHANGED <<shared, local, at, todo, claimed, answer>>

(* The lock is granted. *)
Locked(c) ==
  /\ pc[c] = "waiting"
  /\ Goto(c, "locked")
  /\ UNCHANGED <<shared, op, local, at, todo, claimed, answer>>

(* The lock is given back and the promise of the call settles. *)
Finish(c) ==
  /\ pc[c] = "leaving"
  /\ Goto(c, "done")
  /\ UNCHANGED <<shared, op, local, at, todo, claimed, answer>>

Tick ==
  /\ now < MaxTime
  /\ now' = now + 1
  /\ UNCHANGED <<store, exported, lost, pc, op, local, at, todo, claimed,
                 answer>>

(* What readDiary may give: the stored state; or the empty state, where the *)
(* adapter's get logs an error and returns null.                           *)
Readings == IF "read" \in Fault THEN {store, EmptyState} ELSE {store}
ReadDiary(st) == lost' = (lost \/ st # store)

-----------------------------------------------------------------------------
(* Claims: executeOnce, claimTask, batchClaimTasks.  The first two are a   *)
(* batch of one; the code of the three has the same steps in this order.   *)

ReadForClaim(c) ==
  /\ pc[c] = "locked"
  /\ op[c].kind \in ClaimKinds
  /\ \E st \in Readings : ReadDiary(st) /\ local' = [local EXCEPT ![c] = st]
  /\ at' = [at EXCEPT ![c] = now]
  /\ todo' = [todo EXCEPT ![c] = [i \in DOMAIN op[c].titles |->
                                    SignatureOf[op[c].titles[i]]]]
  /\ Goto(c, "claiming")
  /\ UNCHANGED <<stored, op, claimed, answer>>

(* A live record: the batch goes on without it, claimTask returns false,   *)
(* executeOnce returns record.result, whatever the record's status is.     *)
SkipLive(c) ==
  /\ pc[c] = "claiming" /\ todo[c] # <<>>
  /\ Live(local[c].history, Head(todo[c]), at[c])
  /\ IF op[c].kind = "batchClaimTasks"
     THEN /\ todo' = [todo EXCEPT ![c] = Tail(@)]
          /\ UNCHANGED <<pc, local, at, answer>>
     ELSE Settle(c, "returned",
                 IF op[c].kind = "executeOnce"
                 THEN Find(local[c].history, Head(todo[c])).result
                 ELSE Undefined)
  /\ UNCHANGED <<shared, op, claimed>>

(* Mutant of NotifyExpired: every record counts as expired. *)
NotifyAny(c) ==
  /\ pc[c] = "claiming" /\ todo[c] # <<>>
  /\ Has(local[c].history, Head(todo[c]))
  /\ Goto(c, "notifying")
  /\ UNCHANGED <<shared, op, local, at, todo, claimed, answer>>

(* An expired record: onTaskExpired(record) is awaited first. *)
NotifyExpired(c) ==
  /\ pc[c] = "claiming" /\ todo[c] # <<>>
  /\ Has(local[c].history, Head(todo[c]))
  /\ ~Live(local[c].history, Head(todo[c]), at[c])
  /\ Goto(c, "notifying")
  /\ UNCHANGED <<shared, op, local, at, todo, claimed, answer>>

(* The claim in the local copy: a pending record in front of the history h, *)
(* the next title of the batch.                                            *)
Claim(c, h) ==
  /\ local' = [local EXCEPT
       ![c].history = <<Pending(Head(todo[c]), at[c], Ttl(op[c]))>> \o h,
       ![c].runCount = @ + 1]
  /\ claimed' = [claimed EXCEPT ![c] = @ \cup {Head(todo[c])}]
  /\ todo' = [todo EXCEPT ![c] = Tail(@)]
  /\ Goto(c, "claiming")
  /\ UNCHANGED <<shared, op, at, answer>>

ClaimNew(c) ==
  /\ pc[c] = "claiming" /\ todo[c] # <<>>
  /\ ~Has(local[c].history, Head(todo[c]))
  /\ Claim(c, local[c].history)

(* The callback is over: the expired record is spliced out. *)
ReplaceExpired(c) ==
  /\ pc[c] = "notifying"
  /\ LET h == local[c].history
     IN  Claim(c, RemoveAt(h, IndexOf(h, Head(todo[c]))))

(* The callback throws, and the operation with it: nothing was written. *)
CallbackThrows(c) ==
  /\ "callback" \in Fault
  /\ pc[c] = "notifying"
  /\ Settle(c, "threw", Undefined)
  /\ DropUnwritten(c)
  /\ UNCHANGED <<shared, op>>

(* All titles looked at: cut the history to its bound and go to write it,  *)
(* or return if nothing was claimed.                                       *)
EndOfClaims(c) ==
  /\ pc[c] = "claiming" /\ todo[c] = <<>>
  /\ IF claimed[c] = {}
     THEN Settle(c, "returned", Undefined)
     ELSE /\ local' = [local EXCEPT ![c] =
                [WithHistory(@, Slice(@.history)) EXCEPT !.lastRun = at[c]]]
          /\ Goto(c, "saveClaim")
          /\ UNCHANGED <<at, todo, answer>>
  /\ UNCHANGED <<shared, op, claimed>>

(* The claim is written; executeOnce calls its function, the others return. *)
SaveClaim(c) ==
  /\ pc[c] = "saveClaim"
  /\ store' = local[c]
  /\ IF op[c].kind = "executeOnce"
     THEN /\ Goto(c, "running")
          /\ local' = [local EXCEPT ![c] = EmptyState]
          /\ at' = [at EXCEPT ![c] = 0]
          /\ UNCHANGED <<todo, answer>>
     ELSE Settle(c, "returned", Undefined)
  /\ UNCHANGED <<now, exported, lost, op, claimed>>

-----------------------------------------------------------------------------
(* executeOnce after the claim *)

FnReturns(c) ==
  /\ pc[c] = "running"
  /\ Goto(c, "ran")
  /\ UNCHANGED <<shared, op, local, at, todo, claimed, answer>>

FnThrows(c) ==
  /\ "fn" \in Fault
  /\ pc[c] = "running"
  /\ Goto(c, "failed")
  /\ UNCHANGED <<shared, op, local, at, todo, claimed, answer>>

(* Mutant of RecordResult: the record is taken to be there. *)
RecordResultOnly(c) ==
  /\ pc[c] = "ran"
  /\ Has(store.history, SignatureIn(c))
  /\ local' = [local EXCEPT ![c] =
       [store EXCEPT
          !.history[IndexOf(store.history, SignatureIn(c))] =
            Completed(@, Stringified(Returned(c)), now, Ttl(op[c])),
          !.lastRun = now]]
  /\ Goto(c, "saveResult")
  /\ UNCHANGED <<shared, op, at, todo, claimed, answer>>

(* The diary is read again; if the record is in it, it gets the result. *)
RecordResult(c) ==
  /\ pc[c] = "ran"
  /\ \E st \in Readings :
       /\ ReadDiary(st)
       /\ IF Has(st.history, SignatureIn(c))
          THEN /\ local' = [local EXCEPT ![c] =
                     [st EXCEPT
                        !.history[IndexOf(st.history, SignatureIn(c))] =
                          Completed(@, Stringified(Returned(c)), now, Ttl(op[c])),
                        !.lastRun = now]]
               /\ Goto(c, "saveResult")
               /\ UNCHANGED <<at, todo, answer>>
          ELSE Settle(c, "returned", Returned(c))
  /\ UNCHANGED <<stored, op, claimed>>

(* Mutant of SaveResult: nothing is written. *)
ReturnUnsaved(c) ==
  /\ pc[c] = "saveResult"
  /\ Settle(c, "returned", Returned(c))
  /\ UNCHANGED <<shared, op, claimed>>

SaveResult(c) ==
  /\ pc[c] = "saveResult"
  /\ store' = local[c]
  /\ Settle(c, "returned", Returned(c))
  /\ UNCHANGED <<now, exported, lost, op, claimed>>

(* The same for a failure, without lastRun; then the error is rethrown. *)
RecordFailure(c) ==
  /\ pc[c] = "failed"
  /\ \E st \in Readings :
       /\ ReadDiary(st)
       /\ IF Has(st.history, SignatureIn(c))
          THEN /\ local' = [local EXCEPT ![c] =
                     [st EXCEPT
                        !.history[IndexOf(st.history, SignatureIn(c))] =
                          Failed(@, now)]]
               /\ Goto(c, "saveFailure")
               /\ UNCHANGED <<at, todo, answer>>
          ELSE Settle(c, "threw", Undefined)
  /\ UNCHANGED <<stored, op, claimed>>

SaveFailure(c) ==
  /\ pc[c] = "saveFailure"
  /\ store' = local[c]
  /\ Settle(c, "threw", Undefined)
  /\ UNCHANGED <<now, exported, lost, op, claimed>>

-----------------------------------------------------------------------------
(* The operations that read, change and write *)

(* The new state st is ready to be written. *)
Change(c, st) ==
  /\ local' = [local EXCEPT ![c] = st]
  /\ Goto(c, "save")
  /\ UNCHANGED <<stored, op, at, todo, claimed, answer>>

(* Nothing to write. *)
Leave(c, how) ==
  /\ Settle(c, how, Undefined)
  /\ UNCHANGED <<stored, op, claimed>>

Starts(c, kind) == pc[c] = "locked" /\ op[c].kind = kind

(* Mutant of WriteTaskResult: it adds the record of an unclaimed task. *)
WriteResultAnyway(c) ==
  /\ Starts(c, "writeTaskResult")
  /\ ReadDiary(store)
  /\ LET added == IF Has(store.history, SignatureIn(c)) THEN <<>>
                   ELSE <<Pending(SignatureIn(c), now, Ttl(op[c]))>>
     IN  Change(c, WithHistory(store, added \o store.history))

WriteTaskResult(c) ==
  /\ Starts(c, "writeTaskResult")
  /\ \E st \in Readings :
       /\ ReadDiary(st)
       /\ IF Has(st.history, SignatureIn(c))
          THEN Change(c, [st EXCEPT
                 !.history[IndexOf(st.history, SignatureIn(c))] =
                   Completed(@, [by |-> c, form |-> "string"], now, Ttl(op[c])),
                 !.lastRun = now])
          ELSE Leave(c, "threw")

FailTask(c) ==
  /\ Starts(c, "failTask")
  /\ \E st \in Readings :
       /\ ReadDiary(st)
       /\ IF Has(st.history, SignatureIn(c))
          THEN Change(c, [st EXCEPT
                 !.history[IndexOf(st.history, SignatureIn(c))] = Failed(@, now),
                 !.lastRun = now])
          ELSE Leave(c, "threw")

DeleteTask(c) ==
  /\ Starts(c, "deleteTask")
  /\ \E st \in Readings :
       /\ ReadDiary(st)
       /\ IF Has(st.history, SignatureIn(c))
          THEN Change(c, WithHistory(st,
                 Filter(st.history, {r \in Range(st.history) : r.signature # SignatureIn(c)})))
          ELSE Leave(c, "returned")

(* Mutant of PruneExpiredTasks: it reports before it writes. *)
PruneReportsFirst(c) ==
  /\ Starts(c, "pruneExpiredTasks")
  /\ ReadDiary(store)
  /\ LET expired == Filter(store.history, ExpiredIn(store.history, now))
     IN  IF expired = <<>>
         THEN Leave(c, "returned")
         ELSE /\ todo' = [todo EXCEPT ![c] = Signatures(expired)]
              /\ Goto(c, "reporting")
              /\ UNCHANGED <<stored, op, local, at, claimed, answer>>

PruneExpiredTasks(c) ==
  /\ Starts(c, "pruneExpiredTasks")
  /\ \E st \in Readings :
       LET expired == Filter(st.history, ExpiredIn(st.history, now))
           kept == Filter(st.history, Range(st.history) \ ExpiredIn(st.history, now))
       IN  /\ ReadDiary(st)
           /\ IF expired = <<>>
              THEN Leave(c, "returned")
              ELSE /\ local' = [local EXCEPT ![c] = WithHistory(st, kept)]
                   /\ todo' = [todo EXCEPT ![c] = Signatures(expired)]
                   /\ Goto(c, "save")
                   /\ UNCHANGED <<stored, op, at, claimed, answer>>

(* importHistory without merge: the snapshot as it is, its history cut. *)
ImportHistory(c) ==
  /\ Starts(c, "importHistory")
  /\ Change(c, [exported EXCEPT !.history = Slice(@)])
  /\ UNCHANGED lost

(* The records of g for tasks that h does not have. *)
Unknown(g, h) == {r \in Range(g) : ~Has(h, r.signature)}

(* Mutant of MergeHistory: what is imported wins. *)
MergeReplacing(c) ==
  /\ Starts(c, "mergeHistory")
  /\ ReadDiary(store)
  /\ LET kept == Filter(store.history, Unknown(store.history, exported.history))
     IN  Change(c, WithHistory(store, Slice(exported.history \o kept)))

(* importHistory with merge: what the diary does not have goes in front. *)
MergeHistory(c) ==
  /\ Starts(c, "mergeHistory")
  /\ \E st \in Readings :
       LET unknown == Filter(exported.history, Unknown(exported.history, st.history))
           merged == [st EXCEPT
             !.lastRun = IF exported.lastRun > @ THEN exported.lastRun ELSE @,
             !.runCount = @ + exported.runCount]
       IN  /\ ReadDiary(st)
           /\ Change(c, WithHistory(merged, Slice(unknown \o st.history)))

ClearHistory(c) ==
  /\ Starts(c, "clearHistory")
  /\ Change(c, EmptyState)
  /\ UNCHANGED lost

(* The write; after it a prune reports what it removed. *)
Save(c) ==
  /\ pc[c] = "save"
  /\ store' = local[c]
  /\ IF todo[c] = <<>>
     THEN Settle(c, "returned", Undefined)
     ELSE /\ Goto(c, "reporting")
          /\ local' = [local EXCEPT ![c] = EmptyState]
          /\ UNCHANGED <<at, todo, answer>>
  /\ UNCHANGED <<now, exported, lost, op, claimed>>

(* One onTaskExpired of a prune is over. *)
Report(c) ==
  /\ pc[c] = "reporting"
  /\ IF Len(todo[c]) > 1
     THEN /\ todo' = [todo EXCEPT ![c] = Tail(@)]
          /\ UNCHANGED <<pc, local, at, answer>>
     ELSE Settle(c, "returned", Undefined)
  /\ UNCHANGED <<shared, op, claimed>>

(* It throws: the prune throws, the records that follow are not reported.  *)
ReportThrows(c) ==
  /\ "callback" \in Fault
  /\ pc[c] = "reporting"
  /\ Settle(c, "threw", Undefined)
  /\ UNCHANGED <<shared, op, claimed>>

-----------------------------------------------------------------------------
(* Operations without the lock *)

(* getTaskResult: the result of a live record.  exportHistory: the state. *)
Read(c) ==
  /\ pc[c] = "idle"
  /\ \E o \in Op, st \in Readings :
       /\ o.kind \in ReadKinds
       /\ op' = [op EXCEPT ![c] = o]
       /\ IF o.kind = "exportHistory"
          THEN exported' = st /\ UNCHANGED result
          ELSE LET s == SignatureOf[o.titles[1]]
               IN  /\ result' = [result EXCEPT ![c] =
                        IF Live(st.history, s, now)
                        THEN Find(st.history, s).result ELSE Undefined]
                   /\ UNCHANGED exported
  /\ outcome' = [outcome EXCEPT ![c] = "returned"]
  /\ Goto(c, "done")
  /\ UNCHANGED <<store, now, lost, local, at, todo, claimed>>

-----------------------------------------------------------------------------
(* Faults *)

(* The adapter's set throws: the storage is as it was, the operation throws *)
(* the adapter's error, also where fn had already returned.                *)
StorageFails(c) ==
  /\ "storage" \in Fault
  /\ pc[c] \in Saving
  /\ Settle(c, "threw", Undefined)
  /\ DropUnwritten(c)
  /\ UNCHANGED <<shared, op>>

(* The adapter's get throws, and the operation with it. *)
ReadFails(c) ==
  /\ "get" \in Fault
  /\ \/ pc[c] \in {"ran", "failed"}
     \/ pc[c] = "locked" /\ op[c].kind \notin {"importHistory", "clearHistory"}
  /\ Settle(c, "threw", Undefined)
  /\ UNCHANGED <<shared, op, claimed>>

(* The process of the call dies. *)
Crash(c) ==
  /\ "crash" \in Fault
  /\ pc[c] \in Body \cup {"waiting", "leaving"}
  /\ Goto(c, "crashed")
  /\ local' = [local EXCEPT ![c] = EmptyState]
  /\ at' = [at EXCEPT ![c] = 0]
  /\ todo' = [todo EXCEPT ![c] = <<>>]
  /\ DropUnwritten(c)
  /\ UNCHANGED <<shared, op, answer>>

(* The steps of a body that happen by themselves... *)
BodyStep(c) ==
  \/ ReadForClaim(c) \/ SkipLive(c) \/ NotifyExpired(c) \/ ClaimNew(c)
  \/ ReplaceExpired(c) \/ EndOfClaims(c) \/ SaveClaim(c)
  \/ FnReturns(c) \/ RecordResult(c) \/ SaveResult(c)
  \/ RecordFailure(c) \/ SaveFailure(c)
  \/ WriteTaskResult(c) \/ FailTask(c) \/ DeleteTask(c)
  \/ PruneExpiredTasks(c) \/ ImportHistory(c) \/ MergeHistory(c)
  \/ ClearHistory(c) \/ Save(c) \/ Report(c)
(* ... and those that go wrong, short of a crash or of a get that throws.  *)
BodyFault(c) ==
  FnThrows(c) \/ CallbackThrows(c) \/ ReportThrows(c) \/ StorageFails(c)

-----------------------------------------------------------------------------
(* What the operations promise of the diary, for a lock to make true.  The *)
(* lock modules say under which conditions each holds.                     *)

(* The history is a bounded set of signatures: whatever operations came in *)
(* whatever order, no signature is in it twice and it is not longer than   *)
(* maxHistory.                                                             *)
HistoryIsASet ==
  /\ Len(store.history) <= MaxHistory
  /\ \A i, j \in DOMAIN store.history :
       store.history[i].signature = store.history[j].signature => i = j

(* seenSignatures is history once more, by signature, and every operation  *)
(* keeps the two in step (tests/diary.test.ts:125); only an import of a     *)
(* longer diary leaves a tail in seenSignatures that history has lost.     *)
SeenMatchesHistory == IsPrefix(Signatures(store.history), store.seenSignatures)

(* A prune reports records that are gone: while it tells onTaskExpired of  *)
(* one, nobody has put its task back into the diary.                       *)
ReportedAreGone ==
  \A c \in Call : pc[c] = "reporting" =>
    \A i \in DOMAIN todo[c] : ~Has(store.history, todo[c][i])

(* No claim is lost: until somebody imports or clears, runCount is the     *)
(* number of claims that were written, however reads and writes of         *)
(* different calls interleave.                                             *)
Resets == {"importHistory", "mergeHistory", "clearHistory"}
RunCountExact ==
  \/ \E c \in Call : op[c].kind \in Resets
  \/ store.runCount =
       Cardinality({x \in Call \X Signature : ClaimWritten(x[1]) /\ x[2] \in claimed[x[1]]})

(* executeOnce between the write of its claim and that of its result. *)
Executing(c) == op[c].kind = "executeOnce"
                /\ pc[c] \in {"running", "ran", "failed", "saveResult", "saveFailure"}

Answered(c) == op[c].kind = "executeOnce" /\ outcome[c] = "returned"

(* A call that returns returns a result: "if this task already ran,        *)
(* returns the cached result [...] If it's new, runs your function"        *)
(* (README.md:74).                                                         *)
AnswerIsAResult == \A c \in Call : Answered(c) => result[c] # Undefined

HasRun(c) == op[c].kind = "executeOnce" /\ claimed[c] # {} /\ ClaimWritten(c)

(* "Guarantee tasks execute only once, no matter how many agents attempt   *)
(* them concurrently" (README.md:35): of the calls for one task, one has   *)
(* its function run.  (executeOnce alone, no TTL, room for all records.)   *)
AtMostOnce ==
  \A c, d \in Call :
    HasRun(c) /\ HasRun(d) /\ SignatureIn(c) = SignatureIn(d) => c = d

(* What a call that ended well has put into the diary is still there.      *)
(* (executeOnce alone, no TTL, room for all records.)                      *)
CompletedIsStored ==
  \A c \in Call :
    HasRun(c) /\ pc[c] \in {"leaving", "done"} /\ outcome[c] = "returned"
    => /\ Has(store.history, SignatureIn(c))
       /\ Find(store.history, SignatureIn(c)).result = Stringified(result[c])
=============================================================================
