----------------------------- MODULE LangChain -----------------------------
(***************************************************************************)
(* The LangChain classes (src/langchain): the callback handler, the cache  *)
(* and the deduplicated tool, each over a diary of its own.  The diary is  *)
(* what module OnceRegister says of executeOnce on a storage in memory,    *)
(* with the history's bound and the expiry of records added: one call at a *)
(* time is in the lock, and keeps it while its function runs.              *)
(***************************************************************************)
EXTENDS ServiceCalls, Functions

CONSTANTS
  Input, KeyOf,     \* prompts and inputs, and their normalized keys
  NoValue,          \* null and undefined
  MaxEvents,        \* maxEvents of the handler, maxHistory of each diary
  MaxClock          \* bound on the milliseconds that pass

ASSUME LangChainAssumption ==
  /\ DOMAIN KeyOf = Input /\ MaxEvents \in Nat \ {0} /\ MaxClock \in Nat

VARIABLES
  persistEvents, \* the handler's option, FALSE unless it is given
  diary,      \* the history, newest first
  holder,     \* the client in the diary's lock
  key,        \* the key each client gives executeOnce
  answer,     \* what its call returned
  eventLog, stats,  \* `events` and `stats` of the handler
  clock,      \* Date.now()
  since,      \* history: events since the last reset
  renewals,   \* history: per key, how often its record expired or was cut off
  executions, \* history: per key, how often its function was run
  epoch,      \* history: the renewals of its key when a client was answered
  newer       \* history: the keys claimed in the diary after each client's last claim

langVars == <<persistEvents, diary, holder, key, answer, eventLog, stats, clock, since,
              renewals, executions, epoch, newer>>

LangKey == Range(KeyOf)
CountedTypes == {"llm_start", "llm_error", "tool_start", "tool_error", "chain_start",
                 "chain_error", "retriever_start", "retriever_error"}
NoCounts == [t \in CountedTypes |-> 0]

LangInit ==
  /\ persistEvents \in BOOLEAN
  /\ diary = <<>> /\ holder = NoClient
  /\ key = [c \in Client |-> NoValue]
  /\ answer = [c \in Client |-> NoValue]
  /\ eventLog = <<>> /\ stats = NoCounts /\ clock = 0
  /\ since = <<>>
  /\ renewals = [k \in LangKey |-> 0] /\ executions = [k \in LangKey |-> 0]
  /\ epoch = [c \in Client |-> 0] /\ newer = [c \in Client |-> {}]

handlerVars == <<persistEvents, eventLog, stats, since>>
countVars == <<renewals, executions, epoch, newer>>

-----------------------------------------------------------------------------
(* The diary. *)
RecordsOf(k) == {i \in DOMAIN diary : diary[i].key = k}
FirstOf(k) == CHOOSE i \in RecordsOf(k) : \A j \in RecordsOf(k) : i <= j  \* findIndex
(* Mutant of Live: a record without a result does not count. *)
LiveIfDone(k) == \E i \in RecordsOf(k) : diary[i].status = "done" /\ ~diary[i].expired
Live(k) == RecordsOf(k) # {} /\ ~diary[FirstOf(k)].expired
ValueOf(k) == IF Live(k) THEN diary[FirstOf(k)].value ELSE NoValue
Claimed(k) ==
  <<[key |-> k, status |-> "pending", value |-> NoValue, expired |-> FALSE]>>
    \o (IF RecordsOf(k) = {} THEN diary ELSE RemoveAt(diary, FirstOf(k)))
(* Mutant of Slice: the newest are dropped. *)
SliceOldest(s) == SubSeq(s, IF Len(s) > MaxEvents THEN Len(s) - MaxEvents + 1 ELSE 1, Len(s))
Slice(s) == SubSeq(s, 1, IF Len(s) < MaxEvents THEN Len(s) ELSE MaxEvents)
CutOff(k) == {i \in DOMAIN Claimed(k) : i > MaxEvents}
Cut(k) == {Claimed(k)[i].key : i \in {j \in CutOff(k) : ~Claimed(k)[j].expired}}

(* Counters of the keys of prompts and inputs; the handler's are not kept. *)
Renewed(ks) == renewals' = [k \in LangKey |-> renewals[k] + (IF k \in ks THEN 1 ELSE 0)]
Executed(k) == executions' = [j \in LangKey |-> executions[j] + (IF j = k THEN 1 ELSE 0)]
EpochOf(k) == IF k \in LangKey THEN renewals[k] ELSE 0

(* A claim of c is newer than all before it, and nothing is newer than it. *)
ClaimedBy(c) == newer' = [d \in Client |-> IF d = c THEN {} ELSE newer[d] \cup {key[c]}]

AnswerFrom(c, value) ==
  /\ answer' = [answer EXCEPT ![c] = value]
  /\ epoch' = [epoch EXCEPT ![c] = EpochOf(key[c])]

(* executeOnce has the lock: the stored result, or a claim. *)
EnterDiary(c) ==
  /\ pc[c] = "asking" /\ holder = NoClient
  /\ IF Live(key[c])
     THEN /\ AnswerFrom(c, ValueOf(key[c]))
          /\ ToPc(c, "done")
          /\ UNCHANGED <<diary, holder, renewals, executions, newer>>
     ELSE /\ diary' = Slice(Claimed(key[c]))
          /\ holder' = c
          /\ Executed(key[c]) /\ Renewed(Cut(key[c])) /\ ClaimedBy(c)
          /\ ToPc(c, "executing")
          /\ UNCHANGED <<answer, epoch>>
  /\ UNCHANGED <<key, clock, handlerVars>>

(* Its function ends: only a tool's may throw.  The result is the client's *)
(* own: its value, its event or its output.                                *)
LeaveDiary(c, ok) ==
  /\ pc[c] = "executing"
  /\ ok \/ op[c].kind = "invoke"
  /\ diary' = [i \in DOMAIN diary |->
       IF diary[i].key # key[c] THEN diary[i]
       ELSE [diary[i] EXCEPT !.status = IF ok THEN "done" ELSE "failed",
                             !.value = IF ok THEN c ELSE NoValue]]
  /\ holder' = NoClient
  /\ AnswerFrom(c, IF ok THEN c ELSE NoValue)
  /\ ToPc(c, IF ok THEN "done" ELSE "threw")
  /\ UNCHANGED <<key, clock, handlerVars, renewals, executions, newer>>

(* The ttl of a prompt's or a tool's record is over. *)
ExpireRecord(i) ==
  /\ i \in DOMAIN diary /\ diary[i].key \in LangKey
  /\ diary[i].status # "pending" /\ ~diary[i].expired
  /\ diary' = [diary EXCEPT ![i].expired = TRUE]
  /\ Renewed({diary[i].key})
  /\ UNCHANGED <<callVars, holder, key, answer, clock, handlerVars, executions, epoch, newer>>

-----------------------------------------------------------------------------
(* buildCacheKey, keyBuilder and the diary's own normalization. *)
CacheKey(input) == KeyOf[input]

(* AgentDiariesCache.update and DeduplicatedTool.invoke. *)
Ask(c) ==
  /\ Starts(c, "update") \/ Starts(c, "invoke")
  /\ key' = [key EXCEPT ![c] = CacheKey(op[c].input)]
  /\ ToPc(c, "asking")
  /\ UNCHANGED <<diary, holder, answer, clock, handlerVars, countVars>>

(* AgentDiariesCache.lookup reads without the lock. *)
Lookup(c) ==
  /\ Starts(c, "lookup")
  /\ LET k == CacheKey(op[c].input) IN
       /\ key' = [key EXCEPT ![c] = k]
       /\ answer' = [answer EXCEPT ![c] = ValueOf(k)]
       /\ epoch' = [epoch EXCEPT ![c] = EpochOf(k)]
  /\ ToPc(c, "done")
  /\ UNCHANGED <<diary, holder, clock, handlerVars, renewals, executions, newer>>

(* A handle... method of the handler: stats, events, and then onEvent, if  *)
(* there is one.                                                           *)
EventOf(c) == [type |-> op[c].type, runId |-> op[c].runId, by |-> c]
LastEvents(es) == SubSeq(es, IF Len(es) > MaxEvents THEN Len(es) - MaxEvents + 1 ELSE 1, Len(es))
RecordEvent(c) ==
  /\ Starts(c, "callback")
  /\ stats' = IF op[c].type \in CountedTypes THEN [stats EXCEPT ![op[c].type] = @ + 1] ELSE stats
  /\ eventLog' = LastEvents(Append(eventLog, EventOf(c)))
  /\ since' = Append(since, EventOf(c))
  /\ ToPc(c, "telling")
  /\ UNCHANGED <<persistEvents, diary, holder, key, answer, clock, countVars>>

(* What the handler tells of its log. *)
OfType(es, t) == {i \in DOMAIN es : es[i].type = t}
GetEventsByType(t) == OfType(eventLog, t)
GetStats(t) == stats[t]

TaskKey(c) == <<op[c].type, op[c].runId, clock>>

(* onEvent is over: with persistEvents the event goes to the diary, under  *)
(* a key made of the time it is now.  If onEvent throws, so does the       *)
(* handler, and the event is not persisted.                                *)
Told(c, ok) ==
  /\ pc[c] = "telling"
  /\ IF ok /\ persistEvents
     THEN key' = [key EXCEPT ![c] = TaskKey(c)] /\ ToPc(c, "asking")
     ELSE ToPc(c, IF ok THEN "done" ELSE "threw") /\ UNCHANGED key
  /\ UNCHANGED <<diary, holder, answer, clock, handlerVars, countVars>>

Reset(c) ==
  /\ Starts(c, "reset")
  /\ eventLog' = <<>> /\ stats' = NoCounts /\ since' = <<>>
  /\ ToPc(c, "done")
  /\ UNCHANGED <<persistEvents, diary, holder, key, answer, clock, countVars>>

Tick ==
  /\ clock < MaxClock /\ \E c \in Client : pc[c] = "telling"
  /\ clock' = clock + 1
  /\ UNCHANGED <<callVars, diary, holder, key, answer, handlerVars, countVars>>

LangNext ==
  \/ \E c \in Client :
       \/ EnterDiary(c) \/ Ask(c) \/ Lookup(c) \/ RecordEvent(c) \/ Reset(c)
       \/ \E ok \in BOOLEAN : LeaveDiary(c, ok) \/ Told(c, ok)
  \/ \E i \in 1 .. MaxEvents : ExpireRecord(i)
  \/ Tick

-----------------------------------------------------------------------------
(* The handler's log is the latest events since the last reset, and its    *)
(* counters are of them all.  With persistEvents every event whose handler *)
(* has returned is in the diary, unless all that the diary has room for is *)
(* newer: only the oldest are cut off.  Of events of one type and run that *)
(* come in the same millisecond the first is stored for all: they have one *)
(* key (AgentDiariesCallbackHandler.ts:186).                               *)
Twins(c, d) == op[c].kind = "callback" /\ op[d].kind = "callback"
               /\ op[c].type = op[d].type /\ op[c].runId = op[d].runId /\ key[c] = key[d]
Persisted(c) == \E i \in DOMAIN diary : diary[i].key = key[c] /\ diary[i].value = c
CrowdedOut(c) == Len(diary) = MaxEvents /\ \A i \in DOMAIN diary : diary[i].key \in newer[c]
StoredFor(c, d) == Twins(c, d) /\ (Persisted(d) \/ CrowdedOut(d))
EventsAreKept ==
  /\ eventLog = LastEvents(since)
  /\ \A t \in CountedTypes :
       /\ GetStats(t) = Cardinality(OfType(since, t))
       /\ Len(since) <= MaxEvents => Cardinality(GetEventsByType(t)) = GetStats(t)
  /\ persistEvents =>
       \A c \in Client : op[c].kind = "callback" /\ pc[c] = "done" =>
         answer[c] \in Client /\ StoredFor(c, answer[c])

(* Whoever is answered for one key gets one value, until the record        *)
(* expires or is cut off: the first one supplied, by an update or a run of *)
(* the tool for an input with that key; the tool runs once for it.  After  *)
(* a failed run there is none, and nobody runs the tool again.             *)
Answered(c) == op[c].kind \in {"lookup", "update", "invoke"} /\ Ended(c) /\ answer[c] # NoValue
AnswersAgree ==
  /\ \A k \in LangKey : executions[k] <= renewals[k] + 1
  /\ \A c \in Client : Answered(c) =>
       /\ KeyOf[op[answer[c]].input] = KeyOf[op[c].input]
       /\ \A d \in Client :
            Answered(d) /\ KeyOf[op[d].input] = KeyOf[op[c].input] /\ epoch[d] = epoch[c]
              => answer[d] = answer[c]
=============================================================================
