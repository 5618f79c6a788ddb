----------------------------- MODULE DiaryViews -----------------------------
(***************************************************************************)
(* The queries of AgentDiary (src/diary.ts) and of DiaryRepository         *)
(* (src/core/repositories/index.ts) that read the diary without its lock   *)
(* and change nothing.  They are functions of what is stored and of the    *)
(* time.  Every record has a status here; findTasksByKeyword, which looks  *)
(* at the text of titles and results, is left out.                         *)
(***************************************************************************)
EXTENDS Diary

Status == {"pending", "done", "failed"}
AllRecords == 3 * MaxHistory    \* a limit that nothing reaches

HasProcessedTask(s) == Live(store.history, s, now)
FilterNewTasks(ts) == Filter(ts, {t \in Range(ts) : ~HasProcessedTask(SignatureOf[t])})

Records == Range(store.history)
Select(rs) == Filter(store.history, rs)
Page(rs, offset, limit) ==
  SubSeq(rs, offset + 1, IF offset + limit < Len(rs) THEN offset + limit ELSE Len(rs))

(* buildTaskView: expired ones out, then by status, then the page. *)
ListTasks(statuses, includeExpired, offset, limit) ==
  Page(Select({r \in Records : (includeExpired \/ ~IsExpired(r, now)) /\ r.status \in statuses}),
       offset, limit)
GetTasksByStatus(status) == ListTasks({status}, FALSE, 0, AllRecords)
GetPendingTasks == GetTasksByStatus("pending")
GetDoneTasks == GetTasksByStatus("done")
GetFailedTasks == GetTasksByStatus("failed")

(* By their result: a task that failed after it had one is completed, too. *)
GetTasksCompletedSince(t) ==
  Select({r \in Records : r.result # Undefined /\ r.time >= t /\ ~IsExpired(r, now)})

GetStats ==
  LET active == Select({r \in Records : ~IsExpired(r, now)})
      count(status) == Len(Filter(active, {r \in Range(active) : r.status = status}))
  IN  [runCount |-> store.runCount, historyCount |-> Len(active),
       pendingCount |-> count("pending"), doneCount |-> count("done"),
       failedCount |-> count("failed"), lastRunAt |-> store.lastRun,
       oldestTaskAt |-> {active[i].time : i \in {j \in DOMAIN active :
                           \A k \in DOMAIN active : active[j].time <= active[k].time}}]

(* The repository's own filter: there a ttl of 0 means none. *)
ListDiaryEntries(statuses, offset, limit) ==
  Page(Select({r \in Records :
                 (r.ttl \in {NoTtl, 0} \/ ~IsExpired(r, now)) /\ r.status \in statuses}),
       offset, limit)
(* It does not look at the ttl at all. *)
FindBySignature(s) ==
  {store.history[i] : i \in {j \in DOMAIN store.history :
     store.history[j].signature = s /\ \A k \in 1 .. j - 1 : store.history[k].signature # s}}

-----------------------------------------------------------------------------
(* At any moment the queries tell one story of the diary: a task counts as *)
(* processed iff it is listed; pages follow one another without gap or     *)
(* overlap; the statistics count what the lists by status hold; a done     *)
(* task with a result is among the completed ones; and the repository      *)
(* lists what the diary lists, unless a record has a ttl of 0.             *)
ViewsAgree ==
  LET listed == ListTasks(Status, FALSE, 0, AllRecords)
      done == GetDoneTasks
      stats == GetStats
      completed == Range(GetTasksCompletedSince(0))
  IN  /\ \A s \in Signature :
           /\ HasProcessedTask(s) <=> Has(listed, s)
           /\ Has(listed, s) => FindBySignature(s) = {Find(listed, s)}
      /\ \A t \in Title : (FilterNewTasks(<<t>>) = <<>>) = HasProcessedTask(SignatureOf[t])
      /\ \A n \in 0 .. MaxHistory :
           ListTasks(Status, FALSE, 0, n) \o ListTasks(Status, FALSE, n, AllRecords) = listed
      /\ stats.historyCount = Len(listed)
      /\ stats.pendingCount = Len(GetPendingTasks)
      /\ stats.doneCount = Len(done)
      /\ stats.failedCount = Len(GetFailedTasks)
      /\ stats.oldestTaskAt = {} <=> listed = <<>>
      /\ \A i \in DOMAIN done : done[i].result # Undefined => done[i] \in completed
      /\ \/ ListDiaryEntries(Status, 0, AllRecords) = listed
         \/ \E i \in DOMAIN store.history : store.history[i].ttl = 0

(* What the lock protects, as one: the history is a set, seenSignatures    *)
(* begins with the history, runCount is the number of claims, and the      *)
(* queries agree.                                                          *)
DiaryAgrees == HistoryIsASet /\ SeenMatchesHistory /\ RunCountExact /\ ViewsAgree
=============================================================================
