---------------------------- MODULE MCMemoryDiary ----------------------------
EXTENDS MemoryDiary, DiaryViews, TLC

CONSTANTS t1, t1b, t2, t3, s1, s2, s3

(* Two titles with one signature and two with others. *)
MCSignatureOf == (t1 :> s1) @@ (t1b :> s1) @@ (t2 :> s2) @@ (t3 :> s3)

On(kind, t, ttl) == [kind |-> kind, titles |-> <<t>>, ttl |-> ttl]
Once(t, ttl) == On("executeOnce", t, ttl)
ClaimOf(t, ttl) == On("claimTask", t, ttl)
Batch(ts, ttl) == [kind |-> "batchClaimTasks", titles |-> ts, ttl |-> ttl]
All(kind) == [kind |-> kind, titles |-> <<>>, ttl |-> NoTtl]

NoSnapshot == {EmptyState}

(* What a diary with a larger maxHistory exported. *)
Exported(s, ttl) ==
  [signature |-> s, status |-> "pending", time |-> 0, ttl |-> ttl, result |-> Undefined]
LongHistory == <<Exported(s1, NoTtl), Exported(s2, 0), Exported(s3, NoTtl)>>
LongSnapshot ==
  {[history |-> LongHistory, seenSignatures |-> Signatures(LongHistory),
    runCount |-> 3, lastRun |-> 0]}

OnceOps == {Once(t1, NoTtl), Once(t1b, NoTtl), Once(t2, NoTtl)}

(* Every operation, most with and without a TTL. *)
AllOps ==
  {Once(t1, 0), Once(t3, NoTtl), ClaimOf(t1b, 1), Batch(<<t2, t1, t1b>>, 0),
   On("writeTaskResult", t1, NoTtl), On("writeTaskResult", t2, 1),
   On("failTask", t1b, NoTtl), On("deleteTask", t1, NoTtl),
   On("getTaskResult", t1, NoTtl), All("pruneExpiredTasks"),
   All("exportHistory"), All("importHistory"), All("mergeHistory"),
   All("clearHistory")}

Symmetry == Permutations(Call)
==============================================================================
