--------------------------- MODULE RuntimeMetrics ---------------------------
(***************************************************************************)
(* RuntimeMetricsCollector (src/runtime/RuntimeMetricsCollector.ts): the   *)
(* counters and rolling windows it keeps per tool name and per agent from  *)
(* the events ToolExecuted, AgentCompleted and AgentFailed.  Its handlers  *)
(* are synchronous, so an event is counted in the step that emits it.      *)
(***************************************************************************)
EXTENDS Integers, SequencesExt

CONSTANTS
  ToolName, AgentId,
  Window,      \* MAX_OBSERVATIONS
  Duration,    \* what a call may last
  CostOf       \* the cost a tool declares per call, by name

ASSUME MetricsAssumption ==
  /\ Window \in Nat \ {0} /\ Duration \subseteq Nat
  /\ CostOf \in [ToolName -> Nat]

VARIABLES
  toolStates, agentStates,
  toolCostPerCall,  \* what registerToolCost was told
  toolLog, agentLog \* history: per tool and agent, its events since the last reset

metricsVars == <<toolStates, agentStates, toolCostPerCall, toolLog, agentLog>>

(* A name that was never seen has no entry in the code's map: the counters *)
(* are all zero exactly then.                                              *)
Unseen == [durations |-> <<>>, success |-> 0, failure |-> 0, retries |-> 0,
           cancelled |-> 0, timedOut |-> 0, cost |-> 0]
UnseenAgent == [durations |-> <<>>, success |-> 0, failure |-> 0]

MetricsInit(names) ==
  /\ toolStates = [n \in ToolName |-> Unseen]
  /\ agentStates = [a \in AgentId |-> UnseenAgent]
  /\ toolCostPerCall = [n \in ToolName |-> IF n \in names THEN CostOf[n] ELSE 0]
  /\ toolLog = [n \in ToolName |-> <<>>]
  /\ agentLog = [a \in AgentId |-> <<>>]

AgentKinds == {"AgentCompleted", "AgentFailed"}
One(b) == IF b THEN 1 ELSE 0

(* Mutants of Push: the window keeps its oldest entries; it is never full. *)
PushUnlessFull(buf, d) == IF Len(buf) >= Window THEN buf ELSE Append(buf, d)
PushAlways(buf, d) == Append(buf, d)

Push(buf, d) == Append(IF Len(buf) >= Window THEN Tail(buf) ELSE buf, d)

Counted(state, ok, d) ==
  [state EXCEPT !.durations = Push(@, d),
                !.success = @ + One(ok), !.failure = @ + One(~ok)]

ToolExecuted(c, n, ok, d, tries, cancel, late) ==
  [event |-> "ToolExecuted", of |-> c, key |-> n, success |-> ok, duration |-> d,
   retryCount |-> tries, cancelled |-> cancel, timedOut |-> late,
   cost |-> toolCostPerCall[n]]
AgentEvent(c, kind, a, d) ==
  [event |-> kind, of |-> c, key |-> a, success |-> kind = "AgentCompleted", duration |-> d]

CountedTool(state, e) ==
  LET counted == Counted(state, e.success, e.duration)
  IN  [counted EXCEPT !.retries = @ + e.retryCount, !.cancelled = @ + One(e.cancelled),
                      !.timedOut = @ + One(e.timedOut), !.cost = @ + toolCostPerCall[e.key]]

(* eventBus.emit, as far as the collector is concerned. *)
EmitTool(e) ==
  /\ toolStates' = [toolStates EXCEPT ![e.key] = CountedTool(@, e)]
  /\ toolLog' = [toolLog EXCEPT ![e.key] = Append(@, e)]
  /\ UNCHANGED <<agentStates, toolCostPerCall, agentLog>>

EmitAgent(e) ==
  /\ agentStates' = [agentStates EXCEPT ![e.key] = Counted(@, e.success, e.duration)]
  /\ agentLog' = [agentLog EXCEPT ![e.key] = Append(@, e)]
  /\ UNCHANGED <<toolStates, toolCostPerCall, toolLog>>

RegisterToolCost(n) == toolCostPerCall' = [toolCostPerCall EXCEPT ![n] = CostOf[n]]

(* The costs stay. *)
ResetMetrics ==
  /\ toolStates' = [n \in ToolName |-> Unseen]
  /\ agentStates' = [a \in AgentId |-> UnseenAgent]
  /\ toolLog' = [n \in ToolName |-> <<>>]
  /\ agentLog' = [a \in AgentId |-> <<>>]
  /\ UNCHANGED toolCostPerCall

(* The snapshots.  A rate is given by its numerator and denominator, the   *)
(* mean by its sum and count; the rounding is left out.                    *)
Total(state) == state.success + state.failure

(* What stands at place k of the sorted window. *)
AtRank(buf, k) ==
  Min({d \in Range(buf) : Cardinality({i \in DOMAIN buf : buf[i] <= d}) >= k})
Percentile(buf, p) ==
  LET ceil == (p * Len(buf) + 99) \div 100
  IN  IF buf = <<>> THEN 0 ELSE AtRank(buf, IF ceil < 1 THEN 1 ELSE ceil)
SumUp(s) ==
  LET sum[i \in 0 .. Len(s)] == IF i = 0 THEN 0 ELSE sum[i - 1] + s[i]
  IN  sum[Len(s)]

BuildSnapshot(state) ==
  [executionCount |-> Total(state), failureCount |-> state.failure,
   successRate |-> <<state.success, Total(state)>>,
   avg |-> <<SumUp(state.durations), Len(state.durations)>>,
   p95 |-> Percentile(state.durations, 95), p99 |-> Percentile(state.durations, 99)]

ToolSnapshot(n) == BuildSnapshot(toolStates[n])
AgentSnapshot(a) == BuildSnapshot(agentStates[a])
AllToolSnapshots == {n \in ToolName : Total(toolStates[n]) > 0}

(* getMostUsedTools and getSlowestTools: every order the sort may leave    *)
(* tools in, ties included.                                                *)
Ranked(n, rank) ==
  {SubSeq(s, 1, IF n < Len(s) THEN n ELSE Len(s)) : s \in
     {q \in SetToSeqs(AllToolSnapshots) :
        \A i, j \in DOMAIN q : i < j => rank[q[i]] >= rank[q[j]]}}
MostUsedTools(n) == Ranked(n, [t \in AllToolSnapshots |-> ToolSnapshot(t).executionCount])
SlowestTools(n) == Ranked(n, [t \in AllToolSnapshots |-> ToolSnapshot(t).p95])
(* Those whose success rate is below `percent`. *)
FailingTools(percent) ==
  {n \in AllToolSnapshots : 100 * toolStates[n].success < percent * Total(toolStates[n])}

-----------------------------------------------------------------------------
(* What a list of events tells, field by field. *)
Field(es, f) == [i \in DOMAIN es |-> es[i][f]]
HowMany(values, v) == Cardinality({i \in DOMAIN values : values[i] = v})
LastOf(values, n) ==
  SubSeq(values, IF Len(values) > n THEN Len(values) - n + 1 ELSE 1, Len(values))

StateIsOf(state, es) ==
  /\ state.durations = LastOf(Field(es, "duration"), Window)
  /\ state.success = HowMany(Field(es, "success"), TRUE)
  /\ state.failure = HowMany(Field(es, "success"), FALSE)

ToolIsOf(state, es) ==
  /\ StateIsOf(state, es)
  /\ state.retries = SumUp(Field(es, "retryCount"))
  /\ state.cost = SumUp(Field(es, "cost"))
  /\ state.cancelled = HowMany(Field(es, "cancelled"), TRUE)
  /\ state.timedOut = HowMany(Field(es, "timedOut"), TRUE)

StatesAgree ==
  /\ \A n \in ToolName : ToolIsOf(toolStates[n], toolLog[n])
  /\ \A a \in AgentId : StateIsOf(agentStates[a], agentLog[a])

QueriesAgree ==
  \A n \in AllToolSnapshots : LET s == ToolSnapshot(n) IN
    /\ {s.p95, s.p99} \subseteq Range(toolStates[n].durations)
    /\ s.p95 <= s.p99
    /\ s.avg[2] \in 1 .. s.executionCount
    /\ \E d \in Range(toolStates[n].durations) : s.p99 <= d /\ s.avg[1] <= s.avg[2] * d
    /\ n \in FailingTools(100) <=> s.failureCount > 0
    /\ \A q \in SlowestTools(1) : ToolSnapshot(q[1]).p95 >= s.p95
    /\ \A q \in MostUsedTools(1) : ToolSnapshot(q[1]).executionCount >= s.executionCount

(* The counters and windows are those one computes from the whole list of  *)
(* events since the last reset, whatever came between: no event is lost,   *)
(* counted twice or under another name, and a window holds the latest.     *)
(* And the queries agree on them: the percentiles are durations of the     *)
(* window in ascending order, the mean is not above its longest, a tool    *)
(* fails at some threshold iff a failure was seen, and the slowest and the *)
(* most used lead their lists.                                             *)
CollectorExact == StatesAgree /\ QueriesAgree
=============================================================================
