--------------------------- MODULE Observability ---------------------------
(***************************************************************************)
(* TracingService, TimelineService and MetricsEngine (src/core/tracing,    *)
(* timeline, metrics) over their repositories (src/core/repositories) and  *)
(* a persistence provider: the one in memory, or the bridge to a legacy    *)
(* adapter.  A trace is read, changed and saved whole, without a lock; so  *)
(* are, by the bridge alone, the lists of timeline events and of metrics.  *)
(***************************************************************************)
EXTENDS ServiceCalls

CONSTANT NoTrace

VARIABLES
  persistence,  \* "memory" or "bridge"
  trace,        \* the stored trace of the workflow
  lists,        \* the stored timeline and metrics
  copy,         \* the trace each client works on
  seen,         \* the lists, as the bridge read them for each client
  pushing,      \* the lists each client is about to save
  done,         \* history: what each client has got done
  crossed       \* history: "trace", or a list, if somebody saved what another
                \* had changed since it was read

obsVars == <<persistence, trace, lists, copy, seen, pushing, done, crossed>>

List == {"timeline", "metrics"}
TraceRecord == [spans : [Client -> {"none", "open", "closed"}],
                status : {"active", "completed", "failed"}]
ASSUME NoTraceAssumption == NoTrace \notin TraceRecord
Active == [spans |-> [c \in Client |-> "none"], status |-> "active"]
EmptyLists == [l \in List |-> <<>>]

ObsInit ==
  /\ \E legacyAdapter \in BOOLEAN : persistence = ProviderOf(legacyAdapter)
  /\ trace = NoTrace /\ lists = EmptyLists
  /\ copy = [c \in Client |-> NoTrace]
  /\ seen = [c \in Client |-> EmptyLists]
  /\ pushing = [c \in Client |-> {}]
  /\ done = [c \in Client |-> {}]
  /\ crossed = {}

(* A workflow event.  Its listeners, all at once, append to the timeline,  *)
(* record a metric if it is an end, and start a trace if it is a start.    *)
Due(c) == {"timeline"} \cup
          (IF op[c].type \in {"WorkflowCompleted", "WorkflowFailed"} THEN {"metrics"} ELSE {})
With(c, list) == Append(list, [type |-> op[c].type, by |-> c])
Happen(c) ==
  /\ Starts(c, "event")
  /\ trace' = IF op[c].type = "WorkflowStarted" /\ trace = NoTrace THEN Active ELSE trace
  /\ IF persistence = "memory"
     THEN /\ lists' = [l \in List |-> IF l \in Due(c) THEN With(c, lists[l]) ELSE lists[l]]
          /\ done' = [done EXCEPT ![c] = Due(c)]
          /\ UNCHANGED <<seen, pushing>>
     ELSE /\ seen' = [seen EXCEPT ![c] = lists]
          /\ pushing' = [pushing EXCEPT ![c] = Due(c)]
          /\ UNCHANGED <<lists, done>>
  /\ ToPc(c, IF persistence = "memory" THEN "done" ELSE "pushing")
  /\ UNCHANGED <<persistence, copy, crossed>>

(* Mutant of Pushed: what the bridge read is saved before the new entry is in it. *)
PushedLate(c, l) == seen[c][l]

Pushed(c, l) == With(c, seen[c][l])

Push(c, l) ==
  /\ pc[c] = "pushing" /\ l \in pushing[c]
  /\ lists' = [lists EXCEPT ![l] = Pushed(c, l)]
  /\ crossed' = IF seen[c][l] = lists[l] THEN crossed ELSE crossed \cup {l}
  /\ done' = [done EXCEPT ![c] = @ \cup {l}]
  /\ pushing' = [pushing EXCEPT ![c] = @ \ {l}]
  /\ ToPc(c, IF pushing[c] = {l} THEN "done" ELSE "pushing")
  /\ UNCHANGED <<persistence, trace, copy, seen>>

(* startSpan, finishSpan and finishTrace get a copy of the trace, change   *)
(* it and save it.                                                         *)
LoadTrace(c) ==
  /\ \/ Starts(c, "span") \/ Starts(c, "finishTrace")
     \/ pc[c] = "spanOpen"
  /\ IF trace = NoTrace
     THEN ToPc(c, "done") /\ UNCHANGED copy
     ELSE /\ copy' = [copy EXCEPT ![c] = trace]
          /\ ToPc(c, IF pc[c] = "spanOpen" THEN "closing" ELSE "saving")
  /\ UNCHANGED <<persistence, trace, lists, seen, pushing, done, crossed>>

Revised(c) ==
  IF op[c].kind = "finishTrace" THEN [copy[c] EXCEPT !.status = op[c].status]
  ELSE [copy[c] EXCEPT !.spans[c] = IF pc[c] = "saving" THEN "open" ELSE "closed"]

(* finishSpan leaves a trace alone that has lost its span. *)
Found(c) == pc[c] = "saving" \/ copy[c].spans[c] # "none"

SaveTrace(c) ==
  /\ pc[c] \in {"saving", "closing"}
  /\ IF Found(c)
     THEN /\ trace' = Revised(c)
          /\ done' = [done EXCEPT ![c] = @ \cup {pc[c]}]
          /\ crossed' = IF trace = copy[c] THEN crossed ELSE crossed \cup {"trace"}
     ELSE UNCHANGED <<trace, done, crossed>>
  /\ copy' = [copy EXCEPT ![c] = NoTrace]
  /\ ToPc(c, IF op[c].kind = "span" /\ pc[c] = "saving" THEN "spanOpen" ELSE "done")
  /\ UNCHANGED <<persistence, lists, seen, pushing>>

ObsNext ==
  \E c \in Client :
    \/ Happen(c) \/ LoadTrace(c) \/ SaveTrace(c)
    \/ \E l \in List : Push(c, l)

(* loadTimeline and loadMetrics of one type; the values of these metrics   *)
(* are all 1, so their number is count and sum of aggregateMetrics.        *)
Recorded(l, type) == {i \in DOMAIN lists[l] : lists[l][i].type = type}

-----------------------------------------------------------------------------
(* What a service has recorded stays recorded: a finished trace is not     *)
(* active again, no span disappears or opens again, and every event that   *)
(* was emitted to its end is in the timeline once and in the metrics once, *)
(* so that their aggregate is the number of such events.  Only where saves *)
(* crossed may something be lost, never with the lists in memory.          *)
EndedEvents(l, type) == {c \in Client : l \in done[c] /\ op[c].type = type}
NothingIsLost ==
  /\ persistence = "memory" => crossed \subseteq {"trace"}
  /\ "trace" \notin crossed => \A c \in Client :
       /\ "closing" \in done[c] => trace.spans[c] = "closed"
       /\ "saving" \in done[c] =>
            IF op[c].kind = "span" THEN trace.spans[c] # "none" ELSE trace.status # "active"
  /\ \A l \in List \ crossed, c \in Client : op[c].kind = "event" =>
       Cardinality(Recorded(l, op[c].type)) = Cardinality(EndedEvents(l, op[c].type))
=============================================================================
