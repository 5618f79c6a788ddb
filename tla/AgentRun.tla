------------------------------ MODULE AgentRun ------------------------------
(***************************************************************************)
(* AgentLifecycle.run (src/runtime/AgentLifecycle.ts) and ToolExecutor.run *)
(* (src/tools/ToolExecutor.ts): one run of an agent per client, which may  *)
(* call one tool, and the abort signals and timers between them.  A timer  *)
(* may fire whenever it is set.  Agents and tools are the user's: they     *)
(* return or throw when they like, and may ignore the signal.  Listeners   *)
(* of the bus other than the collector are left out: emit waits for them   *)
(* and drops their errors.                                                 *)
(***************************************************************************)
EXTENDS RuntimeMetrics, ToolEnvironment

CONSTANTS MaxRetries, NoAgent

ASSUME RunAssumption == MaxRetries \in Nat

VARIABLES
  runPc,      \* the pipeline of run()
  agentOf,    \* the agent it runs
  aborted,    \* the signal of its AbortController
  timer,      \* whether its timeout is pending
  trace,      \* the trace, as the tracing service was last told
  verdict,    \* whether execute() returned ("ok") or threw ("error")
  result,     \* the success its caller sees: "yes", "no", "none" before
  callPc,     \* the tool call of the run
  toolName,   \* the name of the tool it calls
  attempt,    \* the counter of its loop
  merged,     \* the attempt's combined signal
  late        \* history: attempts begun when the run was aborted already

runVars == <<runPc, agentOf, aborted, timer, trace, verdict, result>>
callVars == <<callPc, toolName, attempt, merged, late>>

RunState == {"idle", "tracing", "executing", "finishing", "done", "rejected"}
CallState == {"idle", "executing", "backoff", "done", "rejected"}
Outcome == {"yes", "no"}

RunInit ==
  /\ runPc = [c \in Client |-> "idle"]
  /\ agentOf = [c \in Client |-> NoAgent]
  /\ aborted = [c \in Client |-> FALSE]
  /\ timer = [c \in Client |-> FALSE]
  /\ trace = [c \in Client |-> "none"]
  /\ verdict = [c \in Client |-> "none"]
  /\ result = [c \in Client |-> "none"]
  /\ callPc = [c \in Client |-> "idle"]
  /\ toolName = [c \in Client |-> NoTool]
  /\ attempt = [c \in Client |-> 0]
  /\ merged = [c \in Client |-> FALSE]
  /\ late = [c \in Client |-> 0]

(* Steps 1 to 5: run() throws when the agent is unknown, or when validate  *)
(* refuses the input or throws; the timer is cleared then.                 *)
RejectRun(c) ==
  /\ runPc[c] = "idle"
  /\ runPc' = [runPc EXCEPT ![c] = "rejected"]
  /\ UNCHANGED <<agentOf, aborted, timer, trace, verdict, result, callVars, metricsVars>>

(* Mutant of StartRun: the timeout is not set. *)
StartRunUntimed(c, a) ==
  /\ runPc[c] = "idle"
  /\ runPc' = [runPc EXCEPT ![c] = "tracing"]
  /\ agentOf' = [agentOf EXCEPT ![c] = a]
  /\ UNCHANGED <<timer, aborted, trace, verdict, result, callVars, metricsVars>>

StartRun(c, a) ==
  /\ runPc[c] = "idle"
  /\ runPc' = [runPc EXCEPT ![c] = "tracing"]
  /\ agentOf' = [agentOf EXCEPT ![c] = a]
  /\ timer' = [timer EXCEPT ![c] = TRUE]
  /\ UNCHANGED <<aborted, trace, verdict, result, callVars, metricsVars>>

(* Steps 6 to 8: there may be no tracing service, and startTrace may fail; *)
(* when startSpan does, the trace has begun all the same.  Then            *)
(* AgentStarted, and the agent gets going, aborted or not.                 *)
BeginTrace(c, began) ==
  /\ runPc[c] = "tracing"
  /\ runPc' = [runPc EXCEPT ![c] = "executing"]
  /\ trace' = [trace EXCEPT ![c] = began]
  /\ UNCHANGED <<agentOf, aborted, timer, verdict, result, callVars, metricsVars>>

Settle(c, how, success) ==
  /\ runPc[c] = "executing"
  /\ runPc' = [runPc EXCEPT ![c] = "finishing"]
  /\ timer' = [timer EXCEPT ![c] = FALSE]
  /\ verdict' = [verdict EXCEPT ![c] = how]
  /\ result' = [result EXCEPT ![c] = success]
  /\ UNCHANGED <<agentOf, aborted, trace, callVars, metricsVars>>
AgentReturns(c, success) == Settle(c, "ok", success)
AgentThrows(c) == Settle(c, "error", "no")

(* Mutant of FinishEvent: an error is not reported as such. *)
CompletedAnyway(c) == "AgentCompleted"

FinishEvent(c) == IF verdict[c] = "ok" THEN "AgentCompleted" ELSE "AgentFailed"
FinishStatus(c) == IF verdict[c] = "ok" THEN "completed" ELSE "failed"

(* Steps 9 to 11.  The span or the trace may not be found or not be saved: *)
(* the trace stays active then.                                            *)
Finish(c, saved, d) ==
  /\ runPc[c] = "finishing"
  /\ runPc' = [runPc EXCEPT ![c] = "done"]
  /\ trace' = [trace EXCEPT ![c] =
       IF @ # "none" /\ saved THEN FinishStatus(c) ELSE @]
  /\ EmitAgent(AgentEvent(c, FinishEvent(c), agentOf[c], d))
  /\ verdict' = [verdict EXCEPT ![c] = "none"]
  /\ UNCHANGED <<agentOf, aborted, timer, result, callVars>>

(* The signal fires; the attempt that is running hears it. *)
Abort(c) ==
  /\ aborted' = [aborted EXCEPT ![c] = TRUE]
  /\ merged' = [merged EXCEPT ![c] = @ \/ callPc[c] = "executing"]
  /\ UNCHANGED <<callPc, toolName, attempt, late>>

Timeout(c) ==
  /\ timer[c]
  /\ timer' = [timer EXCEPT ![c] = FALSE]
  /\ Abort(c)
  /\ UNCHANGED <<runPc, agentOf, trace, verdict, result, metricsVars>>

(* ctx.cancel(), by the agent or by what it left behind. *)
Cancel(c) ==
  /\ runPc[c] = "executing" \/ callPc[c] \in {"executing", "backoff"}
  /\ ~aborted[c]
  /\ Abort(c)
  /\ UNCHANGED <<runPc, agentOf, timer, trace, verdict, result, metricsVars>>

-----------------------------------------------------------------------------
CallTo(c, p) == callPc' = [callPc EXCEPT ![c] = p]

(* A new attempt: buildSignal, and tool.execute is called even when the    *)
(* signal has fired already.                                               *)
BeginAttempt(c) ==
  /\ CallTo(c, "executing")
  /\ merged' = [merged EXCEPT ![c] = aborted[c]]
  /\ late' = [late EXCEPT ![c] = @ + One(aborted[c])]

CallTool(c, n) ==
  /\ runPc[c] = "executing" /\ callPc[c] = "idle"
  /\ toolName' = [toolName EXCEPT ![c] = n]
  /\ BeginAttempt(c)
  /\ UNCHANGED <<attempt, runVars, metricsVars>>

(* Permission denied, or the input is invalid. *)
RefuseCall(c, n) ==
  /\ runPc[c] = "executing" /\ callPc[c] = "idle"
  /\ toolName' = [toolName EXCEPT ![c] = n]
  /\ CallTo(c, "done")
  /\ EmitTool(ToolExecuted(c, n, FALSE, 0, 0, FALSE, FALSE))
  /\ UNCHANGED <<attempt, merged, late, runVars>>

(* tool.validate throws, and so does run: no event. *)
CallThrows(c) ==
  /\ runPc[c] = "executing" /\ callPc[c] = "idle"
  /\ CallTo(c, "rejected")
  /\ UNCHANGED <<toolName, attempt, merged, late, runVars, metricsVars>>

EndCall(c, ok, d, tries, cancelled, timedOut) ==
  /\ CallTo(c, "done")
  /\ EmitTool(ToolExecuted(c, toolName[c], ok, d, tries, cancelled, timedOut))
  /\ merged' = [merged EXCEPT ![c] = FALSE]
  /\ attempt' = [attempt EXCEPT ![c] = 0]
  /\ UNCHANGED <<toolName, late, runVars>>

ToolReturns(c, ok, d) ==
  /\ callPc[c] = "executing"
  /\ EndCall(c, ok, d, attempt[c], FALSE, FALSE)

(* Mutant of Cancelled: only the error's name counts. *)
CancelledByName(c, err) == err = "AbortError"

Cancelled(c, err) == err = "AbortError" \/ merged[c]

(* An abort ends the call; any other error is tried again, after a pause   *)
(* that no signal shortens, until there are no attempts left.  `timedOut`  *)
(* is aborted && name !== "AbortError" === false, as JavaScript reads it.  *)
ToolThrows(c, err, d) ==
  /\ callPc[c] = "executing"
  /\ IF Cancelled(c, err)
     THEN EndCall(c, FALSE, d, attempt[c], TRUE, merged[c] /\ err = "AbortError")
     ELSE IF attempt[c] >= MaxRetries
     THEN EndCall(c, FALSE, d, attempt[c] + 1, FALSE, FALSE)
     ELSE /\ CallTo(c, "backoff")
          /\ attempt' = [attempt EXCEPT ![c] = @ + 1]
          /\ UNCHANGED <<toolName, merged, late, runVars, metricsVars>>

Retry(c) ==
  /\ callPc[c] = "backoff"
  /\ BeginAttempt(c)
  /\ UNCHANGED <<toolName, attempt, runVars, metricsVars>>

(* The attempt's own timer. *)
AttemptTimeout(c) ==
  /\ callPc[c] = "executing" /\ ~merged[c]
  /\ merged' = [merged EXCEPT ![c] = TRUE]
  /\ UNCHANGED <<callPc, toolName, attempt, late, runVars, metricsVars>>
=============================================================================
