---------------------------- MODULE AgentRuntime ----------------------------
(***************************************************************************)
(* AgentRuntime (src/runtime/AgentRuntime.ts): runs of agents, which use   *)
(* the tools of the registry, beside the operations that change, warm up,  *)
(* check and close the environment.  Each client makes one call.           *)
(***************************************************************************)
EXTENDS AgentRun

CONSTANTS
  Workload,   \* which calls the clients make: functions from Client
  Preset,     \* the options `tools`, and
  Known,      \* `agents` of the constructor
  Required,   \* metadata.requiredTools of each agent, {} for none
  RunDuration,  \* how long runs and calls may take, of Duration
  Saves       \* whether the tracing service may fail

(* The options are Maps by name, and a call is given things of its kind. *)
ASSUME RuntimeAssumption ==
  /\ \A t \in Tool : NameOf[t] \in ToolName
  /\ RunDuration \subseteq Duration
  /\ \A tools \in Preset : tools \in Seq(Tool) /\ OneToolPerName(tools)
  /\ \A known \in Known : known \subseteq AgentId
  /\ \A calls \in Workload, c \in Client :
       /\ calls[c].kind \in {"register", "autoInit", "unregister"} => calls[c].tool \in Tool
       /\ calls[c].kind = "registerAgent" => calls[c].agent \in AgentId

VARIABLES
  op,      \* the call each client makes
  scope    \* the tools of a run's context, fixed when it starts

vars == <<metricsVars, runVars, callVars, envVars, op, scope>>

Init ==
  /\ op \in Workload
  /\ \E tools \in Preset, known \in Known :
       EnvInit(tools, known) /\ MetricsInit({NameOf[tools[i]] : i \in DOMAIN tools})
  /\ RunInit
  /\ scope = [c \in Client |-> {}]

OnlyEnv == UNCHANGED <<metricsVars, runVars, callVars, op, scope>>
OnlyRun == UNCHANGED <<envVars, op, scope>>

(* A context without required tools is given the registry itself. *)
Available(c) == IF Required[agentOf[c]] = {} THEN Registered ELSE scope[c]

Run(c) ==
  /\ op[c].kind = "run"
  /\ UNCHANGED <<envVars, op>>
  /\ \/ RejectRun(c) /\ UNCHANGED scope
     \/ /\ op[c].agent \in agents
        /\ StartRun(c, op[c].agent)
        /\ scope' = [scope EXCEPT ![c] = Scoped(Required[op[c].agent])]

AgentStep(c) ==
  /\ OnlyRun
  /\ \/ \E began \in {"none", "active"} : BeginTrace(c, began)
     \/ \E success \in Outcome : AgentReturns(c, success)
     \/ AgentThrows(c) \/ Cancel(c)
     \/ CallThrows(c)
     \/ runPc[c] = "executing" /\ \E t \in Available(c) :
          CallTool(c, NameOf[t]) \/ RefuseCall(c, NameOf[t])

FinishRun(c) == OnlyRun /\ \E saved \in Saves, d \in RunDuration : Finish(c, saved, d)

ToolStep(c) ==
  /\ OnlyRun
  /\ \E d \in RunDuration :
       \/ \E ok \in BOOLEAN : ToolReturns(c, ok, d)
       \/ \E err \in {"AbortError", "Error"} : ToolThrows(c, err, d)

Timers(c) == OnlyRun /\ (Timeout(c) \/ AttemptTimeout(c) \/ Retry(c))

(* registerTool() also notes the cost of a call. *)
RegisterTool(c, t) ==
  /\ Register(c, t)
  /\ RegisterToolCost(NameOf[t])
  /\ UNCHANGED <<toolStates, agentStates, toolLog, agentLog, runVars, callVars, op, scope>>

ResetCollector(c) ==
  /\ pc[c] = "idle"
  /\ ToPc(c, "done")
  /\ ResetMetrics
  /\ UNCHANGED <<entries, agents, warmedUp, shutdown, healthState, hook, at, held,
                 ghosts, runVars, callVars, op, scope>>

(* An event of another executor or runtime: the bus is the default one of  *)
(* the whole process unless the options name another.                      *)
ForeignEvent(c) ==
  /\ pc[c] = "idle"
  /\ ToPc(c, "done")
  /\ \E d \in Duration :
       \/ \E n \in ToolName, ok \in BOOLEAN : EmitTool(ToolExecuted(c, n, ok, d, 0, FALSE, FALSE))
       \/ \E a \in AgentId, kind \in AgentKinds : EmitAgent(AgentEvent(c, kind, a, d))
  /\ UNCHANGED <<entries, agents, warmedUp, shutdown, healthState, hook, at, held,
                 ghosts, runVars, callVars, op, scope>>

Manage(c) ==
  \/ op[c].kind = "event" /\ ForeignEvent(c)
  \/ op[c].kind = "register" /\ RegisterTool(c, op[c].tool)
  \/ op[c].kind = "reset" /\ ResetCollector(c)
  \/ /\ OnlyEnv
     /\ \/ op[c].kind = "autoInit" /\ RegisterInit(c, op[c].tool)
        \/ op[c].kind = "unregister" /\ Unregister(c, NameOf[op[c].tool])
        \/ op[c].kind = "warmup" /\ WarmUp(c)
        \/ op[c].kind = "shutdown" /\ ShutDown(c)
        \/ op[c].kind = "health" /\ HealthCheck(c)
        \/ op[c].kind = "registerAgent" /\ RegisterAgent(c, op[c].agent)
        \/ op[c].kind = "unregisterAgent" /\ UnregisterAgent(c, op[c].agent)

Awaited(c) ==
  /\ OnlyEnv
  /\ \/ \E ok \in {TRUE, ~HookFails} : InitEnds(c, ok) \/ InitStep(c, ok)
     \/ \E state \in Health \ {"unknown"} : CheckStep(c, state)
     \/ UnregisterEnds(c) \/ CleanStep(c) \/ AgentsChecked(c)

Next ==
  \E c \in Client :
    \/ Run(c) \/ AgentStep(c) \/ FinishRun(c) \/ ToolStep(c) \/ Timers(c)
    \/ Manage(c) \/ Awaited(c)

(* Timers fire, the runtime's own awaits end, and agents and tools honour  *)
(* an aborted signal, as AgentContext.ts:51 asks of them: nothing makes    *)
(* them end before.                                                        *)
Due(c) ==
  \/ Timers(c) \/ FinishRun(c) \/ Awaited(c)
  \/ runPc[c] = "tracing" /\ AgentStep(c)
  \/ merged[c] /\ ToolStep(c)
  \/ aborted[c] /\ OnlyRun
     /\ (AgentThrows(c) \/ \E success \in Outcome : AgentReturns(c, success))
Fairness == \A c \in Client : WF_vars(Due(c))

Spec == Init /\ [][Next]_vars /\ Fairness
SafeSpec == Init /\ [][Next]_vars

-----------------------------------------------------------------------------
TypeOK ==
  /\ runPc \in [Client -> RunState] /\ callPc \in [Client -> CallState]
  /\ pc \in [Client -> EnvState]
  /\ aborted \in [Client -> BOOLEAN] /\ timer \in [Client -> BOOLEAN]
  /\ merged \in [Client -> BOOLEAN]
  /\ agentOf \in [Client -> AgentId \cup {NoAgent}]
  /\ toolName \in [Client -> ToolName \cup {NoTool}]
  /\ attempt \in [Client -> 0 .. MaxRetries]
  /\ trace \in [Client -> {"none", "active", "completed", "failed"}]
  /\ verdict \in [Client -> {"none", "ok", "error"}]
  /\ result \in [Client -> Outcome \cup {"none"}]
  /\ entries \in Seq(Tool \cup {Gone}) /\ agents \subseteq AgentId
  /\ at \in [Client -> 0 .. Len(entries)] /\ held \in [Client -> Tool \cup {NoTool}]
  /\ warmedUp \in BOOLEAN /\ shutdown \in BOOLEAN
  /\ healthState \in [Tool -> Health]
  /\ hook \in [Tool -> {"fresh", "ready", "closed"}]
  /\ \A n \in ToolName : Len(toolStates[n].durations) <= Window
  /\ scope \in [Client -> SUBSET Tool]

(* Once a run is aborted, its tool is called at most once more: the retry  *)
(* that was waiting, or the first attempt.  And an attempt whose signal has *)
(* fired, by whatever timer, is not repeated.                              *)
AbortEndsRetries ==
  [][\A c \in Client :
       /\ late'[c] <= 1
       /\ callPc[c] = "executing" /\ merged[c] => callPc'[c] # "backoff"]_vars

EventsOf(c, log) == {i \in DOMAIN log : log[i].of = c}

(* A run that is over has emitted one event, a tool call that is over has, *)
(* and nothing else; trace, event and result tell one story: what threw is *)
(* a failure in all three, and no failed trace belongs to a completed run. *)
OneStory ==
  (\A c \in Client : op[c].kind # "reset") =>
    \A c \in Client : op[c].kind = "run" =>
      /\ runPc[c] = "done" =>
           \E i \in DOMAIN agentLog[agentOf[c]] : LET e == agentLog[agentOf[c]][i] IN
             /\ EventsOf(c, agentLog[agentOf[c]]) = {i}
             /\ trace[c] = "completed" => e.event = "AgentCompleted"
             /\ trace[c] = "failed" => e.event = "AgentFailed"
             /\ e.event = "AgentFailed" => result[c] = "no"
      /\ \A n \in ToolName :
           Cardinality(EventsOf(c, toolLog[n])) = One(callPc[c] = "done" /\ n = toolName[c])

(* Runs and tool calls that have begun end, those the agent left behind,   *)
(* too: a timer fires if nothing else does.  The environment's loops end.  *)
Quiet ==
  \A c \in Client :
    /\ runPc[c] \in {"idle", "done", "rejected"}
    /\ callPc[c] \in {"idle", "done", "rejected"}
    /\ pc[c] \in {"idle", "done", "threw"}
EverythingEnds == <>[]Quiet
=============================================================================
