----------------------------- MODULE MCServices -----------------------------
EXTENDS Services

CONSTANTS c1, c2, c3, h1, h2, w, p, P, q, k1, k2, v1, v2, g1, g2, g3, G, H, s1, s2, w1, w2

Of(f, g, h) == (c1 :> f) @@ (c2 :> g) @@ (c3 :> h)
(* Three of the calls, in any order: the clients are alike. *)
Three(calls) ==
  {Of(calls[i], calls[j], calls[k]) : <<i, j, k>> \in
     {t \in (DOMAIN calls) \X (DOMAIN calls) \X (DOMAIN calls) : t[1] <= t[2] /\ t[2] <= t[3]}}

Kind(k) == [kind |-> k]
BusCalls == <<Kind("emit"), [kind |-> "off", handler |-> h1], [kind |-> "on", handler |-> h2],
              Kind("removeAllListeners")>>
CacheCalls == <<Kind("get"), Kind("delete"), [kind |-> "set", entry |-> [value |-> v1, timed |-> FALSE]],
                [kind |-> "set", entry |-> [value |-> v2, timed |-> TRUE]], Kind("clear")>>
LeaseCalls == <<Kind("lease")>>
Event(t) == [kind |-> "event", type |-> t, runId |-> t]
ObsCalls == <<Event("WorkflowStarted"), Kind("span"), [kind |-> "finishTrace", status |-> "completed"],
              Event("WorkflowCompleted"), Event("WorkflowFailed")>>
OnInput(k, i) == [kind |-> k, input |-> i]
PromptCalls == <<OnInput("lookup", p), OnInput("update", P), OnInput("update", q)>>
ToolCalls == <<OnInput("invoke", p), OnInput("invoke", P), OnInput("invoke", q)>>
Callback(t, r) == [kind |-> "callback", type |-> t, runId |-> r]
HandlerCalls == <<Callback("llm_start", 1), Callback("llm_start", 2), Callback("llm_end", 1), Kind("reset")>>
InitCalls == <<Kind("initializeAll"), [kind |-> "registerPlugin", plugin |-> g2],
               [kind |-> "registerPlugin", plugin |-> g3]>>
SearchCalls == <<Kind("search"), [kind |-> "registerProvider", provider |-> s2]>>

OnWorker(k, v) == [kind |-> k, worker |-> v]
WithStatus(k, v, s) == [kind |-> k, worker |-> v, status |-> s]
WorkerCalls == <<Kind("pruneStaleWorkers"), OnWorker("heartbeat", w1), OnWorker("heartbeat", w2),
                 WithStatus("setWorkerStatus", w1, "idle"), WithStatus("registerWorker", w1, "active"),
                 WithStatus("registerWorker", w2, "idle"), OnWorker("unregisterWorker", w1)>>

MCWorkload ==
  UNION {Three(s) : s \in {BusCalls, CacheCalls, LeaseCalls, ObsCalls, PromptCalls,
                           ToolCalls, HandlerCalls, InitCalls, SearchCalls, WorkerCalls}}
MCSubscribed == {<<>>, <<h1, w, h2>>}
(* g1 and g2 have one name. *)
MCPluginName == (g1 :> G) @@ (g2 :> G) @@ (g3 :> H)
MCInstalled == {<<>>, <<g1>>, <<g1, g3>>}
MCAvailable == {<<>>, <<s1>>, <<s1, s2>>}
MCRegistered == {{}, {w1}}
MCKeyOf == (p :> k1) @@ (P :> k1) @@ (q :> k2)

(* A part that nobody calls begins in one state. *)
Calls(kinds) == \E c \in Client : op[c].kind \in kinds
MCInit ==
  /\ Init
  /\ Calls({"emit", "on", "off", "removeAllListeners"}) \/ handlers = <<>>
  /\ Calls({"get", "set", "delete", "clear"}) \/ (below = Nothing /\ inOrder)
  /\ Calls({"lease"}) \/ provider = "memory"
  /\ Calls({"event", "span", "finishTrace"}) \/ persistence = "memory"
  /\ Calls({"callback"}) \/ ~persistEvents
  /\ Calls({"initializeAll", "registerPlugin"}) \/ plugins = <<>>
  /\ Calls({"search", "registerProvider"}) \/ providers = <<>>
  /\ (\E c \in Client : op[c] \in Range(WorkerCalls)) \/ DOMAIN workers = {}
MCSpec == MCInit /\ [][Next]_vars
=============================================================================
