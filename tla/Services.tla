------------------------------ MODULE Services ------------------------------
(***************************************************************************)
(* The services around the diary and the coordinator, side by side.  They  *)
(* share no state but the callers.                                         *)
(***************************************************************************)
EXTENDS EventBus, CacheStack, MemoryLease, Observability, LangChain, Plugins,
  WorkerRegistry

CONSTANTS
  Workload,     \* which calls the clients make: functions from Client
  Subscribed,   \* the handlers the bus may begin with, and the registry's
  Installed,    \* plugins,
  Available,    \* the search providers
  Registered    \* and the workers

(* The lists to begin with are Maps by name, and a call is given things of *)
(* its own kind.                                                           *)
OneEntryPerName(gs) ==
  \A i, j \in DOMAIN gs : PluginName[gs[i]] = PluginName[gs[j]] => i = j

(* once() makes a new wrapper and subscribes it, and nobody else has it. *)
IsNew(calls, c, h) ==
  /\ \A hs \in Subscribed : h \notin Range(hs)
  /\ \A d \in Client \ {c} : calls[d].kind = "on" => calls[d].handler # h

ASSUME ServicesAssumption ==
  /\ \A installed \in Installed : installed \in Seq(Plugin) /\ OneEntryPerName(installed)
  /\ \A available \in Available : available \in Seq(Provider)
  /\ \A registered \in Registered : registered \subseteq Worker
  /\ \A subscribed \in Subscribed : IsInjective(subscribed) /\ subscribed \in Seq(Handler)
  /\ \A calls \in Workload, c \in Client :
       /\ calls[c].kind \in {"on", "off"} => calls[c].handler \in Handler
       /\ calls[c].kind = "on" /\ calls[c].handler \in OnceHandler =>
            IsNew(calls, c, calls[c].handler)
       /\ calls[c].kind = "set" => calls[c].entry \in Entry
       /\ calls[c].kind = "finishTrace" => calls[c].status \in {"completed", "failed"}
       /\ calls[c].kind = "registerPlugin" => calls[c].plugin \in Plugin
       /\ calls[c].kind = "registerProvider" => calls[c].provider \in Provider
       /\ calls[c].kind \in {"registerWorker", "unregisterWorker", "heartbeat",
                            "setWorkerStatus"} => calls[c].worker \in Worker
       /\ calls[c].kind \in {"lookup", "update", "invoke"} => calls[c].input \in Input
       /\ calls[c].kind = "callback" =>
            \A t \in 0 .. MaxClock : <<calls[c].type, calls[c].runId, t>> \notin LangKey

vars == <<callVars, busVars, cacheVars, leaseVars, obsVars, langVars, pluginVars,
          workerVars>>

Init ==
  /\ op \in Workload
  /\ pc = [c \in Client |-> "idle"]
  /\ \E hs \in Subscribed : BusInit(hs)
  /\ \E installed \in Installed, available \in Available : PluginInit(installed, available)
  /\ \E registered \in Registered : WorkersInit(registered)
  /\ CacheInit /\ LeaseInit /\ ObsInit /\ LangInit

Next ==
  \/ BusNext /\ UNCHANGED <<cacheVars, leaseVars, obsVars, langVars, pluginVars, workerVars>>
  \/ CacheNext /\ UNCHANGED <<busVars, leaseVars, obsVars, langVars, pluginVars, workerVars>>
  \/ LeaseNext /\ UNCHANGED <<busVars, cacheVars, obsVars, langVars, pluginVars, workerVars>>
  \/ ObsNext /\ UNCHANGED <<busVars, cacheVars, leaseVars, langVars, pluginVars, workerVars>>
  \/ LangNext /\ UNCHANGED <<busVars, cacheVars, leaseVars, obsVars, pluginVars, workerVars>>
  \/ PluginNext /\ UNCHANGED <<busVars, cacheVars, leaseVars, obsVars, langVars, workerVars>>
  \/ WorkersNext /\ UNCHANGED <<busVars, cacheVars, leaseVars, obsVars, langVars, pluginVars>>

Spec == Init /\ [][Next]_vars
=============================================================================
