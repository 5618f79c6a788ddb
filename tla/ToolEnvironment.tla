-------------------------- MODULE ToolEnvironment --------------------------
(***************************************************************************)
(* ToolRegistry, the lifecycle of ExecutionEnvironment, and AgentRegistry  *)
(* (src/tools/ToolRegistry.ts, src/runtime/ExecutionEnvironment.ts,        *)
(* src/agents/AgentRegistry.ts).  warmup, shutdown and healthCheck walk    *)
(* the live Map of tools and await a hook at each: meanwhile tools come    *)
(* and go.  A Map is a list of entries in the order of their insertion; a  *)
(* deleted one leaves a gap, so that an iterator is an index, and a key    *)
(* that is set again keeps its place.  Every tool has all three hooks.     *)
(***************************************************************************)
EXTENDS Integers, Sequences, FiniteSetsExt

CONSTANTS
  Client,      \* callers of the runtime
  Tool, NameOf,  \* the tools and their metadata.name
  HookFails,   \* whether hooks may throw
  NoTool, Gone

ASSUME ToolAssumption ==
  /\ DOMAIN NameOf = Tool
  /\ HookFails \in BOOLEAN /\ NoTool \notin Tool /\ Gone \notin Tool

VARIABLES
  entries,      \* the Map of tools
  agents,       \* the Map of agents
  warmedUp, shutdown,
  healthState,  \* metadata.healthState of each tool
  hook,         \* history: each tool is "fresh", "ready" or "closed"
  pc,           \* what each client is doing
  at, held,     \* its iterator, and the tool whose hook it awaits
  raced,        \* history: two warm-ups at once, an autoInit, or a tool that
                \* came back to the registry while it was open
  doubled,      \* history: tools initialised while ready
  exempt        \* history: tools put in or initialised since a shutdown began

envVars == <<entries, agents, warmedUp, shutdown, healthState, hook, pc, at, held,
             raced, doubled, exempt>>
ghosts == <<raced, doubled, exempt>>

Health == {"unknown", "healthy", "degraded", "unavailable"}
Sweeps == {"initAll", "checkInWarmup", "cleanAll", "check"}
EnvState == {"idle", "initializing", "cleaning", "done", "threw", "agentsInWarmup", "agents"}
            \cup Sweeps

EnvInit(tools, known) ==
  /\ entries = tools /\ agents = known
  /\ warmedUp = FALSE /\ shutdown = FALSE
  /\ healthState = [t \in Tool |-> "unknown"]
  /\ hook = [t \in Tool |-> "fresh"]
  /\ pc = [c \in Client |-> "idle"]
  /\ at = [c \in Client |-> 0]
  /\ held = [c \in Client |-> NoTool]
  /\ raced = FALSE
  /\ doubled = {} /\ exempt = {}

(* The Map. *)
Places(n) == {i \in DOMAIN entries : entries[i] # Gone /\ NameOf[entries[i]] = n}
Has(n) == Places(n) # {}
Get(n) == IF Has(n) THEN entries[Max(Places(n))] ELSE NoTool
Registered == {entries[i] : i \in DOMAIN entries} \ {Gone}
Set(t) == IF Has(NameOf[t])
          THEN [entries EXCEPT ![Max(Places(NameOf[t]))] = t]
          ELSE Append(entries, t)
OneToolPerName(map) ==
  \A i, j \in DOMAIN map :
    map[i] # Gone /\ map[j] # Gone /\ NameOf[map[i]] = NameOf[map[j]] => i = j
Delete(n) == [i \in DOMAIN entries |-> IF i \in Places(n) THEN Gone ELSE entries[i]]

(* scoped(): the tools an agent declared, as they are when its run starts. *)
Scoped(names) == {t \in Registered : NameOf[t] \in names}

ToPc(c, p) == pc' = [pc EXCEPT ![c] = p]
Closing == \E c \in Client : pc[c] = "cleanAll"
InUse == shutdown \/ Closing

(* Initialised and not cleaned up, or about to be initialised. *)
Open(t) == hook[t] = "ready" \/ \E d \in Client : pc[d] = "initAll" /\ held[d] = t

(* register() without autoInit, which runs to its end at once.  It cleans  *)
(* up neither what it replaces nor what it puts in.                        *)
Register(c, t) ==
  /\ pc[c] = "idle"
  /\ entries' = Set(t)
  /\ raced' = (raced \/ (t \notin Registered /\ Open(t)))
  /\ exempt' = IF InUse THEN exempt \cup {t} ELSE exempt
  /\ ToPc(c, "done")
  /\ UNCHANGED <<agents, warmedUp, shutdown, healthState, hook, at, held, doubled>>

Warming == \E c \in Client : pc[c] \in {"initAll", "checkInWarmup", "agentsInWarmup"}

(* register() with autoInit: the tool is in the registry after its         *)
(* initialize(), if that does not throw.                                   *)
RegisterInit(c, t) ==
  /\ pc[c] = "idle"
  /\ held' = [held EXCEPT ![c] = t]
  /\ ToPc(c, "initializing")
  /\ raced' = TRUE
  /\ UNCHANGED <<entries, agents, warmedUp, shutdown, healthState, hook, at,
                 doubled, exempt>>

Initialized(t) ==
  /\ hook' = [hook EXCEPT ![t] = "ready"]
  /\ doubled' = IF hook[t] = "ready" THEN doubled \cup {t} ELSE doubled
  /\ exempt' = IF InUse THEN exempt \cup {t} ELSE exempt

InitEnds(c, ok) ==
  /\ pc[c] = "initializing"
  /\ held' = [held EXCEPT ![c] = NoTool]
  /\ IF ok THEN Initialized(held[c]) /\ entries' = Set(held[c]) /\ ToPc(c, "done")
           ELSE ToPc(c, "threw") /\ UNCHANGED <<hook, doubled, exempt, entries>>
  /\ UNCHANGED <<agents, warmedUp, shutdown, healthState, at, raced>>

(* unregister(): cleanup is awaited, then whatever has the name is deleted, *)
(* a tool registered meanwhile, which was not cleaned up, included.        *)
Unregister(c, n) ==
  /\ pc[c] = "idle"
  /\ IF Has(n)
     THEN held' = [held EXCEPT ![c] = Get(n)] /\ ToPc(c, "cleaning")
     ELSE ToPc(c, "done") /\ UNCHANGED held
  /\ UNCHANGED <<entries, agents, warmedUp, shutdown, healthState, hook, at, ghosts>>

(* A cleanup that throws is logged; the tool counts as closed all the same. *)
Close(t) == hook' = [hook EXCEPT ![t] = "closed"]

UnregisterEnds(c) ==
  /\ pc[c] = "cleaning"
  /\ Close(held[c])
  /\ entries' = Delete(NameOf[held[c]])
  /\ held' = [held EXCEPT ![c] = NoTool]
  /\ ToPc(c, "done")
  /\ UNCHANGED <<agents, warmedUp, shutdown, healthState, at, ghosts>>

-----------------------------------------------------------------------------
(* The loops over the live Map.  Seek moves an iterator to the next entry  *)
(* at or after place i and begins its hook, or ends the loop there.        *)
Rest(i) == {j \in DOMAIN entries : j >= i /\ entries[j] # Gone}
Seek(c, i, loop, after) ==
  IF Rest(i) # {}
  THEN /\ at' = [at EXCEPT ![c] = Min(Rest(i))]
       /\ held' = [held EXCEPT ![c] = entries[Min(Rest(i))]]
       /\ ToPc(c, loop)
  ELSE /\ at' = [at EXCEPT ![c] = 0]
       /\ held' = [held EXCEPT ![c] = NoTool]
       /\ ToPc(c, after)

WarmUp(c) ==
  /\ pc[c] = "idle"
  /\ IF warmedUp
     THEN ToPc(c, "done") /\ UNCHANGED <<at, held, raced>>
     ELSE /\ Seek(c, 1, "initAll", "checkInWarmup")
          /\ raced' = (raced \/ Warming)
  /\ UNCHANGED <<entries, agents, warmedUp, shutdown, healthState, hook, doubled, exempt>>

NextPlace(c) == at[c] + 1

(* initialize() has settled; then the next tool, or the health checks. *)
InitStep(c, ok) ==
  /\ pc[c] = "initAll"
  /\ IF ok THEN Initialized(held[c]) ELSE UNCHANGED <<hook, doubled, exempt>>
  /\ Seek(c, NextPlace(c), "initAll", "checkInWarmup")
  /\ UNCHANGED <<entries, agents, warmedUp, shutdown, healthState, raced>>

(* The loop of healthCheck(): it begins, or a check has answered `state`,  *)
(* which a check that throws makes "unavailable".                          *)
CheckStep(c, state) ==
  /\ pc[c] \in {"checkInWarmup", "check"}
  /\ healthState' = IF held[c] = NoTool THEN healthState
                    ELSE [healthState EXCEPT ![held[c]] = state]
  /\ Seek(c, NextPlace(c), pc[c], IF pc[c] = "check" THEN "agents" ELSE "agentsInWarmup")
  /\ UNCHANGED <<entries, agents, warmedUp, shutdown, hook, ghosts>>

(* agents.healthCheck() changes nothing; after it the warm-up is over. *)
AgentsChecked(c) ==
  /\ pc[c] \in {"agentsInWarmup", "agents"}
  /\ warmedUp' = (warmedUp \/ pc[c] = "agentsInWarmup")
  /\ ToPc(c, "done")
  /\ UNCHANGED <<entries, agents, shutdown, healthState, hook, at, held, ghosts>>

HealthCheck(c) ==
  /\ pc[c] = "idle"
  /\ Seek(c, 1, "check", "agents")
  /\ UNCHANGED <<entries, agents, warmedUp, shutdown, healthState, hook, ghosts>>

ShutDown(c) ==
  /\ pc[c] = "idle"
  /\ IF shutdown
     THEN ToPc(c, "done") /\ UNCHANGED <<at, held, exempt>>
     ELSE /\ Seek(c, 1, "cleanAll", "cleanAll")
          /\ exempt' = exempt \cup {held[d] : d \in {e \in Client :
                                      pc[e] \in {"initAll", "initializing"}}}
  /\ UNCHANGED <<entries, agents, warmedUp, shutdown, healthState, hook,
                 raced, doubled>>

(* Mutant of Swept: the last tool is forgotten. *)
SweptButLast(c) == Cardinality(Rest(NextPlace(c))) <= 1

Swept(c) == held[c] = NoTool \/ Rest(NextPlace(c)) = {}

CleanStep(c) ==
  /\ pc[c] = "cleanAll"
  /\ IF held[c] = NoTool THEN UNCHANGED hook ELSE Close(held[c])
  /\ IF Swept(c)
     THEN /\ shutdown' = TRUE
          /\ at' = [at EXCEPT ![c] = 0]
          /\ held' = [held EXCEPT ![c] = NoTool]
          /\ ToPc(c, "done")
     ELSE Seek(c, NextPlace(c), "cleanAll", "done") /\ UNCHANGED shutdown
  /\ UNCHANGED <<entries, agents, warmedUp, healthState, ghosts>>

(* AgentRegistry.register and unregister. *)
RegisterAgent(c, a) ==
  /\ pc[c] = "idle"
  /\ agents' = agents \cup {a}
  /\ ToPc(c, "done")
  /\ UNCHANGED <<entries, warmedUp, shutdown, healthState, hook, at, held, ghosts>>
UnregisterAgent(c, a) ==
  /\ pc[c] = "idle"
  /\ agents' = agents \ {a}
  /\ ToPc(c, "done")
  /\ UNCHANGED <<entries, warmedUp, shutdown, healthState, hook, at, held, ghosts>>

-----------------------------------------------------------------------------
(* No tool is initialised again while it is ready, however tools come and  *)
(* go during a warm-up: contracts.ts:325 "Called once".  Two warm-ups at   *)
(* once both do it (the flag is set at the end, ExecutionEnvironment.ts:182) *)
(* and so does a warm-up after an autoInit, or one that meets a tool which *)
(* was replaced while open, or removed in a newer one's stead, and has     *)
(* been registered again.                                                  *)
InitializedOnce == ~raced => doubled = {}

(* After a shutdown no registered tool is left open, except what was put   *)
(* in the registry or initialised after it had begun: nothing forbids that. *)
ShutdownClosesAll ==
  shutdown => \A t \in Registered : hook[t] = "ready" => t \in exempt

(* The hooks of a tool are paired: one initialize() before each cleanup(). *)
HooksArePaired == InitializedOnce /\ ShutdownClosesAll
=============================================================================
