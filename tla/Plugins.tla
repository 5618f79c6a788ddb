------------------------------ MODULE Plugins ------------------------------
(***************************************************************************)
(* PluginRegistry (src/core/plugins), SearchOrchestrator (src/core/        *)
(* providers) and the ProviderRepository that keeps the outcomes of each   *)
(* provider (src/core/repositories).  initializeAll and search walk a list *)
(* that may grow meanwhile, and await a plugin or a provider at each place. *)
(***************************************************************************)
EXTENDS ServiceCalls

CONSTANTS
  Plugin, PluginName,  \* the plugins and their names
  Provider,
  MaxHealth            \* the records kept per provider, 100 in the code

ASSUME PluginAssumption == DOMAIN PluginName = Plugin /\ MaxHealth \in Nat \ {0}

VARIABLES
  plugins,      \* the Map by name, in order of insertion
  initialized,
  storage,      \* whose providers the storage manager uses: the last plugin's
  providers,    \* in order of registration
  health,       \* healthRecords: the outcomes of each provider
  place,        \* how far each client's loop is
  held,         \* the plugin whose initialize() it awaits
  found,        \* the providers that answered each client's search
  ready,        \* history: the plugins whose initialize() has returned
  overtaken,    \* history: those put in a place that a loop was at, or past
  hoped,        \* history: the providers there when each search began
  refused,      \* history: those that failed in it
  outcomes      \* history: all outcomes of each provider

searchVars == <<providers, health, found, hoped, refused, outcomes>>
registryVars == <<plugins, initialized, storage, held, ready, overtaken>>
pluginVars == <<searchVars, registryVars, place>>

PluginInit(installed, available) ==
  /\ plugins = installed /\ providers = available
  /\ initialized = FALSE /\ storage = {}
  /\ health = [v \in Provider |-> <<>>] /\ outcomes = [v \in Provider |-> <<>>]
  /\ place = [c \in Client |-> 0] /\ held = [c \in Client |-> {}]
  /\ found = [c \in Client |-> {}] /\ hoped = found /\ refused = found
  /\ ready = {} /\ overtaken = {}

PlaceOf(g) == {i \in DOMAIN plugins : PluginName[plugins[i]] = PluginName[g]}

RegisterPlugin(c) ==
  /\ Starts(c, "registerPlugin")
  /\ LET g == op[c].plugin IN
       /\ plugins' = IF PlaceOf(g) = {} THEN Append(plugins, g)
                     ELSE [plugins EXCEPT ![Max(PlaceOf(g))] = g]
       /\ overtaken' = IF initialized \/ \E i \in PlaceOf(g), d \in Client :
                            pc[d] = "initializing" /\ i <= place[d]
                       THEN overtaken \cup {g} ELSE overtaken
  /\ ToPc(c, "done")
  /\ UNCHANGED <<initialized, storage, held, ready, place, searchVars>>

(* The plugin at place i: its storage is in use before its initialize().   *)
Visit(c, i) ==
  /\ place' = [place EXCEPT ![c] = i]
  /\ IF i \in DOMAIN plugins
     THEN /\ held' = [held EXCEPT ![c] = {plugins[i]}]
          /\ storage' = {plugins[i]}
          /\ ToPc(c, "initializing")
          /\ UNCHANGED initialized
     ELSE /\ held' = [held EXCEPT ![c] = {}]
          /\ initialized' = TRUE
          /\ ToPc(c, "done")
          /\ UNCHANGED storage

InitializeAll(c) ==
  /\ Starts(c, "initializeAll")
  /\ Visit(c, 1)
  /\ UNCHANGED <<plugins, ready, overtaken, searchVars>>

PluginEnds(c, ok) ==
  /\ pc[c] = "initializing"
  /\ ready' = IF ok THEN ready \cup held[c] ELSE ready
  /\ IF ok THEN Visit(c, place[c] + 1)
     ELSE ToPc(c, "threw") /\ UNCHANGED <<initialized, storage, held, place>>
  /\ UNCHANGED <<plugins, overtaken, searchVars>>

-----------------------------------------------------------------------------
RegisterProvider(c) ==
  /\ Starts(c, "registerProvider")
  /\ providers' = Append(providers, op[c].provider)
  /\ ToPc(c, "done")
  /\ UNCHANGED <<health, found, hoped, refused, outcomes, place, registryVars>>

(* search() throws at once if there is no provider, or else when none is   *)
(* left; the list is the live one.                                         *)
Search(c) ==
  /\ Starts(c, "search")
  /\ place' = [place EXCEPT ![c] = 1]
  /\ hoped' = [hoped EXCEPT ![c] = Range(providers)]
  /\ ToPc(c, IF providers = <<>> THEN "threw" ELSE "searching")
  /\ UNCHANGED <<providers, health, found, refused, outcomes, registryVars>>

LastHealth(rs) == SubSeq(rs, IF Len(rs) > MaxHealth THEN Len(rs) - MaxHealth + 1 ELSE 1, Len(rs))

Outcome(v, ok) ==
  /\ health' = [health EXCEPT ![v] = LastHealth(Append(@, ok))]
  /\ outcomes' = [outcomes EXCEPT ![v] = Append(@, ok)]

(* The provider answers or throws, and that is recorded; the listeners of  *)
(* ProviderFailure are awaited before the next one is asked.               *)
Asked(c, ok) ==
  /\ pc[c] = "searching"
  /\ LET v == providers[place[c]] IN
       /\ Outcome(v, ok)
       /\ IF ok THEN found' = [found EXCEPT ![c] = {v}] /\ ToPc(c, "done") /\ UNCHANGED refused
                ELSE refused' = [refused EXCEPT ![c] = @ \cup {v}] /\ ToPc(c, "telling failure")
                     /\ UNCHANGED found
  /\ UNCHANGED <<providers, hoped, place, registryVars>>

(* Mutant of AskNext: the first failure ends the search. *)
AskNoMore(c) == FALSE

AskNext(c) == place[c] < Len(providers)

FallBack(c) ==
  /\ pc[c] = "telling failure"
  /\ IF AskNext(c)
     THEN place' = [place EXCEPT ![c] = @ + 1] /\ ToPc(c, "searching")
     ELSE ToPc(c, "threw") /\ UNCHANGED place
  /\ UNCHANGED <<searchVars, registryVars>>

PluginNext ==
  \E c \in Client :
    \/ RegisterPlugin(c) \/ InitializeAll(c) \/ RegisterProvider(c) \/ Search(c) \/ FallBack(c)
    \/ \E ok \in BOOLEAN : PluginEnds(c, ok) \/ Asked(c, ok)

-----------------------------------------------------------------------------
(* Once the plugins count as initialized each of them is, however many     *)
(* initializeAll calls overlap, throw or are repeated, except one that was *)
(* registered where a loop had been already: nobody initializes that one.  *)
PluginsReady == initialized => Range(plugins) \subseteq ready \cup overtaken

(* A search answers with the first provider that does not fail: those      *)
(* before it in the list have failed for this query; it throws only after  *)
(* all it began with have.  The health of a provider is its last outcomes, *)
(* of all searches, in the order in which they ended.                      *)
SearchFallsBack ==
  /\ \A c \in Client : op[c].kind = "search" =>
       /\ pc[c] = "threw" => hoped[c] \subseteq refused[c] /\ found[c] = {}
       /\ pc[c] = "done" => Range(SubSeq(providers, 1, place[c] - 1)) \subseteq refused[c]
  /\ \A v \in Provider : health[v] = LastHealth(outcomes[v])

(* Neither loop is led astray by what happens at its awaits. *)
ListsAreWalked == PluginsReady /\ SearchFallsBack
=============================================================================
