---------------------------- MODULE RegistryViews ----------------------------
(***************************************************************************)
(* The lookups of ToolRegistry and AgentRegistry (src/tools, src/agents):  *)
(* functions of what is registered, of its metadata and of the health that *)
(* the last check noted.  Lists are in the order of the Map: of tools the  *)
(* places are kept, of agents the order is left out.                       *)
(***************************************************************************)
EXTENDS AgentRuntime

CONSTANTS
  MetaOf,      \* metadata of each tool: category, capabilities, tags,
               \* permissions, latency (its estimate, 0 for none)
  AgentMetaOf  \* of each agent: category, capabilities, tags

ASSUME MetadataAssumption ==
  /\ DOMAIN MetaOf = Tool /\ DOMAIN AgentMetaOf = AgentId
  /\ \A t \in Tool : MetaOf[t].latency \in Nat

(* A list of tools is the set of their places in the Map. *)
Listed == {i \in DOMAIN entries : entries[i] # Gone}
ToolsAt(places) == {entries[i] : i \in places}

Find(capability) == {i \in Listed : capability \in MetaOf[entries[i]].capabilities}
FindByCategory(category) == {i \in Listed : MetaOf[entries[i]].category = category}
FindByTag(tags) == {i \in Listed : tags \subseteq MetaOf[entries[i]].tags}
FindByPermission(permission) == {i \in Listed : permission \in MetaOf[entries[i]].permissions}
FindCompatible(required, granted) ==
  {i \in Listed : /\ required \cap MetaOf[entries[i]].capabilities # {}
                  /\ MetaOf[entries[i]].permissions \subseteq granted}

(* Among the tools that are not ill the first of the fastest: the sort is  *)
(* stable.                                                                 *)
Well(t) == healthState[t] \in {"healthy", "unknown"}
Fastest(places) ==
  {i \in places : \A j \in places : MetaOf[entries[i]].latency <= MetaOf[entries[j]].latency}
Recommend(capability) ==
  LET candidates == {i \in Find(capability) : Well(entries[i])}
  IN  IF candidates = {} THEN NoTool ELSE entries[Min(Fastest(candidates))]

HasPermission(n, permission) == Has(n) /\ permission \in MetaOf[Get(n)].permissions

FindAgentsByCapability(capability) == {a \in agents : capability \in AgentMetaOf[a].capabilities}
FindAgentsByCategory(category) == {a \in agents : AgentMetaOf[a].category = category}
(* Each option is a set, empty if it is absent. *)
ListAgents(category, capability, tags) ==
  {a \in agents : /\ category \subseteq {AgentMetaOf[a].category}
                  /\ capability \subseteq AgentMetaOf[a].capabilities
                  /\ tags \subseteq AgentMetaOf[a].tags}
Statistics ==
  [total |-> Cardinality(agents),
   byCategory |-> [g \in {AgentMetaOf[a].category : a \in agents} |->
                     Cardinality(FindAgentsByCategory(g))],
   capabilities |-> UNION {AgentMetaOf[a].capabilities : a \in agents}]

-----------------------------------------------------------------------------
Capabilities == UNION {MetaOf[t].capabilities : t \in Tool}
Permissions == UNION {MetaOf[t].permissions : t \in Tool}

(* However registrations, removals and checks overlap, a name has one tool *)
(* and every lookup speaks of that one: a capability that has a tool is    *)
(* recommended one of them, never an ill one, none of the others being     *)
(* both well and faster, and the compatible tools are those that the       *)
(* lookups by capability and by permission agree on.                       *)
ToolLookupsAgree ==
  /\ \A t \in Registered : Get(NameOf[t]) = t
  /\ \A cap \in Capabilities :
       LET found == ToolsAt(Find(cap))
           well == {t \in found : Well(t)}
           best == Recommend(cap)
       IN  /\ best = NoTool <=> well = {}
           /\ best # NoTool =>
                best \in well /\ \A t \in well : MetaOf[best].latency <= MetaOf[t].latency
           /\ \A p \in Permissions :
                ToolsAt(FindCompatible({cap}, Permissions \ {p})) =
                  found \ ToolsAt(FindByPermission(p))
  /\ \A t \in Registered, p \in Permissions :
       HasPermission(NameOf[t], p) <=> p \in MetaOf[t].permissions
  /\ \A t \in Registered :
       t \in ToolsAt(FindByTag(MetaOf[t].tags)) \cap ToolsAt(FindByCategory(MetaOf[t].category))

(* The lists, searches and statistics of agents describe one set. *)
AgentLookupsAgree ==
  /\ ListAgents({}, {}, {}) = agents
  /\ LET s == Statistics IN
       /\ \A g \in DOMAIN s.byCategory : s.byCategory[g] = Cardinality(ListAgents({g}, {}, {}))
       /\ \A cap \in s.capabilities :
            FindAgentsByCapability(cap) = ListAgents({}, {cap}, {}) /\ FindAgentsByCapability(cap) # {}

(* The environment is as its documentation says, at every await. *)
EnvironmentSound == HooksArePaired /\ ToolLookupsAgree /\ AgentLookupsAgree
=============================================================================
