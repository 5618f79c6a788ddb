--------------------------- MODULE MCAgentRuntime ---------------------------
EXTENDS RegistryViews

CONSTANTS c1, c2, c3, c4, a1, a2, x1, x2, y, X, Y

(* Two tools with one name and one with another. *)
MCNameOf == (x1 :> X) @@ (x2 :> X) @@ (y :> Y)
MCCostOf == (X :> 1) @@ (Y :> 2)
MCRequired == (a1 :> {X}) @@ (a2 :> {})

Meta(capabilities, permissions, latency) ==
  [category |-> "data", capabilities |-> capabilities, tags |-> capabilities,
   permissions |-> permissions, latency |-> latency]
MCMetaOf ==
  (x1 :> Meta({"read"}, {"disk"}, 2)) @@ (x2 :> Meta({"read", "write"}, {"disk", "net"}, 1))
    @@ (y :> Meta({"read", "write"}, {}, 2))
MCAgentMetaOf ==
  (a1 :> [category |-> "data", capabilities |-> {"sum"}, tags |-> {}])
    @@ (a2 :> [category |-> "web", capabilities |-> {"sum", "search"}, tags |-> {"beta"}])

On(kind, t, a) == [kind |-> kind, tool |-> t, agent |-> a]
RunOf(a) == On("run", NoTool, a)
OfTool(kind, t) == On(kind, t, NoAgent)
Do(kind) == On(kind, NoTool, NoAgent)

Changes ==
  <<OfTool("register", x1), OfTool("register", x2), OfTool("unregister", x1),
    OfTool("autoInit", y), Do("warmup"), Do("shutdown"), Do("health")>>

(* A run beside other events, a reset, or changes of its tool or agent;    *)
(* three changes: clients are alike, so their order does not matter; and   *)
(* a tool that is replaced, then comes back, during a warm-up.             *)
Calls(f, g, h) == (c1 :> f) @@ (c2 :> g) @@ (c3 :> h) @@ (c4 :> Do("nothing"))
MCWorkload ==
  {(c1 :> Do("warmup")) @@ (c2 :> OfTool("register", x1)) @@ (c3 :> OfTool("register", x2))
     @@ (c4 :> OfTool("unregister", x1))} \cup
  {Calls(RunOf(a1), Do("event"), Do("reset")), Calls(Do("event"), Do("event"), Do("event")),
   Calls(RunOf(a2), OfTool("unregister", x1), OfTool("register", x2)),
   Calls(RunOf(a2), On("unregisterAgent", NoTool, a2), On("registerAgent", NoTool, a2))}
  \cup {Calls(Changes[i], Changes[j], Changes[k]) :
          <<i, j, k>> \in {t \in (1 .. 7) \X (1 .. 7) \X (1 .. 7) : t[1] <= t[2] /\ t[2] <= t[3]}}

MCPreset == {<<>>, <<x1, y>>}
MCKnown == {{a1, a2}}

(* A rank of the window is a place of the sorted window. *)
ASSUME RanksAreSorted ==
  \A buf \in BoundedSeq(0 .. 3, 4) : \A k \in DOMAIN buf : AtRank(buf, k) = SortSeq(buf, <)[k]
=============================================================================
