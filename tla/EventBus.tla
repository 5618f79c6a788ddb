------------------------------ MODULE EventBus ------------------------------
(***************************************************************************)
(* EventBus (src/core/events/EventBus.ts), one event: its Set of handlers, *)
(* and emit, which calls those of a snapshot one after the other without a *)
(* pause, up to each one's first await.  Until then a handler may use the  *)
(* bus itself, and emit the same event: `stack` holds the emissions that   *)
(* are calling their handlers, innermost first, and nothing else runs in   *)
(* the meantime.  Errors of handlers are caught one by one.                *)
(***************************************************************************)
EXTENDS ServiceCalls

CONSTANTS
  Handler, OnceHandler,  \* OnceHandler: the wrappers made by once()
  MaxReactions           \* bound on the uses that handlers make of the bus

ASSUME BusAssumption == OnceHandler \subseteq Handler /\ MaxReactions \in Nat

VARIABLES
  handlers,  \* in the order of subscription
  stack,     \* the listeners each emission has still to call
  running,   \* those each client's emission awaits
  runs,      \* history: how often each handler was called
  owed,      \* history: how many emissions chose it
  reactions, \* the uses handlers have made of the bus
  nested     \* history: one-time handlers that two nested emissions chose

busVars == <<handlers, stack, running, runs, owed, reactions, nested>>

BusInit(subscribed) ==
  /\ handlers = subscribed /\ stack = <<>>
  /\ running = [c \in Client |-> 0]
  /\ runs = [h \in Handler |-> 0] /\ owed = [h \in Handler |-> 0]
  /\ reactions = 0 /\ nested = {}

On(h) == IF h \in Range(handlers) THEN handlers ELSE Append(handlers, h)
Off(h) == RemoveFirst(handlers, h)

(* Mutant of AsCalled: the wrapper does not take itself off. *)
StaysOn(h) == handlers

(* Who is subscribed when h has been entered. *)
AsCalled(h) == IF h \in OnceHandler THEN Off(h) ELSE handlers

Chosen(hs) == owed' = [h \in Handler |-> owed[h] + (IF h \in Range(hs) THEN 1 ELSE 0)]

(* emit(), by a client. *)
Emit(c) ==
  /\ Starts(c, "emit") /\ stack = <<>>
  /\ stack' = IF handlers = <<>> THEN <<>> ELSE <<handlers>>
  /\ running' = [running EXCEPT ![c] = Len(handlers)]
  /\ Chosen(handlers)
  /\ ToPc(c, "emitting")
  /\ UNCHANGED <<handlers, runs, reactions, nested>>

(* The next listener is entered. *)
Left == (IF Len(stack[1]) = 1 THEN <<>> ELSE <<Tail(stack[1])>>) \o Tail(stack)
Enter(h) ==
  /\ stack # <<>> /\ h = Head(stack[1])
  /\ runs' = [runs EXCEPT ![h] = @ + 1]
  /\ UNCHANGED <<callVars, running>>

Quietly(h) ==
  /\ Enter(h)
  /\ handlers' = AsCalled(h)
  /\ stack' = Left
  /\ UNCHANGED <<owed, reactions, nested>>

(* It changes the subscriptions, or emits the event itself. *)
Reacts == reactions < MaxReactions /\ reactions' = reactions + 1
Changed(hs) ==
  {<<>>} \cup {RemoveFirst(hs, g) : g \in Range(hs)}
         \cup {Append(hs, g) : g \in Handler \ (OnceHandler \cup Range(hs))}
Resubscribe(h) ==
  /\ Enter(h) /\ Reacts
  /\ handlers' \in Changed(AsCalled(h))
  /\ stack' = Left
  /\ UNCHANGED <<owed, nested>>
EmitInside(h) ==
  /\ Enter(h) /\ Reacts
  /\ LET hs == AsCalled(h) IN
       /\ handlers' = hs
       /\ stack' = (IF hs = <<>> THEN <<>> ELSE <<hs>>) \o Left
       /\ Chosen(hs)
       /\ nested' = nested \cup (OnceHandler \cap Range(hs)
                                 \cap UNION {Range(Left[i]) : i \in DOMAIN Left})

(* A handler's promise settles, with a value or an error; emit returns     *)
(* when all have.                                                          *)
Settle(c) ==
  /\ pc[c] = "emitting" /\ stack = <<>>
  /\ IF running[c] = 0
     THEN ToPc(c, "done") /\ UNCHANGED running
     ELSE running' = [running EXCEPT ![c] = @ - 1] /\ UNCHANGED callVars
  /\ UNCHANGED <<handlers, stack, runs, owed, reactions, nested>>

Subscribe(c) ==
  /\ stack = <<>>
  /\ \/ Starts(c, "on") /\ handlers' = On(op[c].handler)
     \/ Starts(c, "off") /\ handlers' = Off(op[c].handler)
     \/ Starts(c, "removeAllListeners") /\ handlers' = <<>>
  /\ ToPc(c, "done")
  /\ UNCHANGED <<stack, running, runs, owed, reactions, nested>>

BusNext ==
  \/ \E h \in Handler : Quietly(h) \/ Resubscribe(h) \/ EmitInside(h)
  \/ \E c \in Client : Emit(c) \/ Settle(c) \/ Subscribe(c)

-----------------------------------------------------------------------------
(* When the bus is quiet every handler has been called once by each        *)
(* emission that began while it was subscribed, whoever came or went       *)
(* meanwhile; and a one-time handler once in all ("auto-unsubscribes after *)
(* first execution"), unless an emission inside another one chose it, too. *)
BusDelivers ==
  stack = <<>> =>
    \A h \in Handler :
      /\ runs[h] = owed[h]
      /\ h \in OnceHandler \ nested => runs[h] <= 1
=============================================================================
