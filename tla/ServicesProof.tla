---------------------------- MODULE ServicesProof ----------------------------
(***************************************************************************)
(* What holds of the services for any number of clients, and whatever the  *)
(* other services do meanwhile: the lease of MemoryLockProvider belongs to *)
(* one client at a time, the workers of the registry are tracked, the      *)
(* loops over plugins and search providers are not led astray at their     *)
(* awaits, the LRU does not contradict the provider below it, the          *)
(* LangChain classes answer alike and keep their events, traces keep what  *)
(* was saved, and the event bus calls whom an emission found subscribed.   *)
(***************************************************************************)
EXTENDS Services, FiniteSetTheorems, SequenceTheorems, TLAPS

-----------------------------------------------------------------------------
(* The lease *)

(* The lease is exclusive because its token is compared before it changes  *)
(* hands, and told is what its holder can know: it lapses with the token's *)
(* time, not before.                                                       *)
LeaseInv ==
  /\ lease \in [token : Client, over : BOOLEAN] \cup {NoLease}
  /\ told \in [Client -> {"refused", "granted", "lapsed"}]
  /\ LeaseIsExclusive

(* No leases at first. *)
LEMMA LeaseInitInv == LeaseInit => LeaseInv
  BY DEF LeaseInit, LeaseInv, LeaseIsExclusive

(* Every operation of the provider keeps the invariant. *)
LEMMA LeaseStep == LeaseInv /\ LeaseNext => LeaseInv'
<1> SUFFICES ASSUME LeaseInv, LeaseNext PROVE LeaseInv'
  OBVIOUS
<1> USE ClientAssumption DEF LeaseInv, LeaseIsExclusive, Mine, NoLease, Tell
<1>1. CASE Lapse
  <2>1. /\ lease.token \in Client /\ lease.over = FALSE /\ provider' = provider
        /\ lease' = [token |-> lease.token, over |-> TRUE]
        /\ told' = [told EXCEPT ![lease.token] = "lapsed"]
    BY <1>1 DEF Lapse
  <2>2. \A d \in Client : told'[d] = "granted" => d # lease.token /\ told[d] = "granted"
    BY <2>1
  <2> QED
    BY <2>1, <2>2
<1>2. ASSUME NEW c \in Client, Acquire(c) PROVE LeaseInv'
  <2>1. \A d \in Client : d # c => told'[d] = told[d]
    BY <1>2 DEF Acquire
  <2>2. CASE provider = "bridge"
    BY <1>2, <2>1, <2>2 DEF Acquire
  <2>3. CASE provider # "bridge" /\ (lease = NoLease \/ lease.over)
    <3>1. lease' = Mine(c) /\ told' = [told EXCEPT ![c] = "granted"]
      BY <1>2, <2>3 DEF Acquire
    <3>2. \A d \in Client : provider = "memory" => told[d] # "granted"
      BY <2>3
    <3> QED
      BY <1>2, <2>1, <3>1, <3>2 DEF Acquire
  <2>4. CASE provider # "bridge" /\ ~(lease = NoLease \/ lease.over)
    <3>1. lease' = lease /\ told' = [told EXCEPT ![c] = "refused"] /\ provider' = provider
      BY <1>2, <2>4 DEF Acquire
    <3> QED
      BY <2>1, <3>1
  <2> QED
    BY <2>2, <2>3, <2>4
<1>3. ASSUME NEW c \in Client, Renew(c) PROVE LeaseInv'
  <2>1. \A d \in Client : d # c => told'[d] = told[d]
    BY <1>3 DEF Renew
  <2>2. CASE OwnToken(c)
    <3>1. lease' = Mine(c) /\ told' = [told EXCEPT ![c] = "granted"]
      BY <1>3, <2>2 DEF Renew
    <3>2. \A d \in Client : d # c /\ provider = "memory" => told[d] # "granted"
      BY <2>2 DEF OwnToken
    <3> QED
      BY <1>3, <2>1, <3>1, <3>2 DEF Renew
  <2>3. CASE ~OwnToken(c)
    <3>1. lease' = lease /\ told' = [told EXCEPT ![c] = "refused"]
      BY <1>3, <2>3 DEF Renew
    <3> QED
      BY <1>3, <2>1, <3>1 DEF Renew
  <2> QED
    BY <2>2, <2>3
<1>4. ASSUME NEW c \in Client, Release(c) PROVE LeaseInv'
  <2>1. told' = [told EXCEPT ![c] = "refused"] /\ provider' = provider
    BY <1>4 DEF Release
  <2>2. told'[c] = "refused" /\ \A d \in Client : d # c => told'[d] = told[d]
    BY <2>1
  <2>3. CASE provider = "memory" /\ OwnToken(c)
    <3>1. lease' = NoLease /\ \A d \in Client : d # c => told[d] # "granted"
      BY <1>4, <2>3 DEF Release, OwnToken
    <3> QED
      BY <2>1, <2>2, <3>1
  <2>4. CASE ~(provider = "memory" /\ OwnToken(c))
    <3>1. lease' = lease
      BY <1>4, <2>4 DEF Release
    <3> QED
      BY <2>1, <2>2, <3>1
  <2> QED
    BY <2>3, <2>4
<1> QED
  BY <1>1, <1>2, <1>3, <1>4 DEF LeaseNext

(* A client that was granted the lease of MemoryLockProvider has it alone  *)
(* until its time is over (MemoryProviders.ts:81-112).                     *)
THEOREM LeaseTheorem == Spec => []LeaseIsExclusive
<1>1. Init => LeaseInv
  BY LeaseInitInv DEF Init
<1>2. LeaseInv /\ [Next]_vars => LeaseInv'
  <2> SUFFICES ASSUME LeaseInv, [Next]_vars PROVE LeaseInv'
    OBVIOUS
  <2>1. CASE LeaseNext
    BY <2>1, LeaseStep
  <2>2. CASE UNCHANGED leaseVars
    BY <2>2 DEF leaseVars, LeaseInv, LeaseIsExclusive
  <2> QED
    BY <2>1, <2>2 DEF Next, vars
<1>3. LeaseInv => LeaseIsExclusive
  BY DEF LeaseInv
<1> QED
  BY <1>1, <1>2, <1>3, PTL DEF Spec

-----------------------------------------------------------------------------
(* The callers *)

(* What a step of one service does to the callers: at most one of them     *)
(* moves, and it makes a call of that service or is inside one.            *)
Moves(kinds, stages) ==
  /\ op' = op
  /\ \/ pc' = pc
     \/ \E c \in Client, to \in stages \cup {"done", "threw"} :
          /\ pc' = [pc EXCEPT ![c] = to]
          /\ pc[c] \in stages \/ (pc[c] = "idle" /\ op[c].kind \in kinds)

BusKinds == {"emit", "on", "off", "removeAllListeners"}
CacheKinds == {"get", "set", "delete", "clear"}
ObsKinds == {"event", "span", "finishTrace"}
LangKinds == {"lookup", "update", "invoke", "callback", "reset"}
PluginKinds == {"registerPlugin", "initializeAll", "registerProvider", "search"}
WorkerKinds == {"registerWorker", "unregisterWorker", "heartbeat", "setWorkerStatus",
                "pruneStaleWorkers"}
ObsStages == {"pushing", "spanOpen", "saving", "closing"}
LangStages == {"asking", "executing", "telling"}
PluginStages == {"initializing", "searching", "telling failure"}

(* The event bus moves only its own callers.                               *)
LEMMA BusMoves == BusNext => Moves(BusKinds, {"emitting"})
<1> USE DEF BusKinds, Moves, ToPc, Starts, callVars
<1>1. ASSUME NEW h \in Handler, Quietly(h) \/ Resubscribe(h) \/ EmitInside(h)
      PROVE Moves(BusKinds, {"emitting"})
  BY <1>1 DEF Quietly, Resubscribe, EmitInside, Enter
<1>2. ASSUME NEW c \in Client, Emit(c) \/ Settle(c) \/ Subscribe(c)
      PROVE Moves(BusKinds, {"emitting"})
  BY <1>2 DEF Emit, Settle, Subscribe
<1> QED
  BY <1>1, <1>2 DEF BusNext

(* The cache stack moves only its own callers.                             *)
LEMMA CacheMoves == CacheNext => Moves(CacheKinds, {"awaiting"})
<1> USE DEF CacheKinds, Moves, ToPc, Starts, callVars
<1>1. ASSUME NEW c \in Client, Get(c) \/ Set(c) \/ Erase(c) \/ Resume(c)
      PROVE Moves(CacheKinds, {"awaiting"})
  BY <1>1 DEF Get, Set, Erase, Resume, Await, Goes
<1>2. CASE Expire \/ Evict
  BY <1>2 DEF Expire, Evict
<1> QED
  BY <1>1, <1>2 DEF CacheNext

(* The lock provider moves only its own callers.                           *)
LEMMA LeaseMoves == LeaseNext => Moves({"lease"}, {"holding"})
<1> USE DEF Moves, ToPc, Starts, callVars
<1>1. ASSUME NEW c \in Client, Acquire(c) \/ Renew(c) \/ Release(c)
      PROVE Moves({"lease"}, {"holding"})
  BY <1>1 DEF Acquire, Renew, Release, Goes
<1>2. CASE Lapse
  BY <1>2 DEF Lapse
<1> QED
  BY <1>1, <1>2 DEF LeaseNext

(* Tracer, timeline and metrics move only their own callers.               *)
LEMMA ObsMoves == ObsNext => Moves(ObsKinds, ObsStages)
<1> USE DEF ObsKinds, ObsStages, Moves, ToPc, Starts
<1>1. ASSUME NEW c \in Client, Happen(c) PROVE Moves(ObsKinds, ObsStages)
  BY <1>1 DEF Happen
<1>2. ASSUME NEW c \in Client, LoadTrace(c) PROVE Moves(ObsKinds, ObsStages)
  BY <1>2 DEF LoadTrace
<1>3. ASSUME NEW c \in Client, SaveTrace(c) PROVE Moves(ObsKinds, ObsStages)
  BY <1>3 DEF SaveTrace
<1>4. ASSUME NEW c \in Client, NEW l \in List, Push(c, l) PROVE Moves(ObsKinds, ObsStages)
  BY <1>4 DEF Push
<1> QED
  BY <1>1, <1>2, <1>3, <1>4 DEF ObsNext

(* The LangChain integration moves only its own callers.                   *)
LEMMA LangMoves == LangNext => Moves(LangKinds, LangStages)
<1> USE DEF LangKinds, LangStages, Moves, ToPc, Starts, callVars
<1>1. ASSUME NEW c \in Client, EnterDiary(c) \/ Ask(c) \/ Lookup(c) \/ RecordEvent(c) \/ Reset(c)
      PROVE Moves(LangKinds, LangStages)
  BY <1>1 DEF EnterDiary, Ask, Lookup, RecordEvent, Reset
<1>2. ASSUME NEW c \in Client, NEW ok \in BOOLEAN, LeaveDiary(c, ok) \/ Told(c, ok)
      PROVE Moves(LangKinds, LangStages)
  BY <1>2 DEF LeaveDiary, Told
<1>3. ASSUME NEW i \in 1 .. MaxEvents, ExpireRecord(i) PROVE Moves(LangKinds, LangStages)
  BY <1>3 DEF ExpireRecord
<1>4. CASE Tick
  BY <1>4 DEF Tick
<1> QED
  BY <1>1, <1>2, <1>3, <1>4 DEF LangNext

(* Plugins and search move only their own callers.                         *)
LEMMA PluginMoves == PluginNext => Moves(PluginKinds, PluginStages)
<1> USE DEF PluginKinds, PluginStages, Moves, ToPc, Starts
<1>1. ASSUME NEW c \in Client, RegisterPlugin(c) \/ RegisterProvider(c) \/ Search(c) \/ FallBack(c)
      PROVE Moves(PluginKinds, PluginStages)
  BY <1>1 DEF RegisterPlugin, RegisterProvider, Search, FallBack
<1>2. ASSUME NEW c \in Client, InitializeAll(c) PROVE Moves(PluginKinds, PluginStages)
  BY <1>2 DEF InitializeAll, Visit
<1>3. ASSUME NEW c \in Client, NEW ok \in BOOLEAN, PluginEnds(c, ok) \/ Asked(c, ok)
      PROVE Moves(PluginKinds, PluginStages)
  BY <1>3 DEF PluginEnds, Visit, Asked
<1> QED
  BY <1>1, <1>2, <1>3 DEF PluginNext

(* The worker registry has no await: its calls are over when they return.  *)
LEMMA WorkerMoves == WorkersNext => Moves(WorkerKinds, {})
<1> USE DEF WorkerKinds, Moves, ToPc, Starts, callVars
<1>1. ASSUME NEW c \in Client, CallWorkers(c) PROVE Moves(WorkerKinds, {})
  BY <1>1 DEF CallWorkers
<1>2. CASE Silence
  BY <1>2 DEF Silence
<1> QED
  BY <1>1, <1>2 DEF WorkersNext

-----------------------------------------------------------------------------
(* The workers *)

(* The workers on the list are workers, and tracked.                       *)
WorkerInv ==
  /\ op \in Workload
  /\ given = [w \in Worker |-> given[w]]
  /\ workers = [w \in DOMAIN workers |-> workers[w]]
  /\ DOMAIN workers \subseteq Worker
  /\ \A w \in DOMAIN workers :
       workers[w] = [status |-> workers[w].status, silence |-> workers[w].silence]
  /\ WorkersAreTracked


(* Every operation of the worker registry, and the passing of time, keeps  *)
(* the invariant (WorkerRegistry.ts:20-90).                                *)
LEMMA WorkersStep == WorkerInv /\ WorkersNext => WorkerInv'
<1> SUFFICES ASSUME WorkerInv, WorkersNext PROVE WorkerInv'
  OBVIOUS
<1> USE DEF WorkerInv, WorkersAreTracked, GetWorker
<1>1. CASE Silence
  <2>1. /\ op' = op /\ given' = given /\ missing' = missing
        /\ workers' = [w \in DOMAIN workers |->
             [workers[w] EXCEPT !.silence = IF @ > MaxInactivity THEN @ ELSE @ + 1]]
    BY <1>1 DEF Silence, callVars
  <2>2. \A w \in DOMAIN workers :
          /\ workers'[w] = [status |-> workers[w].status, silence |-> workers'[w].silence]
          /\ workers[w].silence > MaxInactivity => workers'[w].silence = workers[w].silence
    BY <2>1
  <2> QED
    BY <2>1, <2>2
<1>2. ASSUME NEW c \in Client, CallWorkers(c) PROVE WorkerInv'
  <2> op' = op
    BY <1>2 DEF CallWorkers, ToPc
  <2> USE DEF Gives
  <2>1. ASSUME NEW w \in Worker, NEW status, RegisterWorker(w, status) PROVE WorkerInv'
    BY <2>1 DEF RegisterWorker
  <2>2. ASSUME NEW w \in Worker, UnregisterWorker(w) PROVE WorkerInv'
    BY <2>2 DEF UnregisterWorker, Restrict
  <2>3. ASSUME NEW w \in Worker, Heartbeat(w) PROVE WorkerInv'
    BY <2>3 DEF Heartbeat, Beaten, workerVars
  <2>4. ASSUME NEW w \in Worker, NEW status, SetWorkerStatus(w, status) PROVE WorkerInv'
    BY <2>4 DEF SetWorkerStatus, workerVars
  <2>5. CASE PruneStaleWorkers
    BY <2>5 DEF PruneStaleWorkers, Stale
  <2>6. op[c].kind \in {"registerWorker", "unregisterWorker", "heartbeat", "setWorkerStatus"}
          => op[c].worker \in Worker
    BY ServicesAssumption
  <2> QED
    BY <1>2, <2>1, <2>2, <2>3, <2>4, <2>5, <2>6 DEF CallWorkers, Starts
<1> QED
  BY <1>1, <1>2 DEF WorkersNext

(* The other services leave the workers alone. *)
LEMMA WorkersStay == WorkerInv /\ op' = op /\ UNCHANGED workerVars => WorkerInv'
  BY DEF WorkerInv, WorkersAreTracked, GetWorker, workerVars

(* A listed worker has the status it was last given, or has been reported  *)
(* as silent (WorkerRegistry.ts:44-90).                                    *)
THEOREM WorkersTheorem == Spec => []WorkersAreTracked
<1>1. Init => WorkerInv
  BY ServicesAssumption DEF Init, WorkersInit, WorkerInv, WorkersAreTracked, GetWorker
<1>2. WorkerInv /\ [Next]_vars => WorkerInv'
  <2> SUFFICES ASSUME WorkerInv, [Next]_vars PROVE WorkerInv'
    OBVIOUS
  <2>1. CASE WorkersNext
    BY <2>1, WorkersStep
  <2>2. CASE (BusNext \/ CacheNext \/ LeaseNext \/ ObsNext \/ LangNext \/ PluginNext) /\ UNCHANGED workerVars
    BY <2>2, WorkersStay, BusMoves, CacheMoves, LeaseMoves, ObsMoves, LangMoves, PluginMoves DEF Moves
  <2>3. CASE UNCHANGED vars
    BY <2>3, WorkersStay DEF vars, callVars
  <2> QED
    BY <2>1, <2>2, <2>3 DEF Next
<1>3. WorkerInv => WorkersAreTracked
  BY DEF WorkerInv
<1> QED
  BY <1>1, <1>2, <1>3, PTL DEF Spec

-----------------------------------------------------------------------------
(* The plugins and the search providers. *)

(* Each loop has behind it only what is ready, or was put there too late. *)
InitInv ==
  /\ plugins \in Seq(Plugin) /\ OneEntryPerName(plugins)
  /\ place \in [Client -> Nat] /\ held \in [Client -> SUBSET Plugin]
  /\ pc = [c \in Client |-> pc[c]]
  /\ op \in Workload
  /\ \A c \in Client : pc[c] = "initializing" =>
       /\ place[c] \in DOMAIN plugins
       /\ plugins[place[c]] \in held[c] \cup overtaken
       /\ \A i \in 1 .. place[c] - 1 : plugins[i] \in ready \cup overtaken
  /\ PluginsReady

(* Going on to the next plugin keeps the invariant, when those behind it   *)
(* are ready or came too late (PluginRegistry.ts, the loop of              *)
(* initializeAll).                                                         *)
LEMMA VisitKeeps ==
  ASSUME InitInv, NEW c \in Client, NEW i \in Nat \ {0}, Visit(c, i), plugins' = plugins,
         overtaken' = overtaken, ready \subseteq ready',
         \A j \in DOMAIN plugins : j < i => plugins[j] \in ready' \cup overtaken
  PROVE  InitInv'
<1> USE DEF InitInv, Visit
<1>1. op' = op /\ place' \in [Client -> Nat] /\ place'[c] = i
      /\ \A d \in Client : d # c => place'[d] = place[d] /\ held'[d] = held[d] /\ pc'[d] = pc[d]
  BY DEF ToPc
<1>2. CASE i \in DOMAIN plugins
  <2>1. /\ held' = [held EXCEPT ![c] = {plugins[i]}] /\ initialized' = initialized
        /\ pc' = [pc EXCEPT ![c] = "initializing"]
    BY <1>2 DEF ToPc
  <2>2. PluginsReady'
    BY <2>1 DEF PluginsReady, Range
  <2>3. plugins[i] \in Plugin
    BY <1>2
  <2>4. held' \in [Client -> SUBSET Plugin] /\ pc' = [d \in Client |-> pc'[d]]
    BY <2>1, <2>3
  <2>5. ASSUME NEW d \in Client, pc'[d] = "initializing"
        PROVE  /\ place'[d] \in DOMAIN plugins
               /\ plugins[place'[d]] \in held'[d] \cup overtaken
               /\ \A j \in 1 .. place'[d] - 1 : plugins[j] \in ready' \cup overtaken
    BY <1>1, <1>2, <2>1, <2>5
  <2> QED
    BY <1>1, <2>2, <2>4, <2>5
<1>3. CASE i \notin DOMAIN plugins
  <2>1. /\ held' = [held EXCEPT ![c] = {}] /\ pc' = [pc EXCEPT ![c] = "done"]
    BY <1>3 DEF ToPc
  <2>2. PluginsReady'
    <3>1. DOMAIN plugins = 1 .. Len(plugins) /\ Len(plugins) \in Nat
      OBVIOUS
    <3>2. \A j \in DOMAIN plugins : j < i
      BY <1>3, <3>1
    <3> QED
      BY <3>2 DEF PluginsReady, Range
  <2>5. ASSUME NEW d \in Client, pc'[d] = "initializing"
        PROVE  /\ place'[d] \in DOMAIN plugins
               /\ plugins[place'[d]] \in held'[d] \cup overtaken
               /\ \A j \in 1 .. place'[d] - 1 : plugins[j] \in ready' \cup overtaken
    BY <1>1, <2>1, <2>5
  <2> QED
    BY <1>1, <2>1, <2>2, <2>5
<1> QED
  BY <1>2, <1>3

(* Registering a plugin, new or over another of its name, keeps the        *)
(* invariant: a loop that has passed the place finds it among the          *)
(* overtaken.                                                              *)
LEMMA RegisterKeeps ==
  ASSUME InitInv, NEW c \in Client, RegisterPlugin(c)
  PROVE  InitInv'
<1> USE DEF InitInv
<1> DEFINE g == op[c].plugin
<1>1. /\ g \in Plugin /\ op' = op
      /\ pc' = [pc EXCEPT ![c] = "done"]
      /\ UNCHANGED <<initialized, storage, held, ready, place>>
  BY ServicesAssumption DEF RegisterPlugin, Starts, ToPc
<1>2. overtaken \subseteq overtaken' /\ (initialized => g \in overtaken')
  BY DEF RegisterPlugin
<1>3. CASE PlaceOf(g) = {}
  <2>1. plugins' = Append(plugins, g)
    BY <1>3 DEF RegisterPlugin
  <2>2. /\ DOMAIN plugins' = 1 .. Len(plugins) + 1 /\ DOMAIN plugins = 1 .. Len(plugins)
        /\ \A i \in DOMAIN plugins : plugins'[i] = plugins[i]
        /\ plugins'[Len(plugins) + 1] = g /\ plugins' \in Seq(Plugin)
    BY <1>1, <2>1
  <2>3. OneEntryPerName(plugins)'
    BY <1>3, <2>2 DEF OneEntryPerName, PlaceOf
  <2>4. PluginsReady'
    <3>1. ASSUME NEW i \in DOMAIN plugins', initialized PROVE plugins'[i] \in ready \cup overtaken'
      <4>1. CASE i \in DOMAIN plugins
        BY <1>2, <2>2, <3>1, <4>1 DEF PluginsReady, Range
      <4>2. CASE i = Len(plugins) + 1
        BY <1>2, <2>2, <3>1, <4>2
      <4> QED
        BY <2>2, <4>1, <4>2
    <3> QED
      BY <1>1, <3>1 DEF PluginsReady, Range
  <2> QED
    BY <1>1, <1>2, <2>2, <2>3, <2>4
<1>4. ASSUME NEW k \in PlaceOf(g) PROVE InitInv'
  <2>1. k \in DOMAIN plugins /\ PlaceOf(g) = {k} /\ PluginName[plugins[k]] = PluginName[g]
    BY <1>4 DEF PlaceOf, OneEntryPerName
  <2>2. Max(PlaceOf(g)) = k
    BY <2>1 DEF Max
  <2>3. plugins' = [plugins EXCEPT ![k] = g]
    BY <2>1, <2>2 DEF RegisterPlugin
  <2>4. /\ DOMAIN plugins' = DOMAIN plugins /\ plugins' \in Seq(Plugin)
        /\ plugins'[k] = g /\ \A i \in DOMAIN plugins : i # k => plugins'[i] = plugins[i]
    BY <1>1, <2>1, <2>3
  <2>5. OneEntryPerName(plugins)'
    <3>1. \A i \in DOMAIN plugins : PluginName[plugins'[i]] = PluginName[plugins[i]]
      BY <2>1, <2>4
    <3> QED
      BY <2>4, <3>1 DEF OneEntryPerName
  <2>6. PluginsReady'
    BY <1>1, <1>2, <2>4 DEF PluginsReady, Range
  <2>7. \A d \in Client : pc[d] = "initializing" /\ k <= place[d] => g \in overtaken'
    BY <1>4 DEF RegisterPlugin
  <2>8. ASSUME NEW d \in Client, pc'[d] = "initializing"
        PROVE  /\ place[d] \in DOMAIN plugins
               /\ plugins'[place[d]] \in held[d] \cup overtaken'
               /\ \A i \in 1 .. place[d] - 1 : plugins'[i] \in ready \cup overtaken'
    <3>1. pc[d] = "initializing" /\ place[d] \in Nat /\ DOMAIN plugins = 1 .. Len(plugins) /\ k \in Nat
      BY <1>1, <2>1, <2>8
    <3>2. place[d] < k => place[d] # k /\ \A i \in 1 .. place[d] - 1 : i # k
      BY <3>1
    <3>3. \A i \in 1 .. place[d] - 1 : i \in DOMAIN plugins
      BY <3>1
    <3>4. /\ place[d] \in DOMAIN plugins
          /\ plugins[place[d]] \in held[d] \cup overtaken
          /\ \A i \in 1 .. place[d] - 1 : plugins[i] \in ready \cup overtaken
      BY <3>1
    <3>5. CASE k <= place[d]
      BY <1>2, <2>4, <2>7, <3>1, <3>3, <3>4, <3>5
    <3>6. CASE place[d] < k
      <4>1. \A i \in DOMAIN plugins : i # k => plugins'[i] = plugins[i]
        BY <2>4
      <4> QED
        BY <1>2, <3>2, <3>3, <3>4, <3>6, <4>1
    <3> QED
      BY <2>1, <3>1, <3>5, <3>6
  <2> QED
    BY <1>1, <2>4, <2>5, <2>6, <2>8
<1> QED
  BY <1>3, <1>4

(* Every step of the registry of plugins keeps the invariant, and so do    *)
(* those of the search, which leave the plugins alone.                     *)
LEMMA InitStep == InitInv /\ PluginNext => InitInv'
<1> SUFFICES ASSUME InitInv, NEW c \in Client, NEW ok \in BOOLEAN,
                    \/ RegisterPlugin(c) \/ InitializeAll(c) \/ RegisterProvider(c)
                    \/ Search(c) \/ FallBack(c) \/ PluginEnds(c, ok) \/ Asked(c, ok)
             PROVE  InitInv'
  BY DEF PluginNext
<1>1. CASE RegisterPlugin(c)
  BY <1>1, RegisterKeeps
<1>2. CASE InitializeAll(c)
  <2>1. \A j \in DOMAIN plugins : ~(j < 1)
    BY DEF InitInv
  <2> QED
    BY <1>2, <2>1, VisitKeeps DEF InitializeAll
<1>3. CASE PluginEnds(c, ok) /\ ok
  <2> USE DEF InitInv
  <2>1. /\ pc[c] = "initializing" /\ ready' = ready \cup held[c] /\ overtaken' = overtaken
        /\ plugins' = plugins /\ Visit(c, place[c] + 1)
    BY <1>3 DEF PluginEnds
  <2>2. ASSUME NEW j \in DOMAIN plugins, j < place[c] + 1
        PROVE  plugins[j] \in ready' \cup overtaken
    <3>1. j = place[c] \/ j \in 1 .. place[c] - 1
      BY <2>2
    <3> QED
      BY <2>1, <3>1
  <2>3. place[c] + 1 \in Nat \ {0}
    OBVIOUS
  <2> HIDE DEF InitInv
  <2> QED
    BY <2>1, <2>2, <2>3, VisitKeeps
<1>4. CASE PluginEnds(c, ok) /\ ~ok
  BY <1>4 DEF PluginEnds, InitInv, PluginsReady, ToPc
<1>5. CASE RegisterProvider(c)
  BY <1>5 DEF RegisterProvider, InitInv, PluginsReady, ToPc, registryVars
<1>6. CASE Search(c) \/ FallBack(c) \/ Asked(c, ok)
  <2>1. /\ op' = op /\ UNCHANGED registryVars /\ pc[c] # "initializing"
        /\ place' \in [Client -> Nat] /\ \A d \in Client : d # c => place'[d] = place[d]
        /\ \E to \in {"threw", "searching", "telling failure", "done"} : pc' = [pc EXCEPT ![c] = to]
    <3> USE DEF InitInv, ToPc, Starts, searchVars
    <3>1. CASE Search(c)
      BY <3>1 DEF Search
    <3>2. CASE FallBack(c)
      <4>1. \E to \in {"threw", "searching"} : pc' = [pc EXCEPT ![c] = to]
        BY <3>2 DEF FallBack
      <4>2. place' \in [Client -> Nat] /\ \A d \in Client : d # c => place'[d] = place[d]
        <5>1. place \in [Client -> Nat] /\ place[c] + 1 \in Nat
          OBVIOUS
        <5>2. place' = [place EXCEPT ![c] = @ + 1] \/ place' = place
          BY <3>2 DEF FallBack
        <5> HIDE DEF InitInv
        <5> QED
          BY <5>1, <5>2
      <4> QED
        BY <3>2, <4>1, <4>2 DEF FallBack
    <3>3. CASE Asked(c, ok)
      BY <3>3 DEF Asked
    <3> QED
      BY <1>6, <3>1, <3>2, <3>3
  <2>2. /\ pc' = [d \in Client |-> pc'[d]]
        /\ \A d \in Client : pc'[d] = "initializing" => pc[d] = "initializing" /\ d # c
    BY <2>1 DEF InitInv
  <2>3. UNCHANGED <<plugins, initialized, held, ready, overtaken>>
    BY <2>1 DEF registryVars
  <2> QED
    BY <2>1, <2>2, <2>3 DEF InitInv, PluginsReady
<1> QED
  BY <1>1, <1>2, <1>3, <1>4, <1>5, <1>6

(* The steps of the other services start no initialization. *)
LEMMA InitStays ==
  ASSUME InitInv, UNCHANGED pluginVars, NEW kinds, NEW stages,
         "initializing" \notin stages, Moves(kinds, stages)
  PROVE  InitInv'
<1>1. UNCHANGED <<plugins, initialized, held, ready, overtaken, place>> /\ op' = op
  BY DEF pluginVars, registryVars, Moves
<1>2. \A d \in Client : pc'[d] = "initializing" => pc[d] = "initializing"
  BY DEF Moves, InitInv
<1>3. pc' = [d \in Client |-> pc'[d]]
  BY DEF Moves, InitInv
<1> QED
  BY <1>1, <1>2, <1>3 DEF InitInv, PluginsReady

-----------------------------------------------------------------------------
(* What is kept of the outcomes is a list of outcomes.                     *)
LEMMA LastHealthTyped ==
  ASSUME NEW rs \in Seq(BOOLEAN)
  PROVE  LastHealth(rs) \in Seq(BOOLEAN)
<1> DEFINE m == IF Len(rs) > MaxHealth THEN Len(rs) - MaxHealth + 1 ELSE 1
<1>1. m \in Int /\ m >= 1 /\ Len(rs) \in Int
  BY PluginAssumption
<1>2. LastHealth(rs) = SubSeq(rs, m, Len(rs))
  BY DEF LastHealth
<1> HIDE DEF m
<1>3. \A i \in m .. Len(rs) : rs[i] \in BOOLEAN
  BY <1>1
<1> QED
  BY <1>1, <1>2, <1>3, SubSeqProperties

(* Cutting the outcomes at every call is cutting them once: only the last  *)
(* MaxHealth count (SearchOrchestrator.ts, recordHealth).                  *)
LEMMA HealthOfHealth ==
  ASSUME NEW rs \in Seq(BOOLEAN), NEW ok \in BOOLEAN
  PROVE  LastHealth(Append(LastHealth(rs), ok)) = LastHealth(Append(rs, ok))
<1> DEFINE n == Len(rs)
<1> USE PluginAssumption
<1>1. CASE n <= MaxHealth
  <2>1. LastHealth(rs) = rs
    <3>1. ~(Len(rs) > MaxHealth)
      BY <1>1
    <3> QED
      BY <3>1, SubSeqFull DEF LastHealth
  <2> QED
    BY <2>1
<1>2. CASE n > MaxHealth
  <2> DEFINE kept == LastHealth(rs)
  <2>1. /\ kept \in Seq(BOOLEAN) /\ Len(kept) = MaxHealth
        /\ \A i \in 1 .. MaxHealth : kept[i] = rs[n - MaxHealth + i]
    BY <1>2 DEF LastHealth
  <2> HIDE DEF kept
  <2> DEFINE s == Append(kept, ok)  t == Append(rs, ok)
  <2>2. /\ s \in Seq(BOOLEAN) /\ Len(s) = MaxHealth + 1
        /\ \A i \in 2 .. MaxHealth : s[i] = rs[n - MaxHealth + i]
        /\ s[MaxHealth + 1] = ok
    BY <2>1
  <2>3. /\ t \in Seq(BOOLEAN) /\ Len(t) = n + 1
        /\ \A i \in 1 .. n : t[i] = rs[i]
        /\ t[n + 1] = ok
    OBVIOUS
  <2> HIDE DEF s, t
  <2>4. LastHealth(s) = SubSeq(s, 2, MaxHealth + 1)
    <3>1. Len(s) > MaxHealth /\ Len(s) - MaxHealth + 1 = 2
      BY <2>2
    <3> QED
      BY <2>2, <3>1 DEF LastHealth
  <2>5. LastHealth(t) = SubSeq(t, n - MaxHealth + 2, n + 1)
    <3>1. Len(t) > MaxHealth /\ Len(t) - MaxHealth + 1 = n - MaxHealth + 2
      BY <1>2, <2>3
    <3> QED
      BY <2>3, <3>1 DEF LastHealth
  <2>6. /\ LastHealth(s) \in Seq(BOOLEAN) /\ Len(LastHealth(s)) = MaxHealth
        /\ \A i \in 1 .. MaxHealth : LastHealth(s)[i] = s[i + 1]
    <3>1. \A i \in 1 .. MaxHealth : 2 + i - 1 = i + 1
      OBVIOUS
    <3> QED
      BY <2>2, <2>4, <3>1
  <2>7. /\ LastHealth(t) \in Seq(BOOLEAN) /\ Len(LastHealth(t)) = MaxHealth
        /\ \A i \in 1 .. MaxHealth : LastHealth(t)[i] = t[n - MaxHealth + 1 + i]
    BY <1>2, <2>3, <2>5
  <2>8. ASSUME NEW i \in 1 .. MaxHealth PROVE LastHealth(s)[i] = LastHealth(t)[i]
    <3>1. CASE i = MaxHealth
      BY <2>2, <2>3, <2>6, <2>7, <3>1
    <3>2. CASE i # MaxHealth
      <4>1. /\ i + 1 \in 2 .. MaxHealth /\ n - MaxHealth + 1 + i \in 1 .. n
            /\ n - MaxHealth + (i + 1) = n - MaxHealth + 1 + i
        BY <1>2, <3>2
      <4>2. s[i + 1] = rs[n - MaxHealth + (i + 1)]
        BY <2>2, <4>1
      <4>3. t[n - MaxHealth + 1 + i] = rs[n - MaxHealth + 1 + i]
        BY <2>3, <4>1
      <4> QED
        BY <2>6, <2>7, <4>1, <4>2, <4>3
    <3> QED
      BY <3>1, <3>2
  <2>9. LastHealth(s) = LastHealth(t)
    BY <2>6, <2>7, <2>8
  <2> QED
    BY <2>1, <2>9 DEF s, t, kept
<1> QED
  BY <1>1, <1>2

(* A search has been refused by all it has asked before the one it asks.   *)
SearchStages == {"idle", "searching", "telling failure", "done", "threw"}
Refused(c, n) == \A i \in 1 .. n : providers[i] \in refused[c]
Searching(c) ==
  /\ pc[c] \in SearchStages
  /\ pc[c] \in {"searching", "telling failure", "done"} => place[c] \in 1 .. Len(providers)
  /\ pc[c] \in {"searching", "done"} => Refused(c, place[c] - 1)
  /\ pc[c] = "telling failure" => Refused(c, place[c])
  /\ pc[c] # "done" => found[c] = {}
  /\ pc[c] \in {"searching", "telling failure"} => hoped[c] \subseteq Range(providers)
  /\ pc[c] = "threw" => hoped[c] \subseteq refused[c]
(* Every search is at such a place, and the health is what was seen. *)
SearchInv ==
  /\ providers \in Seq(Provider)
  /\ health \in [Provider -> Seq(BOOLEAN)] /\ outcomes \in [Provider -> Seq(BOOLEAN)]
  /\ place \in [Client -> Nat]
  /\ found \in [Client -> SUBSET Provider] /\ hoped \in [Client -> SUBSET Provider]
  /\ refused \in [Client -> SUBSET Provider]
  /\ pc = [c \in Client |-> pc[c]]
  /\ op \in Workload
  /\ \A c \in Client : op[c].kind = "search" => Searching(c)
  /\ \A c \in Client : pc[c] \in {"searching", "telling failure"} => op[c].kind = "search"
  /\ \A v \in Provider : health[v] = LastHealth(outcomes[v])

(* A search that is over has asked in order, and was refused by all        *)
(* before the one that answered.                                           *)
LEMMA SearchSound == SearchInv => SearchFallsBack
<1> SUFFICES ASSUME SearchInv PROVE SearchFallsBack
  OBVIOUS
<1>1. ASSUME NEW c \in Client, op[c].kind = "search", pc[c] = "done"
      PROVE  Range(SubSeq(providers, 1, place[c] - 1)) \subseteq refused[c]
  <2>1. /\ place[c] \in 1 .. Len(providers) /\ Refused(c, place[c] - 1) /\ providers \in Seq(Provider)
    BY <1>1 DEF SearchInv, Searching
  <2> DEFINE s == SubSeq(providers, 1, place[c] - 1)
  <2>2. DOMAIN s = 1 .. place[c] - 1 /\ \A i \in DOMAIN s : s[i] = providers[i]
    BY <2>1
  <2> QED
    BY <2>1, <2>2 DEF Range, Refused
<1> QED
  BY <1>1 DEF SearchInv, Searching, SearchFallsBack

(* Another client's step: the search is where it was. *)
LEMMA SearchingOn ==
  ASSUME SearchInv, NEW c \in Client, Searching(c), pc'[c] = pc[c], place'[c] = place[c],
         found'[c] = found[c], hoped'[c] = hoped[c], refused'[c] = refused[c],
         \/ providers' = providers
         \/ \E v \in Provider : providers' = Append(providers, v)
  PROVE  Searching(c)'
<1>1. providers \in Seq(Provider) /\ place[c] \in Nat
  BY DEF SearchInv
<1>2. /\ providers' \in Seq(Provider) /\ Len(providers) <= Len(providers')
      /\ \A i \in 1 .. Len(providers) : providers'[i] = providers[i]
  <2>1. ASSUME NEW v \in Provider, providers' = Append(providers, v) 
        PROVE  /\ providers' \in Seq(Provider) /\ Len(providers) <= Len(providers')
               /\ \A i \in 1 .. Len(providers) : providers'[i] = providers[i]
    BY <1>1, <2>1
  <2> QED
    BY <1>1, <2>1
<1>3. Range(providers) \subseteq Range(providers')
  BY <1>1, <1>2 DEF Range
<1>4. place[c] \in 1 .. Len(providers) => place[c] \in 1 .. Len(providers')
  BY <1>1, <1>2
<1>5. \A n \in Int : n <= Len(providers) /\ Refused(c, n) =>
        \A i \in 1 .. n : providers'[i] \in refused'[c]
  BY <1>1, <1>2 DEF Refused
<1>6. /\ place[c] \in 1 .. Len(providers) /\ Refused(c, place[c]) =>
            \A i \in 1 .. place[c] : providers'[i] \in refused'[c]
      /\ place[c] \in 1 .. Len(providers) /\ Refused(c, place[c] - 1) =>
            \A i \in 1 .. place[c] - 1 : providers'[i] \in refused'[c]
  BY <1>1, <1>5
<1> QED
  BY <1>3, <1>4, <1>6 DEF Searching, Refused

(* Every step of the search keeps the invariant. *)
LEMMA SearchStep == SearchInv /\ PluginNext => SearchInv'
<1> SUFFICES ASSUME SearchInv, NEW c \in Client, NEW ok \in BOOLEAN,
                    \/ RegisterPlugin(c) \/ InitializeAll(c) \/ RegisterProvider(c)
                    \/ Search(c) \/ FallBack(c) \/ PluginEnds(c, ok) \/ Asked(c, ok)
             PROVE  SearchInv'
  BY DEF PluginNext
<1>p. pc = [d \in Client |-> pc[d]]
  BY DEF SearchInv
<1>l. place \in [Client -> Nat]
  BY DEF SearchInv
<1>h. /\ found \in [Client -> SUBSET Provider] /\ hoped \in [Client -> SUBSET Provider]
      /\ refused \in [Client -> SUBSET Provider]
  BY DEF SearchInv
<1>v. providers \in Seq(Provider)
  BY DEF SearchInv
<1>s. \A d \in Client : op[d].kind = "search" => Searching(d)
  BY DEF SearchInv
<1>k. \A d \in Client : pc[d] \in {"searching", "telling failure"} => op[d].kind = "search"
  BY DEF SearchInv
<1>1. CASE RegisterPlugin(c) \/ InitializeAll(c) \/ PluginEnds(c, ok)
  <2>1. /\ UNCHANGED searchVars /\ op' = op
        /\ op[c].kind = "search" => pc[c] = "initializing"
        /\ \E to \in {"initializing", "done", "threw"} : pc' = [pc EXCEPT ![c] = to]
    BY <1>1 DEF RegisterPlugin, InitializeAll, PluginEnds, Visit, ToPc, Starts
  <2>2. place' \in [Client -> Nat] /\ \A d \in Client : d # c => place'[d] = place[d]
    <3>1. \/ place' = place
          \/ place' = [place EXCEPT ![c] = place[c] + 1]
          \/ place' = [place EXCEPT ![c] = 1]
      BY <1>1 DEF RegisterPlugin, InitializeAll, PluginEnds, Visit
    <3>2. place[c] + 1 \in Nat
      BY <1>l
    <3> QED
      BY <1>l, <3>1, <3>2
  <2>3. op[c].kind # "search"
    BY <1>p, <1>l, <1>h, <1>v, <1>s, <2>1 DEF Searching, SearchStages
  <2>4. ASSUME NEW d \in Client, op[d].kind = "search" PROVE Searching(d)'
    <3>1. pc'[d] = pc[d] /\ place'[d] = place[d] /\ UNCHANGED <<providers, found, hoped, refused>>
      BY <1>p, <1>l, <1>h, <1>v, <1>s, <2>1, <2>2, <2>3, <2>4 DEF searchVars
    <3> QED
      BY <1>p, <1>l, <1>h, <1>v, <1>s, <2>4, <3>1, SearchingOn
  <2>5. /\ pc' = [d \in Client |-> pc'[d]]
        /\ \A d \in Client : pc'[d] \in {"searching", "telling failure"} => op[d].kind = "search"
    BY <1>p, <1>k, <2>1
  <2> QED
    BY <2>1, <2>2, <2>4, <2>5 DEF SearchInv, searchVars
<1>2. CASE RegisterProvider(c)
  <2>1. PICK v \in Provider : providers' = Append(providers, v)
    BY <1>2, ServicesAssumption DEF RegisterProvider, Starts, SearchInv
  <2>2. /\ op' = op /\ pc' = [pc EXCEPT ![c] = "done"] /\ op[c].kind # "search"
        /\ UNCHANGED <<health, found, hoped, refused, outcomes, place>>
    BY <1>2 DEF RegisterProvider, Starts, ToPc
  <2>3. ASSUME NEW d \in Client, op[d].kind = "search" PROVE Searching(d)'
    <3>1. pc'[d] = pc[d]
      BY <1>p, <1>l, <1>h, <1>v, <1>s, <2>2, <2>3
    <3> QED
      BY <1>p, <1>l, <1>h, <1>v, <1>s, <2>1, <2>2, <2>3, <3>1, SearchingOn
  <2>4. /\ pc' = [d \in Client |-> pc'[d]]
        /\ \A d \in Client : pc'[d] \in {"searching", "telling failure"} => op[d].kind = "search"
    BY <1>p, <1>k, <2>2
  <2>5. providers' \in Seq(Provider)
    BY <1>v, <2>1
  <2> QED
    BY <2>2, <2>3, <2>4, <2>5 DEF SearchInv
<1>3. CASE Search(c)
  <2>1. /\ op' = op /\ pc' = [pc EXCEPT ![c] = IF providers = <<>> THEN "threw" ELSE "searching"]
        /\ place' = [place EXCEPT ![c] = 1] /\ hoped' = [hoped EXCEPT ![c] = Range(providers)]
        /\ UNCHANGED <<providers, health, found, refused, outcomes>> /\ pc[c] = "idle"
        /\ op[c].kind = "search"
    BY <1>3 DEF Search, Starts, ToPc
  <2>2. Range(providers) \subseteq Provider
    BY <1>p, <1>l, <1>h, <1>v, <1>s DEF Range
  <2>3. place' \in [Client -> Nat] /\ hoped' \in [Client -> SUBSET Provider]
    BY <1>p, <1>l, <1>h, <1>v, <1>s, <2>1, <2>2
  <2>4. ASSUME NEW d \in Client, op[d].kind = "search", d # c PROVE Searching(d)'
    <3>1. pc'[d] = pc[d] /\ place'[d] = place[d] /\ hoped'[d] = hoped[d]
      BY <1>p, <1>l, <1>h, <1>v, <1>s, <2>1, <2>4
    <3> QED
      BY <1>p, <1>l, <1>h, <1>v, <1>s, <2>1, <2>4, <3>1, SearchingOn
  <2>5. Searching(c)'
    <3>1. place'[c] = 1 /\ hoped'[c] = Range(providers) /\ found'[c] = {}
          /\ pc'[c] = (IF providers = <<>> THEN "threw" ELSE "searching")
          /\ refused' = refused /\ providers' = providers
      BY <1>p, <1>l, <1>h, <1>v, <1>s, <2>1 DEF Searching
    <3>2. providers = <<>> => Range(providers) = {}
      BY DEF Range
    <3>3. providers # <<>> => 1 \in 1 .. Len(providers)
      BY <1>v
    <3>4. CASE providers = <<>>
      BY <3>1, <3>2, <3>4 DEF Searching, SearchStages
    <3>5. CASE providers # <<>>
      <4>1. Refused(c, place[c] - 1)'
        BY <3>1 DEF Refused
      <4> QED
        BY <3>1, <3>3, <3>5, <4>1 DEF Searching, SearchStages
    <3> QED
      BY <3>4, <3>5
  <2>6. /\ pc' = [d \in Client |-> pc'[d]]
        /\ \A d \in Client : pc'[d] \in {"searching", "telling failure"} => op[d].kind = "search"
    BY <1>p, <1>k, <2>1
  <2> QED
    BY <1>v, <2>1, <2>3, <2>4, <2>5, <2>6 DEF SearchInv
<1>4. CASE FallBack(c)
  <2>1. /\ op' = op /\ pc[c] = "telling failure"
        /\ UNCHANGED <<providers, health, found, hoped, refused, outcomes>>
        /\ \/ /\ AskNext(c) /\ place' = [place EXCEPT ![c] = @ + 1]
              /\ pc' = [pc EXCEPT ![c] = "searching"]
           \/ /\ ~AskNext(c) /\ place' = place /\ pc' = [pc EXCEPT ![c] = "threw"]
    BY <1>4 DEF FallBack, ToPc, searchVars
  <2>2. place' \in [Client -> Nat] /\ pc' = [d \in Client |-> pc'[d]]
    <3>1. place[c] + 1 \in Nat
      BY <1>p, <1>l, <1>h, <1>v, <1>s
    <3> QED
      BY <1>p, <1>l, <1>h, <1>v, <1>s, <2>1, <3>1
  <2>3. ASSUME NEW d \in Client, op[d].kind = "search", d # c PROVE Searching(d)'
    <3>1. pc'[d] = pc[d] /\ place'[d] = place[d]
      BY <1>p, <1>l, <1>h, <1>v, <1>s, <2>1, <2>3
    <3> QED
      BY <1>p, <1>l, <1>h, <1>v, <1>s, <2>1, <2>3, <3>1, SearchingOn
  <2>4. ASSUME op[c].kind = "search" PROVE Searching(c)'
    <3>1. /\ place[c] \in 1 .. Len(providers) /\ Refused(c, place[c]) /\ found[c] = {}
          /\ hoped[c] \subseteq Range(providers) /\ Len(providers) \in Nat
      <4>1. Searching(c) /\ pc[c] = "telling failure"
        BY <1>s, <2>1, <2>4
      <4>2. place[c] \in 1 .. Len(providers)
        BY <4>1 DEF Searching
      <4>3. Refused(c, place[c]) /\ found[c] = {} /\ hoped[c] \subseteq Range(providers)
        BY <4>1 DEF Searching
      <4> QED
        BY <1>v, <4>2, <4>3
    <3>2. CASE AskNext(c)
      <4> place' = [place EXCEPT ![c] = @ + 1] /\ pc' = [pc EXCEPT ![c] = "searching"]
        BY <2>1, <3>2
      <4>1. place'[c] = place[c] + 1 /\ pc'[c] = "searching" /\ place'[c] - 1 = place[c]
        BY <1>p, <1>l
      <4>2. place'[c] \in 1 .. Len(providers)
        BY <3>1, <3>2, <4>1 DEF AskNext
      <4> QED
        BY <2>1, <3>1, <4>1, <4>2 DEF Searching, SearchStages, Refused
    <3>3. CASE ~AskNext(c)
      <4>1. place' = place /\ pc'[c] = "threw" /\ place[c] = Len(providers)
        <5> place' = place /\ pc' = [pc EXCEPT ![c] = "threw"]
          BY <2>1, <3>3
        <5> QED
          BY <1>p, <1>l, <3>1, <3>3 DEF AskNext
      <4>2. Range(providers) \subseteq refused[c]
        BY <1>p, <1>l, <1>h, <1>v, <1>s, <3>1, <4>1 DEF Range, Refused
      <4> QED
        BY <2>1, <3>1, <4>1, <4>2 DEF Searching, SearchStages
    <3> QED
      BY <3>2, <3>3
  <2>5. \A d \in Client : pc'[d] \in {"searching", "telling failure"} => op[d].kind = "search"
    BY <1>p, <1>k, <2>1
  <2> QED
    BY <2>1, <2>2, <2>3, <2>4, <2>5 DEF SearchInv
<1>5. CASE Asked(c, ok)
  <2> DEFINE v == providers[place[c]]
  <2>1. /\ op' = op /\ pc[c] = "searching" /\ Outcome(v, ok)
        /\ UNCHANGED <<providers, hoped, place>>
        /\ \/ /\ found' = [found EXCEPT ![c] = {v}] /\ refused' = refused
              /\ pc' = [pc EXCEPT ![c] = "done"]
           \/ /\ refused' = [refused EXCEPT ![c] = @ \cup {v}] /\ found' = found
              /\ pc' = [pc EXCEPT ![c] = "telling failure"]
    BY <1>5 DEF Asked, ToPc
  <2>2. op[c].kind = "search"
    BY <1>k, <2>1
  <2>3. /\ place[c] \in 1 .. Len(providers) /\ Refused(c, place[c] - 1) /\ found[c] = {}
        /\ hoped[c] \subseteq Range(providers) /\ v \in Provider
    <3>1. Searching(c)
      BY <1>s, <2>2
    <3>2. place[c] \in 1 .. Len(providers)
      BY <2>1, <3>1 DEF Searching
    <3>3. v \in Provider
      BY <1>v, <3>2
    <3> QED
      BY <2>1, <3>1, <3>2, <3>3 DEF Searching
  <2>4. /\ \A u \in Provider : health'[u] = LastHealth(outcomes'[u])
        /\ health' \in [Provider -> Seq(BOOLEAN)] /\ outcomes' \in [Provider -> Seq(BOOLEAN)]
    <3> HIDE DEF v
    <3>1. /\ outcomes[v] \in Seq(BOOLEAN) /\ health[v] = LastHealth(outcomes[v])
          /\ health \in [Provider -> Seq(BOOLEAN)] /\ outcomes \in [Provider -> Seq(BOOLEAN)]
          /\ \A u \in Provider : health[u] = LastHealth(outcomes[u])
      BY <2>3 DEF SearchInv
    <3>2. /\ LastHealth(Append(health[v], ok)) = LastHealth(Append(outcomes[v], ok))
          /\ Append(outcomes[v], ok) \in Seq(BOOLEAN)
      BY <3>1, HealthOfHealth
    <3>3. LastHealth(Append(health[v], ok)) \in Seq(BOOLEAN)
      <4>1. health[v] \in Seq(BOOLEAN)
        BY <2>3, <3>1
      <4>2. Append(health[v], ok) \in Seq(BOOLEAN)
        BY <4>1
      <4> QED
        BY <4>2, LastHealthTyped
    <3>4. /\ health' = [health EXCEPT ![v] = LastHealth(Append(health[v], ok))]
          /\ outcomes' = [outcomes EXCEPT ![v] = Append(outcomes[v], ok)]
      BY <2>1 DEF Outcome
    <3> QED
      BY <2>3, <3>1, <3>2, <3>3, <3>4
  <2>5. found' \in [Client -> SUBSET Provider] /\ refused' \in [Client -> SUBSET Provider]
        /\ pc' = [d \in Client |-> pc'[d]]
        /\ \A d \in Client : pc'[d] \in {"searching", "telling failure"} => op[d].kind = "search"
    <3> HIDE DEF v
    <3>1. CASE found' = [found EXCEPT ![c] = {v}] /\ refused' = refused /\ pc' = [pc EXCEPT ![c] = "done"]
      BY <1>p, <1>h, <1>k, <2>3, <3>1
    <3>2. CASE /\ refused' = [refused EXCEPT ![c] = @ \cup {v}] /\ found' = found
               /\ pc' = [pc EXCEPT ![c] = "telling failure"]
      BY <1>p, <1>h, <1>k, <2>2, <2>3, <3>2
    <3> QED
      BY <2>1, <3>1, <3>2
  <2>6. ASSUME NEW d \in Client, op[d].kind = "search", d # c PROVE Searching(d)'
    <3>1. pc'[d] = pc[d] /\ found'[d] = found[d] /\ refused'[d] = refused[d]
      BY <1>p, <1>l, <1>h, <1>v, <1>s, <2>1, <2>6
    <3> QED
      BY <1>p, <1>l, <1>h, <1>v, <1>s, <2>1, <2>6, <3>1, SearchingOn
  <2>7. Searching(c)'
    <3> DEFINE n == place[c]
    <3>1. n \in 1 .. Len(providers) /\ \A i \in 1 .. n : i = n \/ i \in 1 .. n - 1
      BY <1>p, <1>l, <1>h, <1>v, <1>s, <2>3
    <3>2. CASE pc' = [pc EXCEPT ![c] = "done"]
      <4>1. pc'[c] = "done" /\ refused' = refused
        BY <1>p, <1>l, <1>h, <1>v, <1>s, <2>1, <3>2
      <4> QED
        BY <2>1, <2>3, <4>1 DEF Searching, SearchStages, Refused
    <3>3. CASE pc' = [pc EXCEPT ![c] = "telling failure"]
      <4>1. pc'[c] = "telling failure" /\ refused'[c] = refused[c] \cup {v} /\ found' = found
        BY <1>p, <1>l, <1>h, <1>v, <1>s, <2>1, <3>3
      <4>2. \A i \in 1 .. n : providers[i] \in refused'[c]
        BY <2>3, <3>1, <4>1 DEF Refused
      <4> QED
        BY <2>1, <2>3, <4>1, <4>2 DEF Searching, SearchStages, Refused
    <3> QED
      BY <2>1, <3>2, <3>3
  <2> QED
    BY <2>1, <2>4, <2>5, <2>6, <2>7, <1>p, <1>l, <1>h, <1>v, <1>s DEF SearchInv
<1> QED
  BY <1>1, <1>2, <1>3, <1>4, <1>5

(* The steps of the other services neither begin nor end a search. *)
LEMMA SearchStays ==
  ASSUME SearchInv, UNCHANGED pluginVars, NEW kinds, NEW stages,
         stages \cap {"searching", "telling failure", "initializing"} = {}, "idle" \notin stages,
         stages \cap {"done", "threw"} = {}, "search" \notin kinds, Moves(kinds, stages)
  PROVE  SearchInv'
<1>p. pc = [d \in Client |-> pc[d]]
  BY DEF SearchInv
<1>s. \A d \in Client : op[d].kind = "search" => Searching(d)
  BY DEF SearchInv
<1>k. \A d \in Client : pc[d] \in {"searching", "telling failure"} => op[d].kind = "search"
  BY DEF SearchInv
<1>1. op' = op /\ UNCHANGED <<providers, health, found, hoped, refused, outcomes, place>>
  BY DEF pluginVars, searchVars, Moves
<1>2. ASSUME NEW d \in Client, op[d].kind = "search" PROVE pc'[d] = pc[d]
  <2>1. pc[d] \in SearchStages
    BY <1>s, <1>2 DEF Searching
  <2>2. pc[d] \notin stages /\ ~(pc[d] = "idle" /\ op[d].kind \in kinds)
    BY <1>2, <2>1 DEF SearchStages
  <2> QED
    BY <1>p, <2>2 DEF Moves
<1>3. ASSUME NEW d \in Client, op[d].kind = "search" PROVE Searching(d)'
  <2>1. pc'[d] = pc[d] /\ Searching(d)
    BY <1>s, <1>2, <1>3
  <2> QED
    BY <1>1, <1>3, <2>1, SearchingOn
<1>4. /\ pc' = [d \in Client |-> pc'[d]]
      /\ \A d \in Client : pc'[d] \in {"searching", "telling failure"} => op[d].kind = "search"
  BY <1>p, <1>k DEF Moves
<1> QED
  BY <1>1, <1>3, <1>4 DEF SearchInv

(* Both loops end as they promise, whatever happens at their awaits        *)
(* (PluginRegistry.ts, SearchOrchestrator.ts).                             *)
THEOREM PluginsTheorem == Spec => []ListsAreWalked
<1>1. Init => InitInv /\ SearchInv
  <2> SUFFICES ASSUME Init PROVE InitInv /\ SearchInv
    OBVIOUS
  <2>1. PICK installed \in Installed, available \in Available : PluginInit(installed, available)
    BY DEF Init
  <2>2. installed \in Seq(Plugin) /\ OneEntryPerName(installed) /\ available \in Seq(Provider)
    BY ServicesAssumption
  <2>3. op \in Workload /\ pc = [c \in Client |-> "idle"]
    BY DEF Init
  <2>4. InitInv
    BY <2>1, <2>2, <2>3 DEF PluginInit, InitInv, PluginsReady
  <2>5. \A c \in Client : Searching(c)
    BY <2>1, <2>3 DEF PluginInit, Searching, SearchStages
  <2>6. <<>> \in Seq(BOOLEAN) /\ LastHealth(<<>>) = <<>>
    BY PluginAssumption DEF LastHealth
  <2>7. SearchInv
    BY <2>1, <2>2, <2>3, <2>5, <2>6 DEF PluginInit, SearchInv
  <2> QED
    BY <2>4, <2>7
<1>2. InitInv /\ SearchInv /\ [Next]_vars => (InitInv /\ SearchInv)'
  <2> SUFFICES ASSUME InitInv, SearchInv, [Next]_vars PROVE InitInv' /\ SearchInv'
    OBVIOUS
  <2>1. CASE PluginNext
    BY <2>1, InitStep, SearchStep
  <2>2. ASSUME NEW kinds, NEW stages, UNCHANGED pluginVars, Moves(kinds, stages),
               stages \cap {"searching", "telling failure", "initializing", "idle", "done", "threw"} = {},
               "search" \notin kinds
        PROVE  InitInv' /\ SearchInv'
    BY <2>2, InitStays, SearchStays
  <2> USE DEF BusKinds, CacheKinds, ObsKinds, LangKinds, WorkerKinds, ObsStages, LangStages
  <2>3. CASE BusNext /\ UNCHANGED pluginVars
    BY <2>2, <2>3, BusMoves
  <2>4. CASE CacheNext /\ UNCHANGED pluginVars
    BY <2>2, <2>4, CacheMoves
  <2>5. CASE LeaseNext /\ UNCHANGED pluginVars
    BY <2>2, <2>5, LeaseMoves
  <2>6. CASE ObsNext /\ UNCHANGED pluginVars
    BY <2>2, <2>6, ObsMoves
  <2>7. CASE LangNext /\ UNCHANGED pluginVars
    BY <2>2, <2>7, LangMoves
  <2>8. CASE WorkersNext /\ UNCHANGED pluginVars
    BY <2>2, <2>8, WorkerMoves
  <2>9. CASE UNCHANGED vars
    <3>1. Moves({}, {}) /\ UNCHANGED pluginVars
      BY <2>9 DEF vars, callVars, Moves
    <3> QED
      BY <2>2, <3>1
  <2> QED
    BY <2>1, <2>3, <2>4, <2>5, <2>6, <2>7, <2>8, <2>9 DEF Next
<1>3. InitInv /\ SearchInv => ListsAreWalked
  BY SearchSound DEF InitInv, ListsAreWalked
<1> QED
  BY <1>1, <1>2, <1>3, PTL DEF Spec

-----------------------------------------------------------------------------
(* The LRU over its provider *)

(* An entry that was below and has not been overwritten is still there, or *)
(* has expired.                                                            *)
LeftBelow(e) == below = e \/ (e.timed /\ below = Nothing)
Writing(i) == op[order[i]].kind \in Writers
LastWrite(i) == \A j \in DOMAIN order : j > i => ~Writing(j)
Fresh ==
  \/ lru.value \in {Empty, below.value}
  \/ lru.timed /\ below = Nothing
(* Unless calls that write overlapped others (mixed), what the last writer *)
(* among those under way brings is what is below; with no writer under     *)
(* way the LRU is right already.                                           *)
CacheInv ==
  /\ op \in Workload /\ pc = [c \in Client |-> pc[c]]
  /\ below \in Entry /\ lru \in Entry /\ fetched \in [Client -> Entry]
  /\ inOrder \in BOOLEAN /\ mixed \in BOOLEAN /\ outlived \in BOOLEAN
  /\ order \in Seq(Client)
  /\ \A i \in DOMAIN order :
       /\ pc[order[i]] = "awaiting" /\ op[order[i]].kind \in CacheKinds
       /\ \A j \in DOMAIN order : order[i] = order[j] => i = j
  /\ \A c \in Client : fetched[c] # Nothing => pc[c] = "awaiting" /\ op[c].kind \in {"get", "set"}
  /\ ~mixed =>
       /\ \A i \in DOMAIN order : ~inOrder /\ Writing(i) => Len(order) = 1
       /\ \A i \in DOMAIN order : LastWrite(i) => LeftBelow(fetched[order[i]])
       /\ (\A i \in DOMAIN order : ~Writing(i)) => outlived \/ Fresh

(* What RemoveAt leaves of a sequence.                                     *)
LEMMA Removed ==
  ASSUME NEW S, NEW s \in Seq(S), NEW i \in DOMAIN s
  PROVE  /\ RemoveAt(s, i) \in Seq(S) /\ Len(RemoveAt(s, i)) = Len(s) - 1
         /\ \A k \in 1 .. Len(s) - 1 : RemoveAt(s, i)[k] = IF k < i THEN s[k] ELSE s[k + 1]
<1> DEFINE a == SubSeq(s, 1, i - 1)  b == SubSeq(s, i + 1, Len(s))
<1>1. i \in 1 .. Len(s) /\ Len(s) \in Nat
  OBVIOUS
<1>2. a \in Seq(S) /\ Len(a) = i - 1 /\ \A k \in 1 .. i - 1 : a[k] = s[k]
  BY <1>1
<1>3. b \in Seq(S) /\ Len(b) = Len(s) - i /\ \A k \in 1 .. Len(s) - i : b[k] = s[k + i]
  <2>1. /\ i + 1 \in Int /\ Len(s) \in Int /\ \A k \in i + 1 .. Len(s) : s[k] \in S
        /\ \A k \in 1 .. Len(s) - i : i + 1 + k - 1 = k + i
    BY <1>1
  <2>2. /\ b \in Seq(S) /\ Len(b) = (IF i + 1 <= Len(s) THEN Len(s) - (i + 1) + 1 ELSE 0)
        /\ \A k \in 1 .. Len(s) - (i + 1) + 1 : b[k] = s[i + 1 + k - 1]
    BY <2>1, SubSeqProperties
  <2> HIDE DEF b
  <2>3. Len(b) = Len(s) - i /\ Len(s) - (i + 1) + 1 = Len(s) - i
    BY <1>1, <2>2
  <2> QED
    BY <2>1, <2>2, <2>3
<1>4. RemoveAt(s, i) = a \o b
  BY DEF RemoveAt
<1> HIDE DEF a, b
<1>5. /\ a \o b \in Seq(S) /\ Len(a \o b) = Len(a) + Len(b)
      /\ \A k \in 1 .. Len(a) + Len(b) :
           (a \o b)[k] = IF k <= Len(a) THEN a[k] ELSE b[k - Len(a)]
  BY <1>2, <1>3, ConcatProperties
<1>6. ASSUME NEW k \in 1 .. Len(s) - 1
      PROVE  (a \o b)[k] = IF k < i THEN s[k] ELSE s[k + 1]
  <2>1. CASE k < i
    <3>1. k \in 1 .. i - 1 /\ k \in 1 .. Len(a) + Len(b) /\ k <= Len(a)
      BY <1>1, <1>2, <1>3, <2>1
    <3>2. (a \o b)[k] = a[k]
      BY <1>5, <3>1
    <3>3. a[k] = s[k]
      BY <1>2, <3>1
    <3> QED
      BY <2>1, <3>2, <3>3
  <2>2. CASE ~(k < i)
    <3>1. /\ ~(k <= Len(a)) /\ k - Len(a) = k - i + 1 /\ k - i + 1 \in 1 .. Len(s) - i
          /\ k - i + 1 + i = k + 1 /\ k \in 1 .. Len(a) + Len(b)
      <4>1. Len(a) = i - 1 /\ Len(b) = Len(s) - i /\ k \in 1 .. Len(s) - 1 /\ i \in Nat
        BY <1>1, <1>2, <1>3
      <4>2. k - Len(a) = k - i + 1 /\ k - i + 1 + i = k + 1
        BY <4>1
      <4>3. ~(k <= Len(a))
        BY <2>2, <4>1
      <4>4. k - i + 1 \in 1 .. Len(s) - i
        BY <1>1, <2>2, <4>1
      <4>5. Len(a) + Len(b) = Len(s) - 1
        BY <1>1, <4>1
      <4> QED
        BY <4>1, <4>2, <4>3, <4>4, <4>5
    <3> QED
      BY <1>3, <1>5, <2>2, <3>1
  <2> QED
    BY <2>1, <2>2
<1>7. Len(a) + Len(b) = Len(s) - 1
  BY <1>1, <1>2, <1>3
<1>8. RemoveAt(s, i) \in Seq(S) /\ Len(RemoveAt(s, i)) = Len(s) - 1
  BY <1>4, <1>5, <1>7
<1> QED
  BY <1>4, <1>6, <1>8

(* At first nothing is awaited and the LRU is empty or up to date.         *)
LEMMA CacheInitInv == Init => CacheInv
<1> SUFFICES ASSUME Init PROVE CacheInv
  OBVIOUS
<1>1. /\ op \in Workload /\ pc = [c \in Client |-> "idle"] /\ below \in Entry /\ lru \in {below, Nothing}
      /\ inOrder \in BOOLEAN /\ fetched = [c \in Client |-> Nothing] /\ order = <<>>
      /\ mixed = FALSE /\ outlived = FALSE
  BY DEF Init, CacheInit
<1>2. Nothing \in Entry
  BY DEF Entry
<1>3. Fresh
  BY <1>1 DEF Fresh, Nothing
<1>4. order \in Seq(Client) /\ DOMAIN order = {}
  BY <1>1
<1> QED
  BY <1>1, <1>2, <1>3, <1>4 DEF CacheInv

(* The steps of the other services leave the caches and those who await    *)
(* them alone.                                                             *)
LEMMA CacheStays ==
  ASSUME CacheInv, UNCHANGED cacheVars, NEW kinds, NEW stages,
         "awaiting" \notin stages, kinds \cap CacheKinds = {}, Moves(kinds, stages)
  PROVE  CacheInv'
<1>1. op' = op /\ UNCHANGED <<below, lru, inOrder, fetched, order, mixed, outlived>>
  BY DEF cacheVars, Moves
<1>2. pc' = [d \in Client |-> pc'[d]] /\ \A d \in Client : pc[d] = "awaiting" => pc'[d] = "awaiting"
  BY DEF CacheInv, Moves
<1>3. \A i \in DOMAIN order : order[i] \in Client
  BY DEF CacheInv
<1> QED
  BY <1>1, <1>2, <1>3 DEF CacheInv, LeftBelow, Writing, LastWrite, Fresh

(* A call that goes below takes its place behind the others, with what it  *)
(* found or wrote there.                                                   *)
LEMMA AwaitKeeps ==
  ASSUME CacheInv, NEW c \in Client, NEW e \in Entry,
         pc[c] = "idle", op[c].kind \in CacheKinds, Await(c), lru' = lru, inOrder' = inOrder,
         outlived' = outlived, fetched' = [fetched EXCEPT ![c] = e],
         e # Nothing => op[c].kind \in {"get", "set"},
         \/ op[c].kind = "get" /\ e = below /\ below' = below
         \/ op[c].kind \in Writers /\ below' = e
  PROVE  CacheInv'
<1>1. /\ order \in Seq(Client) /\ order' = Append(order, c) /\ op' = op
      /\ pc' = [pc EXCEPT ![c] = "awaiting"]
  BY DEF CacheInv, Await, ToPc
<1> DEFINE n == Len(order)
<1>2. /\ n \in Nat /\ DOMAIN order = 1 .. n /\ DOMAIN order' = 1 .. n + 1 /\ order' \in Seq(Client)
      /\ \A i \in 1 .. n : order'[i] = order[i] /\ order[i] \in Client
      /\ order'[n + 1] = c /\ Len(order') = n + 1
  BY <1>1
<1> HIDE DEF n
<1>3. \A i \in 1 .. n : order[i] # c
  BY <1>2 DEF CacheInv
<1>4. pc' = [d \in Client |-> pc'[d]] /\ pc'[c] = "awaiting" /\ \A d \in Client : d # c => pc'[d] = pc[d]
  BY <1>1 DEF CacheInv
<1>5. /\ below' \in Entry /\ fetched' \in [Client -> Entry] /\ fetched'[c] = e
      /\ \A d \in Client : d # c => fetched'[d] = fetched[d]
  BY DEF CacheInv
<1>6. /\ mixed' = (mixed \/ (~inOrder /\ \E d \in Range(order) :
                       {op[c].kind, op[d].kind} \cap Writers # {}))
  BY DEF Await
<1>7. mixed' \in BOOLEAN
  BY <1>6 DEF CacheInv
<1>8. ASSUME NEW i \in DOMAIN order'
      PROVE  /\ pc'[order'[i]] = "awaiting" /\ op[order'[i]].kind \in CacheKinds
             /\ \A j \in DOMAIN order' : order'[i] = order'[j] => i = j
  <2>1. \A j \in 1 .. n : /\ pc[order[j]] = "awaiting" /\ op[order[j]].kind \in CacheKinds
                          /\ \A k \in 1 .. n : order[j] = order[k] => j = k
    BY <1>2 DEF CacheInv
  <2>2. \A j \in DOMAIN order' : j = n + 1 \/ j \in 1 .. n
    BY <1>2
  <2>3. CASE i = n + 1
    BY <1>2, <1>3, <1>4, <2>2, <2>3
  <2>4. CASE i \in 1 .. n
    <3>1. order'[i] = order[i] /\ order[i] \in Client /\ order[i] # c
      BY <1>2, <1>3, <2>4
    <3>2. pc'[order'[i]] = "awaiting" /\ op[order'[i]].kind \in CacheKinds
      BY <1>4, <2>1, <2>4, <3>1
    <3>3. ASSUME NEW j \in DOMAIN order', order'[i] = order'[j] PROVE i = j
      <4>1. CASE j = n + 1
        BY <1>2, <3>1, <3>3, <4>1
      <4>2. CASE j \in 1 .. n
        BY <1>2, <2>1, <2>4, <3>1, <3>3, <4>2
      <4> QED
        BY <2>2, <4>1, <4>2
    <3> QED
      BY <3>2, <3>3
  <2> QED
    BY <2>2, <2>3, <2>4
<1>9. ASSUME NEW d \in Client, fetched'[d] # Nothing
      PROVE  pc'[d] = "awaiting" /\ op[d].kind \in {"get", "set"}
  BY <1>4, <1>5, <1>9 DEF CacheInv
<1> DEFINE W(i) == op[order'[i]].kind \in Writers
<1>10. ASSUME ~mixed'
       PROVE  /\ \A i \in DOMAIN order' : ~inOrder /\ W(i) => Len(order') = 1
              /\ \A i \in DOMAIN order' : (\A j \in DOMAIN order' : j > i => ~W(j)) =>
                   \/ below' = fetched'[order'[i]]
                   \/ fetched'[order'[i]].timed /\ below' = Nothing
              /\ (\A i \in DOMAIN order' : ~W(i)) => outlived \/ Fresh'
  <2>1. /\ ~mixed
        /\ ~inOrder => \A i \in 1 .. n : op[c].kind \notin Writers /\ op[order[i]].kind \notin Writers
    <3>1. \A i \in 1 .. n : order[i] \in Range(order)
      BY <1>2 DEF Range
    <3>2. ~mixed /\ (~inOrder => \A d \in Range(order) : {op[c].kind, op[d].kind} \cap Writers = {})
      BY <1>6, <1>10
    <3> QED
      BY <3>1, <3>2
  <2>2. \A i \in 1 .. n : W(i) <=> op[order[i]].kind \in Writers
    BY <1>2
  <2>3. W(n + 1) <=> op[c].kind \in Writers
    BY <1>2
  <2> HIDE DEF W
  <2>4. ASSUME NEW i \in DOMAIN order', ~inOrder, W(i) PROVE Len(order') = 1
    <3>1. i = n + 1 \/ i \in 1 .. n
      BY <1>2
    <3>2. i \notin 1 .. n
      BY <2>1, <2>2, <2>4
    <3>3. 1 \notin 1 .. n
      BY <2>1, <2>3, <2>4, <3>1, <3>2
    <3> QED
      BY <1>2, <3>3
  <2>5. ASSUME NEW i \in DOMAIN order', \A j \in DOMAIN order' : j > i => ~W(j)
        PROVE  \/ below' = fetched'[order'[i]]
               \/ fetched'[order'[i]].timed /\ below' = Nothing
    <3>1. CASE i = n + 1
      BY <1>2, <1>5, <3>1
    <3>2. CASE i \in 1 .. n
      <4>1. n + 1 \in DOMAIN order' /\ n + 1 > i
        BY <1>2, <3>2
      <4>2. op[c].kind \notin Writers
        BY <2>3, <2>5, <4>1
      <4>3. below' = below
        BY <4>2
      <4>4. \A j \in 1 .. n : j > i => ~W(j)
        BY <1>2, <2>5
      <4>5. LastWrite(i)
        BY <1>2, <2>2, <4>4 DEF LastWrite, Writing
      <4>6. LeftBelow(fetched[order[i]])
        BY <1>2, <2>1, <3>2, <4>5 DEF CacheInv
      <4>7. fetched'[order'[i]] = fetched[order[i]]
        BY <1>2, <1>3, <1>5, <3>2
      <4> QED
        BY <4>3, <4>6, <4>7 DEF LeftBelow
    <3>3. i = n + 1 \/ i \in 1 .. n
      BY <1>2
    <3> QED
      BY <3>1, <3>2, <3>3
  <2>6. ASSUME \A i \in DOMAIN order' : ~W(i) PROVE outlived \/ Fresh'
    <3>1. op[c].kind \notin Writers
      BY <1>2, <2>3, <2>6
    <3>2. \A i \in 1 .. n : ~W(i)
      BY <1>2, <2>6
    <3>3. \A i \in DOMAIN order : ~Writing(i)
      BY <1>2, <2>2, <3>2 DEF Writing
    <3>4. below' = below
      BY <3>1
    <3> QED
      BY <2>1, <3>3, <3>4 DEF CacheInv, Fresh
  <2> QED
    BY <2>4, <2>5, <2>6
<1>11. /\ op' \in Workload /\ lru' \in Entry /\ inOrder' \in BOOLEAN /\ outlived' \in BOOLEAN
  BY <1>1 DEF CacheInv
<1>12. ASSUME ~mixed'
       PROVE  /\ \A i \in DOMAIN order' : ~inOrder' /\ Writing(i)' => Len(order') = 1
              /\ \A i \in DOMAIN order' : LastWrite(i)' => LeftBelow(fetched[order[i]])'
              /\ (\A i \in DOMAIN order' : ~Writing(i)') => outlived' \/ Fresh'
  BY <1>1, <1>10, <1>12 DEF Writing, LastWrite, LeftBelow
<1>13. \A d \in Client : fetched'[d] # Nothing => pc'[d] = "awaiting" /\ op'[d].kind \in {"get", "set"}
  BY <1>1, <1>9
<1>14. \A i \in DOMAIN order' :
          /\ pc'[order'[i]] = "awaiting" /\ op'[order'[i]].kind \in CacheKinds
          /\ \A j \in DOMAIN order' : order'[i] = order'[j] => i = j
  BY <1>1, <1>8
<1> QED
  BY <1>2, <1>4, <1>5, <1>7, <1>11, <1>12, <1>13, <1>14 DEF CacheInv

(* A call that comes back writes to the LRU what it brings                 *)
(* (LruMemoryProvider.ts:20-50): it is right when it was the last to       *)
(* write below.                                                            *)
LEMMA ResumeKeeps ==
  ASSUME CacheInv, NEW c \in Client, Resume(c)
  PROVE  CacheInv'
<1>1. PICK i \in DOMAIN order : order[i] = c /\ (inOrder => i = 1) /\ order' = RemoveAt(order, i)
  BY DEF Resume
<1>2. /\ op' = op /\ pc' = [pc EXCEPT ![c] = "done"] /\ pc[c] = "awaiting"
      /\ lru' = CachedBy(c) /\ outlived' = Outlives(c) /\ fetched' = [fetched EXCEPT ![c] = Nothing]
      /\ below' = below /\ inOrder' = inOrder /\ mixed' = mixed
  BY DEF Resume, Goes, ToPc
<1> DEFINE n == Len(order)  From(k) == IF k < i THEN k ELSE k + 1
<1>3. /\ n \in Nat /\ i \in 1 .. n /\ DOMAIN order = 1 .. n /\ order \in Seq(Client)
  BY DEF CacheInv
<1>4. /\ order' \in Seq(Client) /\ DOMAIN order' = 1 .. n - 1 /\ Len(order') = n - 1
      /\ \A k \in 1 .. n - 1 : order'[k] = order[From(k)]
  <2>1. /\ order' \in Seq(Client) /\ Len(order') = Len(order) - 1
        /\ \A k \in 1 .. Len(order) - 1 : order'[k] = IF k < i THEN order[k] ELSE order[k + 1]
    BY <1>1, <1>3, Removed
  <2>2. DOMAIN order' = 1 .. n - 1
    BY <2>1
  <2>3. \A k \in 1 .. n - 1 : order'[k] = order[From(k)]
    BY <2>1
  <2> QED
    BY <2>1, <2>2, <2>3
<1>0. \A j \in 1 .. n : order[j] \in Client
  BY <1>3
<1> HIDE DEF n
<1>5. /\ \A k \in 1 .. n - 1 : From(k) \in 1 .. n /\ From(k) # i
      /\ \A j, k \in 1 .. n - 1 : (From(j) = From(k) => j = k) /\ (j > k => From(j) > From(k))
      /\ \A j \in 1 .. n : j # i => \E k \in 1 .. n - 1 : j = From(k)
  <2>1. ASSUME NEW j \in 1 .. n, j # i PROVE \E k \in 1 .. n - 1 : j = From(k)
    <3>1. CASE j < i
      BY <1>3, <3>1
    <3>2. CASE j > i
      <4>1. j - 1 \in 1 .. n - 1 /\ From(j - 1) = j
        BY <1>3, <3>2
      <4> QED
        BY <4>1
    <3> QED
      BY <1>3, <2>1, <3>1, <3>2
  <2> QED
    BY <1>3, <2>1
<1> HIDE DEF From
<1>6. \A j \in 1 .. n : /\ pc[order[j]] = "awaiting" /\ op[order[j]].kind \in CacheKinds
                        /\ \A k \in 1 .. n : order[j] = order[k] => j = k
                        /\ order[j] \in Client
  <2>1. \A j \in DOMAIN order :
          /\ pc[order[j]] = "awaiting" /\ op[order[j]].kind \in CacheKinds
          /\ \A k \in DOMAIN order : order[j] = order[k] => j = k
    BY DEF CacheInv
  <2> QED
    BY <1>0, <1>3, <2>1
<1>7. /\ pc' = [d \in Client |-> pc'[d]] /\ \A d \in Client : d # c => pc'[d] = pc[d]
  BY <1>2 DEF CacheInv
<1>8. /\ fetched' \in [Client -> Entry] /\ fetched'[c] = Nothing
      /\ \A d \in Client : d # c => fetched'[d] = fetched[d]
  BY <1>2 DEF CacheInv, Entry
<1>9. ASSUME NEW k \in 1 .. n - 1
      PROVE  /\ order'[k] = order[From(k)] /\ order'[k] # c /\ pc'[order'[k]] = "awaiting"
             /\ op[order'[k]].kind \in CacheKinds
             /\ \A j \in 1 .. n - 1 : order'[k] = order'[j] => k = j
             /\ fetched'[order'[k]] = fetched[order[From(k)]]
  BY <1>1, <1>3, <1>4, <1>5, <1>6, <1>7, <1>8
<1> DEFINE e == fetched[c]
<1>10. /\ e \in Entry /\ lru \in Entry /\ Nothing \in Entry /\ outlived \in BOOLEAN
       /\ e # Nothing => /\ [e EXCEPT !.timed = FALSE].value = e.value
                         /\ [e EXCEPT !.timed = FALSE] \in Entry
       /\ e.timed \in BOOLEAN /\ op[c].kind \in CacheKinds
  <2>1. e \in Entry
    BY DEF CacheInv
  <2> HIDE DEF e
  <2>2. /\ e.timed \in BOOLEAN
        /\ e # Nothing => /\ [e EXCEPT !.timed = FALSE].value = e.value
                          /\ [e EXCEPT !.timed = FALSE] \in Entry
    <3>1. CASE e \in [value : Value, timed : BOOLEAN]
      <4>1. [e EXCEPT !.timed = FALSE] \in [value : Value, timed : BOOLEAN]
        BY <3>1
      <4> QED
        BY <3>1, <4>1 DEF Entry
    <3>2. CASE e = Nothing
      BY <3>2 DEF Nothing
    <3> QED
      BY <2>1, <3>1, <3>2 DEF Entry
  <2> QED
    BY <1>1, <1>3, <1>6, <2>1, <2>2 DEF CacheInv, Entry
<1>11. lru' \in Entry /\ outlived' \in BOOLEAN
  BY <1>2, <1>10 DEF CachedBy, Outlives, CacheKinds
<1>12. ASSUME NEW d \in Client, fetched'[d] # Nothing
       PROVE  pc'[d] = "awaiting" /\ op[d].kind \in {"get", "set"}
  BY <1>7, <1>8, <1>12 DEF CacheInv
<1>13. CASE mixed
  BY <1>2, <1>4, <1>7, <1>8, <1>9, <1>11, <1>12, <1>13 DEF CacheInv
<1>14. CASE ~mixed
  <2>1. /\ \A j \in 1 .. n : ~inOrder /\ Writing(j) => n = 1
        /\ \A j \in 1 .. n : LastWrite(j) => LeftBelow(fetched[order[j]])
        /\ (\A j \in 1 .. n : ~Writing(j)) => outlived \/ Fresh
    BY <1>3, <1>14 DEF CacheInv, n
  <2> DEFINE W(k) == op[order'[k]].kind \in Writers
  <2>2. \A k \in 1 .. n - 1 : W(k) <=> Writing(From(k))
    BY <1>9 DEF Writing
  <2> HIDE DEF W
  <2>3. \A k \in 1 .. n - 1 : ~inOrder /\ W(k) => n - 1 = 1
    BY <1>3, <1>5, <2>1, <2>2
  (* Nothing is written by c over an answer that is still to come. *)
  <2>4. ASSUME NEW k \in 1 .. n - 1, \A j \in 1 .. n - 1 : j > k => ~W(j)
        PROVE  LeftBelow(fetched[order[From(k)]])
    <3>1. From(k) < i => ~Writing(i)
      <4>1. From(k) < i => i # 1 /\ n # 1
        BY <1>3, <1>5
      <4> QED
        BY <1>1, <1>3, <2>1, <4>1
    <3>2. ASSUME NEW j \in 1 .. n, j > From(k), j # i PROVE ~Writing(j)
      <4>1. PICK m \in 1 .. n - 1 : j = From(m)
        BY <1>5, <3>2
      <4>2. m > k
        BY <1>5, <3>2, <4>1
      <4> QED
        BY <2>2, <2>4, <4>1, <4>2
    <3>3. LastWrite(From(k))
      BY <1>3, <1>5, <3>1, <3>2 DEF LastWrite
    <3> QED
      BY <1>5, <2>1, <3>3
  <2>5. ASSUME \A k \in 1 .. n - 1 : ~W(k) PROVE outlived' \/ Fresh'
    <3>1. \A j \in 1 .. n : j # i => ~Writing(j)
      BY <1>5, <2>2, <2>5
    <3>2. LeftBelow(e)
      <4>1. LastWrite(i)
        BY <1>3, <3>1 DEF LastWrite
      <4> QED
        BY <1>1, <1>3, <2>1, <4>1
    <3>3. CASE op[c].kind = "get"
      <4>1. ~Writing(i)
        BY <1>1, <3>3 DEF Writing, Writers
      <4>2. outlived \/ Fresh
        <5>1. \A j \in 1 .. n : ~Writing(j)
          BY <3>1, <4>1
        <5> QED
          BY <2>1, <5>1
      <4>3. CASE e = Nothing
        <5>1. lru' = lru /\ outlived' = outlived
          BY <1>2, <3>3, <4>3 DEF CachedBy, Outlives
        <5> QED
          BY <1>2, <4>2, <5>1 DEF Fresh
      <4>4. CASE e # Nothing
        <5>1. lru' = [e EXCEPT !.timed = FALSE] /\ outlived' = (e.timed /\ below # e)
          BY <1>2, <3>3, <4>4 DEF CachedBy, Outlives
        <5> QED
          BY <1>2, <1>10, <3>2, <5>1 DEF LeftBelow, Fresh
      <4> QED
        BY <4>3, <4>4
    <3>4. CASE op[c].kind = "set"
      <4>1. lru' = e
        BY <1>2, <3>4 DEF CachedBy
      <4> QED
        BY <1>2, <3>2, <4>1 DEF LeftBelow, Fresh
    <3>5. CASE op[c].kind \in {"delete", "clear"}
      <4>1. lru' = Nothing
        BY <1>2, <3>5 DEF CachedBy
      <4> QED
        BY <4>1 DEF Fresh, Nothing
    <3> QED
      BY <1>10, <3>3, <3>4, <3>5 DEF CacheKinds
  <2>6. \A k \in 1 .. n - 1 : (\A j \in 1 .. n - 1 : j > k => ~W(j)) => LeftBelow(fetched'[order'[k]])
    BY <1>9, <2>4
  <2> QED
    BY <1>2, <1>4, <1>7, <1>8, <1>9, <1>11, <1>12, <2>3, <2>5, <2>6
       DEF CacheInv, Writing, LastWrite, LeftBelow, W
<1> QED
  BY <1>13, <1>14 DEF CacheInv

(* Every step of the caches keeps the invariant.                           *)
LEMMA CacheStep == CacheInv /\ CacheNext => CacheInv'
<1> SUFFICES ASSUME CacheInv, CacheNext PROVE CacheInv'
  OBVIOUS
<1>1. ASSUME NEW c \in Client, Get(c) PROVE CacheInv'
  <2>1. CASE lru.value # Empty
    <3>1. op' = op /\ UNCHANGED <<below, lru, inOrder, fetched, order, mixed, outlived>>
          /\ pc' = [pc EXCEPT ![c] = "done"] /\ pc[c] = "idle"
      BY <1>1, <2>1 DEF Get, Starts, ToPc
    <3>2. pc' = [d \in Client |-> pc'[d]] /\ \A d \in Client : pc[d] = "awaiting" => pc'[d] = "awaiting"
      BY <3>1 DEF CacheInv
    <3>3. \A i \in DOMAIN order : order[i] \in Client
      BY DEF CacheInv
    <3> QED
      BY <3>1, <3>2, <3>3 DEF CacheInv, LeftBelow, Writing, LastWrite, Fresh
  <2>2. CASE ~(lru.value # Empty)
    <3>1. /\ pc[c] = "idle" /\ op[c].kind = "get" /\ Await(c) /\ fetched' = [fetched EXCEPT ![c] = below]
          /\ below' = below /\ lru' = lru /\ inOrder' = inOrder /\ outlived' = outlived
      BY <1>1, <2>2 DEF Get, Starts
    <3>2. below \in Entry
      BY DEF CacheInv
    <3> QED
      BY <3>1, <3>2, AwaitKeeps DEF CacheKinds
  <2> QED
    BY <2>1, <2>2
<1>2. ASSUME NEW c \in Client, Set(c) PROVE CacheInv'
  <2>1. /\ pc[c] = "idle" /\ op[c].kind = "set" /\ Await(c)
        /\ fetched' = [fetched EXCEPT ![c] = op[c].entry] /\ below' = op[c].entry
        /\ lru' = lru /\ inOrder' = inOrder /\ outlived' = outlived
    BY <1>2 DEF Set, Starts
  <2>2. op[c].entry \in Entry
    BY <2>1, ServicesAssumption DEF CacheInv
  <2> QED
    BY <2>1, <2>2, AwaitKeeps DEF CacheKinds, Writers
<1>3. ASSUME NEW c \in Client, Erase(c) PROVE CacheInv'
  <2>1. /\ pc[c] = "idle" /\ op[c].kind \in {"delete", "clear"} /\ Await(c) /\ fetched' = fetched
        /\ below' = Nothing /\ lru' = lru /\ inOrder' = inOrder /\ outlived' = outlived
    BY <1>3 DEF Erase, Starts
  <2>2. fetched \in [Client -> Entry] /\ fetched[c] = Nothing
    BY <2>1 DEF CacheInv
  <2>3. fetched' = [fetched EXCEPT ![c] = Nothing] /\ Nothing \in Entry
    BY <2>1, <2>2 DEF Entry
  <2> QED
    BY <2>1, <2>3, AwaitKeeps DEF CacheKinds, Writers
<1>4. ASSUME NEW c \in Client, Resume(c) PROVE CacheInv'
  BY <1>4, ResumeKeeps
<1>5. CASE Expire
  <2>1. /\ below.timed /\ below' = Nothing /\ outlived' = (outlived \/ (lru.value # Empty /\ ~lru.timed))
        /\ op' = op /\ pc' = pc /\ UNCHANGED <<lru, inOrder, fetched, order, mixed>>
    BY <1>5 DEF Expire, callVars
  <2>2. Nothing \in Entry /\ ~Nothing.timed
    BY DEF Nothing, Entry
  <2>3. below # Nothing
    BY <2>1, <2>2
  <2>4. \A f \in Entry : LeftBelow(f) => LeftBelow(f)'
    BY <2>1, <2>3 DEF LeftBelow
  <2>5. outlived \/ Fresh => outlived' \/ Fresh'
    BY <2>1, <2>3 DEF Fresh
  <2>6. \A i \in DOMAIN order : order[i] \in Client /\ fetched[order[i]] \in Entry
    BY DEF CacheInv
  <2>7. outlived' \in BOOLEAN
    BY <2>1 DEF CacheInv
  <2> QED
    BY <2>1, <2>2, <2>4, <2>5, <2>6, <2>7 DEF CacheInv, Writing, LastWrite
<1>6. CASE Evict
  <2>1. /\ lru' = Nothing /\ outlived' = FALSE
        /\ op' = op /\ pc' = pc /\ UNCHANGED <<below, inOrder, fetched, order, mixed>>
    BY <1>6 DEF Evict, callVars
  <2>2. Nothing \in Entry /\ Nothing.value = Empty
    BY DEF Nothing, Entry
  <2>3. Fresh'
    BY <2>1, <2>2 DEF Fresh
  <2> QED
    BY <2>1, <2>2, <2>3 DEF CacheInv, Writing, LastWrite, LeftBelow
<1> QED
  BY <1>1, <1>2, <1>3, <1>4, <1>5, <1>6 DEF CacheNext

(* When nothing is under way the LRU agrees with the provider below, but   *)
(* for the two ways it is known to go wrong (LruMemoryProvider.ts:20-50).  *)
THEOREM CacheTheorem == Spec => []CacheIsFresh
<1>1. Init => CacheInv
  BY CacheInitInv
<1>2. CacheInv /\ [Next]_vars => CacheInv'
  <2> SUFFICES ASSUME CacheInv, [Next]_vars PROVE CacheInv'
    OBVIOUS
  <2>1. CASE CacheNext
    BY <2>1, CacheStep
  <2> USE DEF BusKinds, CacheKinds, ObsKinds, LangKinds, PluginKinds, WorkerKinds, ObsStages,
              LangStages, PluginStages
  <2>2. CASE BusNext /\ UNCHANGED cacheVars
    BY <2>2, CacheStays, BusMoves
  <2>3. CASE LeaseNext /\ UNCHANGED cacheVars
    BY <2>3, CacheStays, LeaseMoves
  <2>4. CASE ObsNext /\ UNCHANGED cacheVars
    BY <2>4, CacheStays, ObsMoves
  <2>5. CASE LangNext /\ UNCHANGED cacheVars
    BY <2>5, CacheStays, LangMoves
  <2>6. CASE PluginNext /\ UNCHANGED cacheVars
    BY <2>6, CacheStays, PluginMoves
  <2>7. CASE WorkersNext /\ UNCHANGED cacheVars
    BY <2>7, CacheStays, WorkerMoves
  <2>8. CASE UNCHANGED vars
    <3>1. Moves({}, {}) /\ UNCHANGED cacheVars
      BY <2>8 DEF vars, callVars, Moves
    <3> QED
      BY <3>1, CacheStays
  <2> QED
    BY <2>1, <2>2, <2>3, <2>4, <2>5, <2>6, <2>7, <2>8 DEF Next
<1>3. CacheInv => CacheIsFresh
  <2> SUFFICES ASSUME CacheInv, order = <<>>, ~mixed, ~outlived PROVE Fresh
    BY DEF CacheIsFresh, Fresh
  <2>1. \A i \in DOMAIN order : ~Writing(i)
    OBVIOUS
  <2> QED
    BY <2>1 DEF CacheInv
<1> QED
  BY <1>1, <1>2, <1>3, PTL DEF Spec

-----------------------------------------------------------------------------
(* The LangChain classes over their diary. *)

(* Keys are of inputs or of events. *)
AnyKey == LangKey \cup {<<calls[c].type, calls[c].runId, t>> :
                          calls \in Workload, c \in Client, t \in 0 .. MaxClock}
LangRecord == [key : AnyKey, status : {"pending", "done", "failed"},
               value : Client \cup {NoValue}, expired : BOOLEAN]
NewClaim(k) == [key |-> k, status |-> "pending", value |-> NoValue, expired |-> FALSE]

(* A history with one record for a key; those that are live; their values. *)
OneForKey(h) ==
  h \in Seq(LangRecord) /\ \A i, j \in DOMAIN h : h[i].key = h[j].key => i = j
Alive(h, k) == \E i \in DOMAIN h : h[i].key = k /\ ~h[i].expired
Holds(h, k, v) == \E i \in DOMAIN h : h[i].key = k /\ ~h[i].expired /\ h[i].value = v

(* The code finds the one record of a key. *)
LEMMA FirstIs ==
  ASSUME OneForKey(diary), NEW k
  PROVE  /\ \A i \in DOMAIN diary : diary[i].key = k => RecordsOf(k) = {i} /\ FirstOf(k) = i
         /\ Live(k) <=> Alive(diary, k)
         /\ Live(k) => Holds(diary, k, ValueOf(k))
<1>1. ASSUME NEW i \in DOMAIN diary, diary[i].key = k
      PROVE  RecordsOf(k) = {i} /\ FirstOf(k) = i
  <2>1. RecordsOf(k) = {i} /\ i \in Int
    BY <1>1, LenProperties DEF RecordsOf, OneForKey
  <2> QED BY <2>1 DEF FirstOf
<1>2. CASE RecordsOf(k) = {}
  BY <1>1, <1>2 DEF Live, Alive, RecordsOf
<1>3. CASE RecordsOf(k) # {}
  <2>1. PICK i \in DOMAIN diary : diary[i].key = k
    BY <1>3 DEF RecordsOf
  <2>2. RecordsOf(k) = {i} /\ FirstOf(k) = i /\ \A j \in DOMAIN diary : diary[j].key = k => j = i
    BY <1>1, <2>1 DEF OneForKey
  <2> QED BY <1>1, <2>1, <2>2 DEF Live, ValueOf, Alive, Holds
<1> QED BY <1>1, <1>2, <1>3

(* What is in front of the p-th record of o was in front of the j-th of h. *)
OrderKept(h, o, j, p) == \A q \in DOMAIN o : q < p => \E l \in DOMAIN h : l < j /\ o[q] = h[l]

(* The records of g are of key k, or were in front of the j-th of h. *)
AllBefore(h, g, k, j) ==
  \A i \in DOMAIN g : g[i].key = k \/ \E l \in DOMAIN h : l < j /\ g[i] = h[l]

(* The j-th record of h is in g, with nothing new in front of it but those *)
(* of key k.                                                               *)
Moved(h, g, k, j) ==
  \E i \in DOMAIN g : /\ g[i] = h[j]
                      /\ \A q \in DOMAIN g : q < i =>
                           g[q].key = k \/ \E l \in DOMAIN h : l < j /\ g[q] = h[l]

(* g is h with a claim of k in front, and without the records of cut,      *)
(* which a full history has no room for: they are the oldest.              *)
ClaimOf(h, g, k, cut) ==
  /\ OneForKey(g) /\ Len(g) <= MaxEvents /\ Len(h) <= Len(g)
  /\ 1 \in DOMAIN g /\ g[1] = NewClaim(k)
  /\ \A i \in DOMAIN g : i = 1 \/ \E j \in DOMAIN h : g[i] = h[j] /\ h[j].key # k
  /\ \A j \in DOMAIN h :
       \/ h[j].key = k
       \/ Moved(h, g, k, j)
       \/ Len(g) = MaxEvents /\ AllBefore(h, g, k, j) /\ (~h[j].expired => h[j].key \in cut)
  /\ \A u \in cut : u # k /\ ~Alive(g, u) /\ \E j \in DOMAIN h : h[j].key = u /\ ~h[j].expired

(* The diary without the record of a key. *)
Others(k) == IF RecordsOf(k) = {} THEN diary ELSE RemoveAt(diary, FirstOf(k))

(* The history without the key's record has all the others, in order. *)
LEMMA OthersAre ==
  ASSUME OneForKey(diary), NEW k, NEW o, o = Others(k)
  PROVE  /\ OneForKey(o) /\ Len(o) \in Nat /\ Len(diary) \in Nat
         /\ Len(o) \in {Len(diary), Len(diary) - 1}
         /\ \A p \in DOMAIN o : \E j \in DOMAIN diary : o[p] = diary[j] /\ diary[j].key # k
         /\ \A j \in DOMAIN diary :
              diary[j].key = k \/ \E p \in DOMAIN o : o[p] = diary[j] /\ OrderKept(diary, o, j, p)
<1>1. /\ diary \in Seq(LangRecord) /\ Len(diary) \in Nat /\ DOMAIN diary = 1 .. Len(diary)
      /\ \A i, j \in DOMAIN diary : diary[i].key = diary[j].key => i = j
  BY LenProperties DEF OneForKey
<1>2. CASE RecordsOf(k) = {}
  <2>1. o = diary /\ \A j \in DOMAIN diary : diary[j].key # k
    BY <1>2 DEF Others, RecordsOf
  <2>2. \A j \in DOMAIN diary : OrderKept(diary, o, j, j)
    BY <2>1 DEF OrderKept
  <2> QED BY <1>1, <2>1, <2>2
<1>3. CASE RecordsOf(k) # {}
  <2>1. PICK i \in DOMAIN diary : diary[i].key = k
    BY <1>3 DEF RecordsOf
  <2>2. o = RemoveAt(diary, i)
    BY <1>3, <2>1, FirstIs DEF Others
  <2> DEFINE n == Len(diary)
             was(p) == IF p < i THEN p ELSE p + 1
  <2>3. /\ o \in Seq(LangRecord) /\ Len(o) = n - 1
        /\ \A p \in 1 .. n - 1 : o[p] = diary[was(p)]
    <3>0. diary \in Seq(LangRecord) /\ i \in DOMAIN diary
      BY <1>1, <2>1
    <3>1. o \in Seq(LangRecord) /\ Len(o) = n - 1
      BY <2>2, <3>0, Removed
    <3>2. \A p \in 1 .. n - 1 : o[p] = IF p < i THEN diary[p] ELSE diary[p + 1]
      BY <2>2, <3>0, Removed
    <3> QED BY <3>1, <3>2
  <2>4. i \in 1 .. n /\ n \in Nat /\ n - 1 \in Nat
    BY <1>1, <2>1
  <2>5. DOMAIN o = 1 .. n - 1
    BY <2>3, LenProperties
  <2>6. \A p \in 1 .. n - 1 : was(p) \in 1 .. n /\ was(p) # i
    BY <2>4
  <2>7. \A p, q \in 1 .. n - 1 : (was(p) = was(q) => p = q) /\ (p < q => was(p) < was(q))
    BY <2>4
  <2>8. \A j \in 1 .. n : j # i => \E p \in 1 .. n - 1 : was(p) = j
    <3> SUFFICES ASSUME NEW j \in 1 .. n, j # i PROVE \E p \in 1 .. n - 1 : was(p) = j
      OBVIOUS
    <3>1. CASE j < i
      <4>1. j \in 1 .. n - 1 /\ was(j) = j
        BY <2>4, <3>1
      <4> HIDE DEF was
      <4> QED BY <4>1
    <3>2. CASE ~(j < i)
      <4>1. j - 1 \in 1 .. n - 1 /\ was(j - 1) = j
        BY <2>4, <3>2
      <4> HIDE DEF was
      <4> QED BY <4>1
    <3> QED BY <3>1, <3>2
  <2> HIDE DEF was
  <2>9. \A p \in DOMAIN o : \E j \in DOMAIN diary : o[p] = diary[j] /\ diary[j].key # k
    BY <1>1, <2>1, <2>3, <2>5, <2>6
  <2>10. \A j \in DOMAIN diary :
           diary[j].key = k \/ \E p \in DOMAIN o : o[p] = diary[j] /\ OrderKept(diary, o, j, p)
    <3> SUFFICES ASSUME NEW j \in DOMAIN diary, diary[j].key # k
                 PROVE  \E p \in DOMAIN o : o[p] = diary[j] /\ OrderKept(diary, o, j, p)
      OBVIOUS
    <3>1. j \in 1 .. n /\ j # i
      BY <1>1, <2>1
    <3>2. PICK p \in 1 .. n - 1 : was(p) = j
      BY <2>8, <3>1
    <3>3. ASSUME NEW q \in DOMAIN o, q < p PROVE \E l \in DOMAIN diary : l < j /\ o[q] = diary[l]
      <4>1. q \in 1 .. n - 1 /\ was(q) \in DOMAIN diary /\ was(q) < j /\ o[q] = diary[was(q)]
        BY <1>1, <2>3, <2>5, <2>6, <2>7, <3>2, <3>3
      <4> QED BY <4>1
    <3> QED BY <2>3, <2>5, <3>2, <3>3 DEF OrderKept
  <2>11. ASSUME NEW p \in DOMAIN o, NEW q \in DOMAIN o, o[p].key = o[q].key PROVE p = q
    <3>1. was(p) \in DOMAIN diary /\ was(q) \in DOMAIN diary /\ o[p] = diary[was(p)] /\ o[q] = diary[was(q)]
      BY <1>1, <2>3, <2>5, <2>6
    <3>2. was(p) = was(q)
      BY <1>1, <2>11, <3>1
    <3> QED BY <2>5, <2>7, <3>2
  <2>12. OneForKey(o)
    BY <2>3, <2>11 DEF OneForKey
  <2> QED BY <1>1, <2>3, <2>4, <2>9, <2>10, <2>12
<1> QED BY <1>2, <1>3

(* What a claim makes of the diary. *)
LEMMA ClaimIs ==
  ASSUME OneForKey(diary), Len(diary) <= MaxEvents, NEW k \in AnyKey, ~Live(k)
  PROVE  ClaimOf(diary, Slice(Claimed(k)), k, Cut(k))
<1> DEFINE o == Others(k)
           f == Claimed(k)
           g == Slice(f)
           m == IF Len(f) < MaxEvents THEN Len(f) ELSE MaxEvents
<1>0. MaxEvents \in Nat /\ MaxEvents # 0
  BY LangChainAssumption
<1>1. /\ OneForKey(o) /\ Len(o) \in Nat /\ Len(diary) \in Nat
      /\ Len(o) \in {Len(diary), Len(diary) - 1}
      /\ \A p \in DOMAIN o : \E j \in DOMAIN diary : o[p] = diary[j] /\ diary[j].key # k
      /\ \A j \in DOMAIN diary :
           diary[j].key = k \/ \E p \in DOMAIN o : o[p] = diary[j] /\ OrderKept(diary, o, j, p)
  <2> HIDE DEF o
  <2>1. o = Others(k)
    BY DEF o
  <2> QED BY <2>1, OthersAre
<1>2. NewClaim(k) \in LangRecord /\ NewClaim(k).key = k
  BY DEF NewClaim, LangRecord
<1>3. f = <<NewClaim(k)>> \o o
  BY DEF Claimed, NewClaim, Others
<1> HIDE DEF o, f
<1>4. o \in Seq(LangRecord) /\ DOMAIN o = 1 .. Len(o)
  BY <1>1, LenProperties DEF OneForKey
<1>5. /\ f \in Seq(LangRecord) /\ Len(f) = Len(o) + 1
      /\ f[1] = NewClaim(k) /\ \A p \in 2 .. Len(f) : f[p] = o[p - 1]
  <2>1. <<NewClaim(k)>> \in Seq(LangRecord) /\ Len(<<NewClaim(k)>>) = 1
        /\ <<NewClaim(k)>>[1] = NewClaim(k)
    BY <1>2
  <2>2. /\ f \in Seq(LangRecord) /\ Len(f) = 1 + Len(o)
        /\ \A p \in 1 .. 1 + Len(o) : f[p] = IF p <= 1 THEN <<NewClaim(k)>>[p] ELSE o[p - 1]
    <3> HIDE DEF NewClaim
    <3> QED BY <1>3, <1>4, <2>1, ConcatProperties
  <2>3. f[1] = NewClaim(k)
    BY <1>1, <2>1, <2>2
  <2>4. \A p \in 2 .. Len(f) : f[p] = o[p - 1]
    BY <1>1, <2>2
  <2> QED BY <1>1, <2>2, <2>3, <2>4
<1>6. Len(f) \in Nat /\ DOMAIN f = 1 .. Len(f) /\ Len(f) >= 1 /\ Len(diary) <= Len(f)
      /\ Len(f) <= MaxEvents + 1
  BY <1>0, <1>1, <1>5, LenProperties
<1>7. m \in Nat /\ m >= 1 /\ m <= MaxEvents /\ m <= Len(f) /\ Len(diary) <= m
      /\ (m < Len(f) => m = MaxEvents)
  <2> DEFINE l == Len(f)  n == Len(diary)
  <2>1. l \in Nat /\ n \in Nat /\ l >= 1 /\ n <= l /\ n <= MaxEvents /\ l <= MaxEvents + 1
    BY <1>1, <1>6
  <2>2. m = IF l < MaxEvents THEN l ELSE MaxEvents
    OBVIOUS
  <2> HIDE DEF l, n, m
  <2>3. m \in Nat /\ m >= 1 /\ m <= MaxEvents /\ m <= l /\ n <= m /\ (m < l => m = MaxEvents)
    BY <1>0, <2>1, <2>2
  <2> QED BY <2>3 DEF l, n
<1> HIDE DEF m
<1>8. g \in Seq(LangRecord) /\ Len(g) = m /\ DOMAIN g = 1 .. m /\ \A p \in 1 .. m : g[p] = f[p]
  <2>1. \A p \in 1 .. m : f[p] \in LangRecord
    BY <1>5, <1>6, <1>7, ElementOfSeq
  <2>2. g = SubSeq(f, 1, m)
    BY DEF g, Slice, m
  <2> HIDE DEF g
  <2>3. g \in Seq(LangRecord) /\ Len(g) = m - 1 + 1 /\ \A p \in 1 .. m - 1 + 1 : g[p] = f[1 + p - 1]
    BY <1>7, <2>1, <2>2, SubSeqProperties
  <2>4. Len(g) = m /\ \A p \in 1 .. m : g[p] = f[p]
    BY <1>7, <2>3
  <2> QED BY <2>3, <2>4, LenProperties
<1> HIDE DEF g
<1>9. \A p \in 2 .. Len(f) : p - 1 \in DOMAIN o
  BY <1>1, <1>4, <1>5
<1>10. \A p \in DOMAIN f : p = 1 \/ \E j \in DOMAIN diary : f[p] = diary[j] /\ diary[j].key # k
  <2> SUFFICES ASSUME NEW p \in 2 .. Len(f)
               PROVE  \E j \in DOMAIN diary : f[p] = diary[j] /\ diary[j].key # k
    BY <1>6
  <2> QED BY <1>1, <1>5, <1>9
<1>11. \A p, q \in DOMAIN f : f[p].key = f[q].key => p = q
  <2> SUFFICES ASSUME NEW p \in DOMAIN f, NEW q \in DOMAIN f, f[p].key = f[q].key PROVE p = q
    OBVIOUS
  <2>0. f[p].key = f[q].key
    OBVIOUS
  <2>1. CASE p = 1 \/ q = 1
    BY <1>2, <1>5, <1>10, <2>1
  <2>2. CASE p # 1 /\ q # 1
    <3>1. p \in 2 .. Len(f) /\ q \in 2 .. Len(f)
      BY <1>6, <2>2
    <3>2. f[p] = o[p - 1] /\ f[q] = o[q - 1] /\ p - 1 \in DOMAIN o /\ q - 1 \in DOMAIN o
      BY <1>5, <1>9, <3>1
    <3>3. \A i, j \in DOMAIN o : o[i].key = o[j].key => i = j
      BY <1>1 DEF OneForKey
    <3>4. p - 1 = q - 1
      BY <2>0, <3>2, <3>3
    <3> QED BY <3>1, <3>4
  <2> QED BY <2>1, <2>2
<1>12. OneForKey(g)
  BY <1>6, <1>7, <1>8, <1>11 DEF OneForKey
<1>13. 1 \in DOMAIN g /\ g[1] = NewClaim(k)
  BY <1>5, <1>7, <1>8
<1>14. \A i \in DOMAIN g : i = 1 \/ \E j \in DOMAIN diary : g[i] = diary[j] /\ diary[j].key # k
  BY <1>6, <1>7, <1>8, <1>10
<1>15. \A u : u \in Cut(k) <=> \E p \in DOMAIN f : p > MaxEvents /\ ~f[p].expired /\ f[p].key = u
  BY DEF Cut, CutOff, f
<1>16. ASSUME NEW j \in DOMAIN diary, diary[j].key # k, ~Moved(diary, g, k, j)
       PROVE  /\ Len(g) = MaxEvents /\ AllBefore(diary, g, k, j)
              /\ ~diary[j].expired => diary[j].key \in Cut(k)
  <2>1. PICK p \in DOMAIN o : o[p] = diary[j] /\ OrderKept(diary, o, j, p)
    BY <1>1, <1>16
  <2>2. p + 1 \in 2 .. Len(f) /\ (p + 1) - 1 = p
    BY <1>1, <1>4, <1>5
  <2>3. f[p + 1] = diary[j] /\ p + 1 \in DOMAIN f
    BY <1>5, <1>6, <2>1, <2>2
  <2>6. ASSUME NEW q \in DOMAIN g, q < p + 1
        PROVE  g[q].key = k \/ \E l \in DOMAIN diary : l < j /\ g[q] = diary[l]
    <3>1. CASE q = 1
      BY <1>2, <1>5, <1>7, <1>8, <3>1
    <3>2. CASE q # 1
      <4>1. q \in 2 .. Len(f) /\ q \in 1 .. m
        BY <1>6, <1>7, <1>8, <3>2
      <4>2. g[q] = o[q - 1] /\ q - 1 \in DOMAIN o
        BY <1>5, <1>8, <1>9, <4>1
      <4>3. q - 1 < p
        BY <1>4, <2>6, <4>1
      <4>4. \E l \in DOMAIN diary : l < j /\ o[q - 1] = diary[l]
        BY <2>1, <4>2, <4>3 DEF OrderKept
      <4> QED BY <4>2, <4>4
    <3> QED BY <3>1, <3>2
  <2>4. ~(p + 1 <= m)
    <3> SUFFICES ASSUME p + 1 <= m PROVE FALSE
      OBVIOUS
    <3>1. p + 1 \in 1 .. m /\ p + 1 \in DOMAIN g
      BY <1>6, <1>7, <1>8, <2>2, <2>3
    <3>2. g[p + 1] = diary[j]
      BY <1>8, <2>3, <3>1
    <3> QED BY <1>16, <2>6, <3>1, <3>2 DEF Moved
  <2>5. m = MaxEvents /\ p + 1 > MaxEvents
    BY <1>7, <2>2, <2>4
  <2>7. AllBefore(diary, g, k, j)
    <3>1. \A q \in DOMAIN g : q < p + 1
      BY <1>4, <1>7, <1>8, <2>4
    <3> QED BY <2>6, <3>1 DEF AllBefore
  <2> QED BY <1>8, <1>15, <2>3, <2>5, <2>7
<1>17. ASSUME NEW u \in Cut(k)
       PROVE  u # k /\ ~Alive(g, u) /\ \E j \in DOMAIN diary : diary[j].key = u /\ ~diary[j].expired
  <2>1. PICK p \in DOMAIN f : p > MaxEvents /\ ~f[p].expired /\ f[p].key = u
    BY <1>15
  <2>2. p # 1 /\ \A i \in DOMAIN g : i \in DOMAIN f /\ i # p /\ g[i] = f[i]
    BY <1>0, <1>6, <1>7, <1>8, <2>1
  <2>3. \E j \in DOMAIN diary : f[p] = diary[j] /\ diary[j].key # k
    BY <1>10, <2>2
  <2>4. ~Alive(g, u)
    BY <1>11, <2>1, <2>2 DEF Alive
  <2> QED BY <2>1, <2>3, <2>4
<1>18. Len(g) <= MaxEvents /\ Len(diary) <= Len(g)
  BY <1>7, <1>8
<1> QED BY <1>12, <1>13, <1>14, <1>16, <1>17, <1>18 DEF ClaimOf, g, f

AnswerKinds == {"lookup", "update", "invoke"}

LangTypes ==
  /\ op \in Workload /\ pc = [c \in Client |-> pc[c]]
  /\ holder \in Client \cup {NoClient} /\ key \in [Client -> AnyKey \cup {NoValue}]
  /\ answer \in [Client -> Client \cup {NoValue}] /\ clock \in 0 .. MaxClock
  /\ renewals \in [LangKey -> Nat] /\ executions \in [LangKey -> Nat]
  /\ epoch \in [Client -> Nat]

(* The key a call has given is that of its input, or of its event; who     *)
(* executes is in the lock.                                                *)
Keyed(c) ==
  /\ key[c] \in AnyKey
  /\ op[c].kind \in AnswerKinds => key[c] = KeyOf[op[c].input] /\ key[c] \in LangKey
  /\ op[c].kind = "callback" => key[c] \notin LangKey /\
                                \E t \in 0 .. MaxClock : key[c] = <<op[c].type, op[c].runId, t>>
Called(c) ==
  /\ pc[c] \in LangStages => op[c].kind \in {"update", "invoke", "callback"}
  /\ pc[c] = "telling" => op[c].kind = "callback"
  /\ pc[c] \in {"asking", "executing"} => Keyed(c)
  /\ pc[c] = "done" /\ op[c].kind \in AnswerKinds => Keyed(c)
  /\ pc[c] = "done" /\ op[c].kind = "callback" /\ persistEvents => Keyed(c)
  /\ pc[c] = "threw" /\ op[c].kind \in AnswerKinds => Keyed(c)
  /\ pc[c] = "executing" <=> holder = c

(* A record has the value of a call that gave its key and is over; while   *)
(* it has none its caller is in the lock, or has failed.  The newest is of *)
(* the call in the lock.                                                   *)
Supplied(v, k) ==
  /\ v \in Client /\ pc[v] = "done" /\ op[v].kind \in {"update", "invoke", "callback"}
  /\ Keyed(v) /\ key[v] = k /\ answer[v] = v
RecordOk(r) ==
  /\ r.status = "pending" => holder \in Client /\ key[holder] = r.key /\ ~r.expired
  /\ IF r.status = "done" THEN Supplied(r.value, r.key) ELSE r.value = NoValue
  /\ r.key \notin LangKey => ~r.expired /\ r.status # "failed"
RecordsInv ==
  /\ OneForKey(diary) /\ Len(diary) <= MaxEvents
  /\ \A i \in DOMAIN diary : RecordOk(diary[i])
  /\ holder \in Client => 1 \in DOMAIN diary /\ diary[1].key = key[holder] /\ diary[1].status = "pending"

(* A function runs when its key has no live record, and never again while  *)
(* it has; what was answered since the last renewal is what it says.       *)
CountInv == \A k \in LangKey : executions[k] = renewals[k] + (IF Alive(diary, k) THEN 1 ELSE 0)
AnswerOf(c) ==
  Answered(c) =>
    /\ key[c] \in LangKey /\ Supplied(answer[c], key[c])
    /\ epoch[c] <= renewals[key[c]]
    /\ epoch[c] = renewals[key[c]] => Holds(diary, key[c], answer[c])
Agree(c, d) ==
  Answered(c) /\ Answered(d) /\ key[c] = key[d] /\ epoch[c] = epoch[d] => answer[c] = answer[d]

(* An event of its own claim is stored behind newer ones only, or newer    *)
(* ones fill the diary; and every handler is answered with such an event.  *)
KeptFor(c) ==
  \/ \E i \in DOMAIN diary : /\ diary[i].key = key[c] /\ diary[i].value = c /\ diary[i].status = "done"
                             /\ \A j \in DOMAIN diary : j < i => diary[j].key \in newer[c]
  \/ CrowdedOut(c)
EventAnswer(c) ==
  op[c].kind = "callback" /\ pc[c] = "done" /\ persistEvents => Supplied(answer[c], key[c])
EventStored(c) ==
  op[c].kind = "callback" /\ pc[c] = "done" /\ persistEvents /\ answer[c] = c => KeptFor(c)
PersistOf(c) == EventAnswer(c) /\ EventStored(c)

LangInv ==
  /\ LangTypes /\ RecordsInv /\ CountInv
  /\ \A c \in Client : Called(c) /\ AnswerOf(c) /\ PersistOf(c)
  /\ \A c, d \in Client : Agree(c, d)

(* A step of c, or of nobody: calls that are over stay as they are. *)
Keeps(d) == pc'[d] = pc[d] /\ key'[d] = key[d] /\ answer'[d] = answer[d] /\ epoch'[d] = epoch[d]
Single(c) ==
  /\ op' = op /\ persistEvents' = persistEvents /\ LangTypes'
  /\ \A d \in Client \ {c} : Keeps(d)
  /\ c \in Client /\ Ended(c) => Keeps(c)

(* A value that was supplied under a key stays so. *)
LEMMA SuppliedStays ==
  ASSUME NEW c, Single(c), NEW v, NEW k, Supplied(v, k)
  PROVE  Supplied(v, k)'
BY DEF Single, Supplied, Keyed, Keeps, Ended

(* Answers of one renewal agree when each is what the record says now. *)
LEMMA AgreeStays ==
  ASSUME NEW c, Single(c), OneForKey(diary'), \A d \in Client : AnswerOf(d)',
         \A a, b \in Client : Agree(a, b),
         c \in Client /\ Answered(c)' /\ ~Keeps(c) => epoch'[c] = renewals'[key'[c]]
  PROVE  \A a, b \in Client : Agree(a, b)'
<1> SUFFICES ASSUME NEW a \in Client, NEW b \in Client, Answered(a)', Answered(b)',
                    key'[a] = key'[b], epoch'[a] = epoch'[b]
             PROVE  answer'[a] = answer'[b]
  BY DEF Agree
<1>1. AnswerOf(a)' /\ AnswerOf(b)'
  OBVIOUS
<1>2. CASE epoch'[a] = renewals'[key'[a]]
  <2>1. Holds(diary', key'[a], answer'[a]) /\ Holds(diary', key'[a], answer'[b])
    BY <1>1, <1>2 DEF AnswerOf
  <2> QED BY <2>1 DEF Holds, OneForKey
<1>3. CASE epoch'[a] # renewals'[key'[a]]
  <2>1. Keeps(a) /\ Keeps(b)
    BY <1>3 DEF Single
  <2>2. Answered(a) /\ Answered(b)
    BY <2>1 DEF Single, Keeps, Answered, Ended
  <2> QED BY <2>1, <2>2 DEF Agree, Keeps
<1> QED BY <1>2, <1>3

(* An old answer stays good if its record stays, or is renewed. *)
LEMMA OldAnswer ==
  ASSUME LangTypes, NEW c, Single(c), NEW d \in Client, Keeps(d), AnswerOf(d),
         key[d] \in LangKey => renewals'[key[d]] \in {renewals[key[d]], renewals[key[d]] + 1},
         renewals'[key[d]] = renewals[key[d]] /\ answer[d] # NoValue /\ Holds(diary, key[d], answer[d])
           => Holds(diary', key[d], answer[d])
  PROVE  AnswerOf(d)'
<1> SUFFICES ASSUME Answered(d)'
             PROVE  /\ key'[d] \in LangKey /\ Supplied(answer[d], key[d])'
                    /\ epoch'[d] <= renewals'[key'[d]]
                    /\ epoch'[d] = renewals'[key'[d]] => Holds(diary', key'[d], answer'[d])
  <2>1. answer'[d] = answer[d] /\ key'[d] = key[d]
    BY DEF Keeps
  <2> QED BY <2>1 DEF AnswerOf, Supplied, Keyed
<1>1. Answered(d) /\ answer[d] # NoValue /\ key'[d] = key[d] /\ answer'[d] = answer[d] /\ epoch'[d] = epoch[d]
  BY DEF Keeps, Single, Answered, Ended
<1>2. /\ key[d] \in LangKey /\ Supplied(answer[d], key[d]) /\ epoch[d] <= renewals[key[d]]
      /\ epoch[d] = renewals[key[d]] => Holds(diary, key[d], answer[d])
  BY <1>1 DEF AnswerOf
<1>3. epoch[d] \in Nat /\ renewals[key[d]] \in Nat
  BY <1>2 DEF LangTypes
<1>4. Supplied(answer[d], key[d])'
  <2>1. PICK v, k : v = answer[d] /\ k = key[d]
    OBVIOUS
  <2>2. Supplied(v, k)'
    BY <1>2, <2>1, SuppliedStays
  <2> QED BY <1>1, <2>1, <2>2 DEF Supplied, Keyed
<1>5. CASE renewals'[key[d]] = renewals[key[d]]
  BY <1>1, <1>2, <1>3, <1>4, <1>5
<1>6. CASE renewals'[key[d]] = renewals[key[d]] + 1
  BY <1>1, <1>2, <1>3, <1>4, <1>6
<1> QED BY <1>2, <1>5, <1>6

(* The answer of an event's handler stays good. *)
LEMMA AnswerStays ==
  ASSUME NEW c, Single(c), NEW d \in Client, Keeps(d), EventAnswer(d)
  PROVE  EventAnswer(d)'
<1> SUFFICES ASSUME op'[d].kind = "callback", pc'[d] = "done", persistEvents'
             PROVE  Supplied(answer[d], key[d])'
  BY DEF EventAnswer
<1>1. PICK v, k : v = answer[d] /\ k = key[d]
  OBVIOUS
<1>2. Supplied(v, k)
  BY <1>1 DEF EventAnswer, Keeps, Single
<1>3. Supplied(v, k)'
  BY <1>2, SuppliedStays
<1> QED BY <1>1, <1>3 DEF Keeps, Supplied, Keyed

(* A step that leaves the diary alone. *)
LEMMA AsideStays ==
  ASSUME LangInv, NEW c, Single(c), UNCHANGED <<diary, holder, renewals, executions, newer>>,
         c \in Client => Called(c)',
         c \in Client => \/ Keeps(c)
                         \/ /\ pc[c] # "executing" /\ AnswerOf(c)' /\ PersistOf(c)'
                            /\ Answered(c)' => epoch'[c] = renewals[key'[c]]
  PROVE  LangInv'
<1>1. LangTypes' /\ op' = op
  BY DEF Single
<1>2. \A d \in Client \ {c} : Called(d) /\ Keeps(d)
  BY DEF LangInv, Single
<1>3. \A d \in Client : Called(d)'
  BY <1>1, <1>2 DEF Called, Keyed, Keeps, Single
<1>4. \A d \in Client : pc[d] = "executing" => key'[d] = key[d]
  BY <1>2 DEF Keeps
<1>5. RecordsInv'
  <2>1. holder \in Client => key'[holder] = key[holder]
    BY <1>4 DEF LangInv, Called
  <2>2. ASSUME NEW i \in DOMAIN diary PROVE RecordOk(diary[i])'
    <3>1. RecordOk(diary[i]) /\ (Supplied(diary[i].value, diary[i].key) => Supplied(diary[i].value, diary[i].key)')
      BY SuppliedStays DEF LangInv, RecordsInv
    <3> QED BY <2>1, <3>1 DEF RecordOk
  <2> QED BY <2>1, <2>2 DEF LangInv, RecordsInv
<1>6. CountInv'
  BY DEF LangInv, CountInv
<1>7. \A d \in Client : AnswerOf(d)'
  <2> SUFFICES ASSUME NEW d \in Client PROVE AnswerOf(d)'
    OBVIOUS
  <2>1. CASE Keeps(d)
    <3>1. LangTypes /\ AnswerOf(d)
      BY DEF LangInv
    <3> QED BY <2>1, <3>1, OldAnswer
  <2>2. CASE ~Keeps(d)
    BY <1>2, <2>2
  <2> QED BY <2>1, <2>2
<1>8. \A d \in Client : PersistOf(d)'
  <2> SUFFICES ASSUME NEW d \in Client PROVE PersistOf(d)'
    OBVIOUS
  <2>1. CASE Keeps(d)
    <3>1. EventAnswer(d) /\ EventStored(d)
      BY DEF LangInv, PersistOf
    <3>2. EventStored(d)'
      BY <1>1, <2>1, <3>1 DEF EventStored, KeptFor, CrowdedOut, Keeps, Single
    <3> QED BY <2>1, <3>1, <3>2, AnswerStays DEF PersistOf
  <2>2. CASE ~Keeps(d)
    BY <1>2, <2>2
  <2> QED BY <2>1, <2>2
<1>9. \A a, b \in Client : Agree(a, b)'
  <2>1. OneForKey(diary') /\ \A a, b \in Client : Agree(a, b)
    BY DEF LangInv, RecordsInv
  <2>2. c \in Client /\ Answered(c)' /\ ~Keeps(c) => epoch'[c] = renewals'[key'[c]]
    OBVIOUS
  <2> QED BY <1>7, <2>1, <2>2, AgreeStays
<1> QED BY <1>1, <1>3, <1>5, <1>6, <1>7, <1>8, <1>9 DEF LangInv

(* The keys of inputs and of events. *)
LEMMA KeysAre ==
  ASSUME op \in Workload, NEW c \in Client
  PROVE  /\ op[c].kind \in AnswerKinds => CacheKey(op[c].input) \in LangKey
         /\ op[c].kind = "callback" => \A t \in 0 .. MaxClock :
              <<op[c].type, op[c].runId, t>> \in AnyKey \ LangKey
<1>1. ASSUME op[c].kind \in AnswerKinds PROVE CacheKey(op[c].input) \in LangKey
  <2>1. op[c].input \in DOMAIN KeyOf
    BY <1>1, ServicesAssumption, LangChainAssumption DEF AnswerKinds
  <2> QED BY <2>1 DEF CacheKey, LangKey, Range
<1>2. ASSUME op[c].kind = "callback", NEW t \in 0 .. MaxClock
      PROVE  <<op[c].type, op[c].runId, t>> \in AnyKey \ LangKey
  <2>1. <<op[c].type, op[c].runId, t>> \notin LangKey
    BY <1>2, ServicesAssumption
  <2> QED BY <2>1 DEF AnyKey
<1> QED BY <1>1, <1>2

(* Who asks is given the key of its input. *)
LEMMA AskStays ==
  ASSUME LangInv, NEW c \in Client, Ask(c)
  PROVE  LangInv'
<1>1. /\ pc[c] = "idle" /\ op[c].kind \in {"update", "invoke"} /\ op' = op
      /\ key' = [key EXCEPT ![c] = CacheKey(op[c].input)] /\ pc' = [pc EXCEPT ![c] = "asking"]
      /\ UNCHANGED <<persistEvents, diary, holder, answer, clock, renewals, executions, epoch, newer>>
  BY DEF Ask, Starts, ToPc, countVars, handlerVars
<1>2. LangTypes /\ Called(c)
  BY DEF LangInv
<1>3. CacheKey(op[c].input) \in LangKey /\ CacheKey(op[c].input) \in AnyKey
  BY <1>1, <1>2, KeysAre DEF LangTypes, AnswerKinds, AnyKey
<1>4. key'[c] = CacheKey(op[c].input) /\ pc'[c] = "asking"
  BY <1>1, <1>2 DEF LangTypes
<1>5. LangTypes'
  BY <1>1, <1>2, <1>3 DEF LangTypes
<1>6. Single(c)
  BY <1>1, <1>2, <1>5 DEF Single, Keeps, Ended, LangTypes
<1>7. Called(c)'
  <2>1. Keyed(c)'
    BY <1>1, <1>3, <1>4 DEF Keyed, CacheKey
  <2> QED BY <1>1, <1>2, <1>4, <2>1 DEF Called, LangStages
<1>8. AnswerOf(c)' /\ PersistOf(c)' /\ ~Answered(c)'
  BY <1>4 DEF AnswerOf, PersistOf, EventAnswer, EventStored, Answered, Ended
<1> QED BY <1>1, <1>6, <1>7, <1>8, AsideStays

(* An answer out of the diary. *)
LEMMA FromDiaryStays ==
  ASSUME LangInv, NEW c \in Client, Single(c), UNCHANGED <<diary, holder, renewals, executions, newer>>,
         pc[c] \notin {"executing", "done"}, Called(c)', Keyed(c)', pc'[c] = "done",
         op[c].kind \in AnswerKinds \cup {"callback"},
         op[c].kind = "callback" => Live(key'[c]) /\ holder = NoClient,
         answer'[c] = ValueOf(key'[c]), epoch'[c] = EpochOf(key'[c])
  PROVE  LangInv'
<1>1. op' = op /\ persistEvents' = persistEvents
  BY DEF Single
<1>2. PICK k : k = key'[c]
  OBVIOUS
<1>3. OneForKey(diary) /\ \A i \in DOMAIN diary : RecordOk(diary[i]) /\ diary[i] \in LangRecord
  BY LenProperties DEF LangInv, RecordsInv, OneForKey
<1>4. op[c].kind \in AnswerKinds => k \in LangKey /\ epoch'[c] = renewals[k]
  BY <1>1, <1>2 DEF Keyed, EpochOf
<1>5. AnswerOf(c)' /\ (Answered(c)' => epoch'[c] = renewals[key'[c]])
  <2> SUFFICES ASSUME Answered(c)'
               PROVE  AnswerOf(c)' /\ epoch'[c] = renewals[key'[c]]
    BY DEF AnswerOf
  <2>1. answer'[c] # NoValue /\ op[c].kind \in AnswerKinds
    BY <1>1 DEF Answered, AnswerKinds
  <2>2. Live(k)
    BY <1>2, <2>1 DEF ValueOf
  <2>3. Holds(diary, k, answer'[c])
    BY <1>2, <1>3, <2>2, FirstIs
  <2>4. PICK v : v = answer'[c]
    OBVIOUS
  <2>5. PICK i \in DOMAIN diary : diary[i].key = k /\ ~diary[i].expired /\ diary[i].value = v
    BY <2>3, <2>4 DEF Holds
  <2>6. Supplied(v, k)
    BY <1>3, <2>1, <2>4, <2>5 DEF RecordOk
  <2>7. Supplied(v, k)'
    BY <2>6, SuppliedStays
  <2>8. Supplied(answer[c], key[c])'
    BY <1>2, <2>4, <2>7 DEF Supplied, Keyed
  <2>9. renewals[k] \in Nat
    BY <1>4, <2>1 DEF LangInv, LangTypes
  <2>10. /\ key'[c] \in LangKey /\ epoch'[c] = renewals'[key'[c]] /\ epoch'[c] <= renewals'[key'[c]]
         /\ Holds(diary', key'[c], answer'[c])
    BY <1>2, <1>4, <2>1, <2>3, <2>9
  <2> QED BY <2>8, <2>10 DEF AnswerOf
<1>6. PersistOf(c)'
  <2> SUFFICES ASSUME op[c].kind = "callback"
               PROVE  Supplied(answer[c], key[c])' /\ answer'[c] # c
    BY <1>1 DEF PersistOf, EventAnswer, EventStored
  <2>1. PICK v : v = answer'[c]
    OBVIOUS
  <2>2. PICK i \in DOMAIN diary : diary[i].key = k /\ diary[i].value = v
    BY <1>2, <1>3, <2>1, FirstIs DEF Holds
  <2>3. k \notin LangKey
    BY <1>1, <1>2 DEF Keyed
  <2>4. diary[i].status = "done"
    BY <1>3, <2>2, <2>3, ClientAssumption DEF RecordOk, LangRecord
  <2>5. Supplied(v, k)
    BY <1>3, <2>2, <2>4 DEF RecordOk
  <2>6. Supplied(v, k)' /\ v # c
    BY <2>5, SuppliedStays DEF Supplied
  <2> QED BY <1>2, <2>1, <2>6 DEF Supplied, Keyed
<1> QED BY <1>5, <1>6, AsideStays

(* A lookup reads, at any moment. *)
LEMMA LookupStays ==
  ASSUME LangInv, NEW c \in Client, Lookup(c)
  PROVE  LangInv'
<1> DEFINE k == CacheKey(op[c].input)
<1>1. /\ pc[c] = "idle" /\ op[c].kind = "lookup" /\ op' = op
      /\ key' = [key EXCEPT ![c] = k] /\ pc' = [pc EXCEPT ![c] = "done"]
      /\ answer' = [answer EXCEPT ![c] = ValueOf(k)] /\ epoch' = [epoch EXCEPT ![c] = EpochOf(k)]
      /\ UNCHANGED <<persistEvents, diary, holder, clock, renewals, executions, newer>>
  BY DEF Lookup, Starts, ToPc, handlerVars
<1>2. LangTypes /\ Called(c) /\ OneForKey(diary)
  BY DEF LangInv, RecordsInv
<1>3. k \in LangKey /\ k \in AnyKey
  BY <1>1, <1>2, KeysAre DEF LangTypes, AnswerKinds, AnyKey
<1>4. ValueOf(k) \in Client \cup {NoValue}
  <2> HIDE DEF k
  <2>1. CASE Live(k)
    <3>1. PICK i \in DOMAIN diary : diary[i].value = ValueOf(k)
      BY <1>2, <2>1, FirstIs DEF Holds
    <3>2. diary[i] \in LangRecord
      BY <1>2, LenProperties DEF OneForKey
    <3> QED BY <3>1, <3>2 DEF LangRecord
  <2>2. CASE ~Live(k)
    BY <2>2 DEF ValueOf
  <2> QED BY <2>1, <2>2
<1>5. EpochOf(k) \in Nat
  BY <1>2, <1>3 DEF EpochOf, LangTypes
<1> HIDE DEF k
<1>6. /\ key'[c] = k /\ pc'[c] = "done" /\ answer'[c] = ValueOf(k) /\ epoch'[c] = EpochOf(k)
  BY <1>1, <1>2 DEF LangTypes
<1>7. LangTypes'
  BY <1>1, <1>2, <1>3, <1>4, <1>5 DEF LangTypes
<1>8. Single(c)
  BY <1>1, <1>2, <1>7 DEF Single, Keeps, Ended, LangTypes
<1>9. Called(c)' /\ Keyed(c)'
  <2>1. Keyed(c)'
    BY <1>1, <1>3, <1>6 DEF Keyed, k, CacheKey
  <2> QED BY <1>1, <1>2, <1>6, <2>1 DEF Called, LangStages
<1> QED BY <1>1, <1>6, <1>8, <1>9, FromDiaryStays DEF AnswerKinds

(* Who is in the lock and finds a live record is answered with it. *)
LEMMA AnsweredStays ==
  ASSUME LangInv, NEW c \in Client, EnterDiary(c), Live(key[c])
  PROVE  LangInv'
<1>1. /\ pc[c] = "asking" /\ holder = NoClient /\ op' = op /\ pc' = [pc EXCEPT ![c] = "done"]
      /\ answer' = [answer EXCEPT ![c] = ValueOf(key[c])]
      /\ epoch' = [epoch EXCEPT ![c] = EpochOf(key[c])]
      /\ UNCHANGED <<persistEvents, diary, holder, key, clock, renewals, executions, newer>>
  BY DEF EnterDiary, AnswerFrom, ToPc, handlerVars
<1>2. LangTypes /\ Called(c) /\ OneForKey(diary)
  BY DEF LangInv, RecordsInv
<1>3. PICK k : k = key[c]
  OBVIOUS
<1>4. ValueOf(k) \in Client \cup {NoValue}
  <2>1. PICK i \in DOMAIN diary : diary[i].value = ValueOf(k)
    BY <1>2, <1>3, FirstIs DEF Holds
  <2>2. diary[i] \in LangRecord
    BY <1>2, LenProperties DEF OneForKey
  <2> QED BY <2>1, <2>2 DEF LangRecord
<1>5. EpochOf(k) \in Nat
  BY <1>2 DEF EpochOf, LangTypes
<1>6. /\ key'[c] = k /\ pc'[c] = "done" /\ answer'[c] = ValueOf(k) /\ epoch'[c] = EpochOf(k)
  BY <1>1, <1>2, <1>3 DEF LangTypes
<1>7. LangTypes'
  BY <1>1, <1>2, <1>3, <1>4, <1>5 DEF LangTypes
<1>8. Single(c)
  BY <1>1, <1>2, <1>7 DEF Single, Keeps, Ended, LangTypes
<1>9. Called(c)' /\ Keyed(c)' /\ op[c].kind \in AnswerKinds \cup {"callback"}
  <2>1. Keyed(c)
    BY <1>1, <1>2 DEF Called
  <2>2. Keyed(c)'
    BY <1>1, <2>1 DEF Keyed
  <2> QED BY <1>1, <1>2, <1>6, <2>2 DEF Called, LangStages, AnswerKinds
<1> QED BY <1>1, <1>3, <1>6, <1>8, <1>9, FromDiaryStays

(* A claim leaves an event's record behind newer ones only, or cuts it off *)
(* when newer ones fill the diary.                                         *)
LEMMA ClaimKeeps ==
  ASSUME LangInv, NEW k, NEW cut, ClaimOf(diary, diary', k, cut), ~Alive(diary, k),
         Len(diary) \in Nat, Len(diary') \in Nat,
         NEW d \in Client, KeptFor(d), key[d] \notin LangKey, key'[d] = key[d],
         newer'[d] = newer[d] \cup {k}
  PROVE  KeptFor(d)'
<1>1. CASE CrowdedOut(d)
  <2>1. Len(diary') = MaxEvents
    BY <1>1, LangChainAssumption DEF CrowdedOut, ClaimOf
  <2>2. ASSUME NEW i \in DOMAIN diary' PROVE diary'[i].key \in newer'[d]
    <3>1. diary'[i].key = k \/ \E j \in DOMAIN diary : diary'[i] = diary[j]
      BY DEF ClaimOf, NewClaim
    <3> QED BY <1>1, <3>1 DEF CrowdedOut
  <2> QED BY <2>1, <2>2 DEF KeptFor, CrowdedOut
<1>2. CASE ~CrowdedOut(d)
  <2>1. PICK j \in DOMAIN diary : /\ diary[j].key = key[d] /\ diary[j].value = d
                                   /\ diary[j].status = "done"
                                   /\ \A l \in DOMAIN diary : l < j => diary[l].key \in newer[d]
    BY <1>2 DEF KeptFor
  <2>2. diary[j].key # k
    <3>1. RecordOk(diary[j])
      BY DEF LangInv, RecordsInv
    <3> QED BY <2>1, <3>1 DEF RecordOk, Alive
  <2>3. CASE Moved(diary, diary', k, j)
    <3>1. PICK i \in DOMAIN diary' :
                 /\ diary'[i] = diary[j]
                 /\ \A q \in DOMAIN diary' : q < i =>
                      diary'[q].key = k \/ \E l \in DOMAIN diary : l < j /\ diary'[q] = diary[l]
      BY <2>3 DEF Moved
    <3>2. \A q \in DOMAIN diary' : q < i => diary'[q].key \in newer'[d]
      BY <2>1, <3>1
    <3> QED BY <2>1, <3>1, <3>2 DEF KeptFor
  <2>4. CASE Len(diary') = MaxEvents /\ AllBefore(diary, diary', k, j)
    <3>1. \A i \in DOMAIN diary' : diary'[i].key \in newer'[d]
      BY <2>1, <2>4 DEF AllBefore
    <3> QED BY <2>4, <3>1 DEF KeptFor, CrowdedOut
  <2> QED BY <2>2, <2>3, <2>4 DEF ClaimOf
<1> QED BY <1>1, <1>2

(* A claim: the function of a key without a live record is run. *)
LEMMA ClaimStays ==
  ASSUME LangInv, NEW c \in Client, EnterDiary(c), ~Live(key[c])
  PROVE  LangInv'
<1> DEFINE k == key[c]
           cut == Cut(k)
<1>1. /\ pc[c] = "asking" /\ holder = NoClient /\ op' = op /\ pc' = [pc EXCEPT ![c] = "executing"]
      /\ diary' = Slice(Claimed(k)) /\ holder' = c
      /\ executions' = [j \in LangKey |-> executions[j] + (IF j = k THEN 1 ELSE 0)]
      /\ renewals' = [j \in LangKey |-> renewals[j] + (IF j \in cut THEN 1 ELSE 0)]
      /\ newer' = [d \in Client |-> IF d = c THEN {} ELSE newer[d] \cup {k}]
      /\ UNCHANGED <<persistEvents, key, answer, epoch, clock>>
  BY DEF EnterDiary, ToPc, Executed, Renewed, ClaimedBy, handlerVars
<1>2. LangTypes /\ Called(c) /\ OneForKey(diary) /\ Len(diary) <= MaxEvents
  BY DEF LangInv, RecordsInv
<1>3. Keyed(c) /\ k \in AnyKey /\ holder \notin Client
  BY <1>1, <1>2, ClientAssumption DEF Called, Keyed
<1>4. ClaimOf(diary, diary', k, cut) /\ ~Alive(diary, k)
  BY <1>1, <1>2, <1>3, ClaimIs, FirstIs
<1> HIDE DEF cut
<1>5. Len(diary) \in Nat /\ Len(diary') \in Nat
  BY <1>2, <1>4, LenProperties DEF OneForKey, ClaimOf
<1>6. LangTypes'
  <2>1. pc' = [d \in Client |-> pc'[d]] /\ holder' \in Client \cup {NoClient}
    BY <1>1, <1>2 DEF LangTypes
  <2>2. renewals' \in [LangKey -> Nat] /\ executions' \in [LangKey -> Nat]
    <3>1. \A j \in LangKey : renewals[j] \in Nat /\ executions[j] \in Nat
      BY <1>2 DEF LangTypes
    <3> HIDE DEF k
    <3> QED BY <1>1, <3>1
  <2> QED BY <1>1, <1>2, <2>1, <2>2 DEF LangTypes
<1>7. Single(c) /\ pc'[c] = "executing"
  BY <1>1, <1>2, <1>6 DEF Single, Keeps, Ended, LangTypes
<1>8. ASSUME NEW d \in Client PROVE Called(d)'
  <2>1. Called(d)
    BY DEF LangInv
  <2>2. CASE d = c
    <3>1. Keyed(c)'
      BY <1>1, <1>3 DEF Keyed
    <3> QED BY <1>1, <1>2, <1>7, <2>2, <3>1 DEF Called, LangStages
  <2>3. CASE d # c
    BY <1>1, <1>3, <1>7, <2>1, <2>3 DEF Called, Keyed, Single, Keeps
  <2> QED BY <2>2, <2>3
<1>9. RecordsInv'
  <2>1. OneForKey(diary') /\ Len(diary') <= MaxEvents /\ 1 \in DOMAIN diary' /\ diary'[1] = NewClaim(k)
    BY <1>4 DEF ClaimOf
  <2>2. PICK r : r = NewClaim(k)
    OBVIOUS
  <2>6. RecordOk(r)'
    BY <1>1, <2>2 DEF RecordOk, NewClaim
  <2>3. ASSUME NEW i \in DOMAIN diary', i # 1 PROVE RecordOk(diary[i])'
    <3>1. PICK j \in DOMAIN diary : diary'[i] = diary[j] /\ diary[j].key # k
      BY <1>4, <2>3 DEF ClaimOf
    <3>2. PICK q : q = diary[j]
      OBVIOUS
    <3>3. RecordOk(q)
      BY <3>2 DEF LangInv, RecordsInv
    <3>4. q.status # "pending"
      BY <1>3, <3>3 DEF RecordOk
    <3>5. RecordOk(q)'
      BY <1>7, <3>3, <3>4, SuppliedStays DEF RecordOk
    <3> QED BY <3>1, <3>2, <3>5 DEF RecordOk, Supplied, Keyed
  <2>4. \A i \in DOMAIN diary' : RecordOk(diary[i])'
    <3> SUFFICES ASSUME NEW i \in DOMAIN diary', i = 1 PROVE RecordOk(diary[i])'
      BY <2>3
    <3>1. diary'[i] = r
      BY <2>1, <2>2
    <3> QED BY <2>6, <3>1 DEF RecordOk, Supplied, Keyed
  <2>5. diary'[1].key = key'[c] /\ diary'[1].status = "pending"
    BY <1>1, <2>1 DEF NewClaim
  <2> QED BY <1>1, <2>1, <2>4, <2>5 DEF RecordsInv
<1>10. ASSUME NEW u \in LangKey
       PROVE  Alive(diary', u) <=> u = k \/ (Alive(diary, u) /\ u \notin cut)
  <2>1. Alive(diary', k)
    BY <1>4 DEF ClaimOf, Alive, NewClaim
  <2>2. ASSUME u # k, Alive(diary', u) PROVE Alive(diary, u) /\ u \notin cut
    <3>1. PICK i \in DOMAIN diary' : diary'[i].key = u /\ ~diary'[i].expired
      BY <2>2 DEF Alive
    <3>2. i # 1
      BY <1>4, <2>2, <3>1 DEF ClaimOf, NewClaim
    <3> QED BY <1>4, <2>2, <3>1, <3>2 DEF ClaimOf, Alive
  <2>3. ASSUME u # k, Alive(diary, u), u \notin cut PROVE Alive(diary', u)
    <3>1. PICK j \in DOMAIN diary : diary[j].key = u /\ ~diary[j].expired
      BY <2>3 DEF Alive
    <3>2. \E i \in DOMAIN diary' : diary'[i] = diary[j]
      BY <1>4, <2>3, <3>1 DEF ClaimOf, Moved
    <3> QED BY <3>1, <3>2 DEF Alive
  <2> QED BY <2>1, <2>2, <2>3
<1>11. CountInv'
  <2> SUFFICES ASSUME NEW u \in LangKey
               PROVE  executions'[u] = renewals'[u] + (IF Alive(diary', u) THEN 1 ELSE 0)
    BY DEF CountInv
  <2>1. /\ executions[u] = renewals[u] + (IF Alive(diary, u) THEN 1 ELSE 0)
        /\ executions[u] \in Nat /\ renewals[u] \in Nat
    BY <1>2 DEF LangInv, CountInv, LangTypes
  <2>2. /\ executions'[u] = executions[u] + (IF u = k THEN 1 ELSE 0)
        /\ renewals'[u] = renewals[u] + (IF u \in cut THEN 1 ELSE 0)
    BY <1>1
  <2>3. u \in cut => u # k /\ Alive(diary, u)
    BY <1>4 DEF ClaimOf, Alive
  <2>4. CASE u = k
    BY <1>4, <1>10, <2>1, <2>2, <2>3, <2>4
  <2>5. CASE u # k
    <3> HIDE DEF k
    <3> QED BY <1>10, <2>1, <2>2, <2>3, <2>5
  <2> QED BY <2>4, <2>5
<1>12. ASSUME NEW d \in Client PROVE AnswerOf(d)'
  <2>1. CASE d = c
    BY <1>7, <2>1 DEF AnswerOf, Answered, Ended
  <2>2. CASE d # c
    <3> DEFINE u == key[d]
    <3>1. Keeps(d) /\ AnswerOf(d)
      BY <1>7, <2>2 DEF Single, LangInv
    <3>2. u \in LangKey => renewals'[u] \in {renewals[u], renewals[u] + 1}
      BY <1>1, <1>2 DEF LangTypes
    <3>3. ASSUME renewals'[u] = renewals[u], Holds(diary, u, answer[d]), Answered(d)
          PROVE  Holds(diary', u, answer[d])
      <4>1. u \in LangKey
        BY <3>1, <3>3 DEF AnswerOf
      <4>2. u \notin cut
        BY <1>1, <1>2, <3>3, <4>1 DEF LangTypes
      <4>3. PICK j \in DOMAIN diary : diary[j].key = u /\ ~diary[j].expired /\ diary[j].value = answer[d]
        BY <3>3 DEF Holds
      <4>4. u # k
        BY <1>4, <4>3 DEF Alive
      <4>5. \E i \in DOMAIN diary' : diary'[i] = diary[j]
        BY <1>4, <4>2, <4>3, <4>4 DEF ClaimOf, Moved
      <4> QED BY <4>3, <4>5 DEF Holds
    <3>4. CASE Answered(d)
      BY <1>2, <1>7, <3>1, <3>2, <3>3, <3>4, OldAnswer
    <3>5. CASE ~Answered(d)
      BY <1>1, <3>1, <3>5 DEF AnswerOf, Answered, Keeps, Ended
    <3> QED BY <3>4, <3>5
  <2> QED BY <2>1, <2>2
<1>13. ASSUME NEW d \in Client PROVE PersistOf(d)'
  <2>1. CASE d = c
    BY <1>7, <2>1 DEF PersistOf, EventAnswer, EventStored
  <2>2. CASE d # c
    <3>1. Keeps(d) /\ EventAnswer(d) /\ EventStored(d) /\ newer'[d] = newer[d] \cup {k}
      BY <1>1, <1>7, <2>2 DEF Single, LangInv, PersistOf
    <3>2. ASSUME KeptFor(d), key[d] \notin LangKey PROVE KeptFor(d)'
      BY <1>1, <1>2, <1>4, <1>5, <3>1, <3>2, ClaimKeeps
    <3>3. EventStored(d)'
      <4> SUFFICES ASSUME op[d].kind = "callback", pc[d] = "done", persistEvents, answer[d] = d
                   PROVE  KeptFor(d)'
        BY <1>7, <3>1 DEF EventStored, Keeps, Single
      <4>1. KeptFor(d) /\ Called(d)
        BY <3>1 DEF EventStored, LangInv
      <4>2. key[d] \notin LangKey
        BY <4>1 DEF Called, Keyed
      <4> QED BY <3>2, <4>1, <4>2
    <3> QED BY <1>7, <3>1, <3>3, AnswerStays DEF PersistOf
  <2> QED BY <2>1, <2>2
<1>14. \A a, b \in Client : Agree(a, b)'
  <2>1. OneForKey(diary') /\ \A a, b \in Client : Agree(a, b)
    BY <1>9 DEF LangInv, RecordsInv
  <2>2. ~Answered(c)'
    BY <1>7 DEF Answered, Ended
  <2> QED BY <1>7, <1>12, <2>1, <2>2, AgreeStays
<1> QED BY <1>6, <1>8, <1>9, <1>11, <1>12, <1>13, <1>14 DEF LangInv

(* The function of a claim returns, or a tool's throws. *)
LEMMA LeaveStays ==
  ASSUME LangInv, NEW c \in Client, NEW ok \in BOOLEAN, LeaveDiary(c, ok)
  PROVE  LangInv'
<1> DEFINE k == key[c]
           v == IF ok THEN c ELSE NoValue
           s == IF ok THEN "done" ELSE "failed"
           new(r) == [r EXCEPT !.status = s, !.value = v]
<1>1. /\ pc[c] = "executing" /\ (ok \/ op[c].kind = "invoke") /\ op' = op
      /\ diary' = [i \in DOMAIN diary |-> IF diary[i].key # k THEN diary[i] ELSE new(diary[i])]
      /\ holder' = NoClient /\ answer' = [answer EXCEPT ![c] = v]
      /\ epoch' = [epoch EXCEPT ![c] = EpochOf(k)]
      /\ pc' = [pc EXCEPT ![c] = IF ok THEN "done" ELSE "threw"]
      /\ UNCHANGED <<key, clock, renewals, executions, newer>>
  BY DEF LeaveDiary, AnswerFrom, ToPc
<1>p. persistEvents' = persistEvents
  BY DEF LeaveDiary, handlerVars
<1>2. LangTypes /\ Called(c) /\ OneForKey(diary) /\ Len(diary) <= MaxEvents
  BY DEF LangInv, RecordsInv
<1>3. /\ Keyed(c) /\ k \in AnyKey /\ holder = c /\ op[c].kind \in {"update", "invoke", "callback"}
      /\ holder' \notin Client
  <2>1. holder = c /\ Keyed(c) /\ op[c].kind \in {"update", "invoke", "callback"}
    BY <1>1, <1>2 DEF Called, LangStages
  <2> QED BY <1>1, <2>1, ClientAssumption DEF Keyed
<1>4. /\ Len(diary) \in Nat /\ DOMAIN diary = 1 .. Len(diary)
      /\ \A i \in DOMAIN diary : diary[i] \in LangRecord /\ RecordOk(diary[i])
  BY <1>2, LenProperties DEF OneForKey, LangInv, RecordsInv
<1>5. v \in Client \cup {NoValue} /\ EpochOf(k) \in Nat
  BY <1>2 DEF EpochOf, LangTypes
<1>6. \A i \in DOMAIN diary : LET r == new(diary[i]) IN
        /\ r \in LangRecord /\ r.key = diary[i].key /\ r.expired = diary[i].expired
        /\ r.status = s /\ r.value = v
  BY <1>4, <1>5 DEF LangRecord
<1> HIDE DEF v, s, new, k
<1>7. /\ DOMAIN diary' = DOMAIN diary /\ diary' \in Seq(LangRecord) /\ Len(diary') = Len(diary)
      /\ \A i \in DOMAIN diary : diary'[i] = IF diary[i].key # k THEN diary[i] ELSE new(diary[i])
  <2>1. \A i \in 1 .. Len(diary) : diary'[i] \in LangRecord
    BY <1>1, <1>4, <1>6
  <2>2. diary' = [i \in 1 .. Len(diary) |-> diary'[i]]
    BY <1>1, <1>4
  <2>3. diary' \in Seq(LangRecord) /\ Len(diary') = Len(diary)
    BY <1>4, <2>1, <2>2
  <2> QED BY <1>1, <2>3
<1>8. /\ OneForKey(diary')
      /\ \A i \in DOMAIN diary : diary'[i].key = diary[i].key /\ diary'[i].expired = diary[i].expired
  <2>1. \A i \in DOMAIN diary : diary'[i].key = diary[i].key /\ diary'[i].expired = diary[i].expired
    BY <1>6, <1>7
  <2> QED BY <1>2, <1>7, <2>1 DEF OneForKey
<1>9. key'[c] = k /\ pc'[c] = (IF ok THEN "done" ELSE "threw") /\ answer'[c] = v /\ epoch'[c] = EpochOf(k)
  BY <1>1, <1>2 DEF LangTypes, k
<1>10. LangTypes'
  <2>1. pc' = [d \in Client |-> pc'[d]] /\ answer' \in [Client -> Client \cup {NoValue}]
        /\ epoch' \in [Client -> Nat]
    BY <1>1, <1>2, <1>5 DEF LangTypes
  <2> QED BY <1>1, <1>2, <2>1 DEF LangTypes
<1>11. Single(c)
  BY <1>1, <1>p, <1>2, <1>10 DEF Single, Keeps, Ended, LangTypes
<1>12. ASSUME NEW d \in Client PROVE Called(d)'
  <2>1. Called(d)
    BY DEF LangInv
  <2>2. CASE d = c
    <3>1. Keyed(c)'
      BY <1>1, <1>3 DEF Keyed
    <3> QED BY <1>1, <1>3, <1>9, <2>2, <3>1 DEF Called, LangStages
  <2>3. CASE d # c
    <3>1. pc'[d] = pc[d] /\ pc[d] # "executing" /\ (Keyed(d) => Keyed(d)')
      BY <1>1, <1>3, <1>11, <2>1, <2>3 DEF Called, Single, Keeps, Keyed
    <3> QED BY <1>1, <1>p, <1>3, <2>1, <3>1 DEF Called
  <2> QED BY <2>2, <2>3
<1>13. RecordsInv'
  <2>1. ASSUME NEW i \in DOMAIN diary PROVE RecordOk(diary[i])'
    <3>1. PICK r : r = diary'[i]
      OBVIOUS
    <3>2. CASE diary[i].key # k
      <4>1. r = diary[i] /\ RecordOk(r)
        BY <1>4, <1>7, <3>1, <3>2
      <4>2. r.status # "pending"
        BY <1>3, <3>2, <4>1 DEF RecordOk, k
      <4>3. RecordOk(r)'
        BY <1>11, <4>1, <4>2, SuppliedStays DEF RecordOk
      <4> QED BY <3>1, <4>3 DEF RecordOk, Supplied, Keyed
    <3>3. CASE diary[i].key = k
      <4>1. r.key = k /\ r.expired = diary[i].expired /\ r.status = s /\ r.value = v
        BY <1>6, <1>7, <3>1, <3>3
      <4>2. k \notin LangKey => ~r.expired /\ ok
        BY <1>1, <1>3, <1>4, <3>3, <4>1 DEF RecordOk, Keyed, AnswerKinds, k
      <4>3. PICK u : u = k
        OBVIOUS
      <4>4. ok => Supplied(c, u)'
        BY <1>1, <1>3, <1>9, <4>3 DEF Supplied, Keyed, v, k
      <4>5. RecordOk(r)'
        <5>1. CASE ok
          BY <4>1, <4>2, <4>3, <4>4, <5>1 DEF RecordOk, s, v
        <5>2. CASE ~ok
          BY <4>1, <4>2, <5>2 DEF RecordOk, s, v
        <5> QED BY <5>1, <5>2
      <4> QED BY <3>1, <4>5 DEF RecordOk, Supplied, Keyed
    <3> QED BY <3>2, <3>3
  <2> QED BY <1>2, <1>3, <1>7, <1>8, <2>1 DEF RecordsInv
<1>14. CountInv'
  <2>1. \A u : Alive(diary', u) <=> Alive(diary, u)
    BY <1>7, <1>8 DEF Alive
  <2> QED BY <1>1, <2>1 DEF LangInv, CountInv
<1>15. PICK i \in DOMAIN diary : i = 1 /\ diary[i].key = k /\ diary[i].status = "pending"
  BY <1>3 DEF LangInv, RecordsInv, k
<1>16. /\ diary[i].value = NoValue /\ ~diary[i].expired
       /\ diary'[i].key = k /\ diary'[i].status = s /\ diary'[i].value = v /\ ~diary'[i].expired
  BY <1>4, <1>6, <1>7, <1>15 DEF RecordOk
<1>17. ASSUME NEW d \in Client PROVE AnswerOf(d)'
  <2>1. CASE d = c
    <3> SUFFICES ASSUME Answered(c)'
                 PROVE  /\ key'[c] \in LangKey /\ Supplied(answer[c], key[c])'
                        /\ epoch'[c] <= renewals'[key'[c]]
                        /\ epoch'[c] = renewals'[key'[c]] => Holds(diary', key'[c], answer'[c])
      BY <2>1 DEF AnswerOf
    <3>1. ok /\ v = c
      BY <1>9 DEF Answered, v
    <3>2. k \in LangKey
      BY <1>1, <1>3 DEF Answered, Keyed, AnswerKinds, k
    <3>3. epoch'[c] = renewals'[k] /\ renewals'[k] \in Nat
      BY <1>1, <1>2, <1>9, <3>2 DEF EpochOf, LangTypes
    <3>4. Supplied(answer[c], key[c])'
      BY <1>1, <1>3, <1>9, <3>1 DEF Supplied, Keyed
    <3>5. Holds(diary', k, v)
      BY <1>7, <1>16 DEF Holds
    <3> QED BY <1>9, <3>1, <3>2, <3>3, <3>4, <3>5
  <2>2. CASE d # c
    <3>1. Keeps(d) /\ AnswerOf(d)
      BY <1>11, <2>2 DEF Single, LangInv
    <3>2. ASSUME answer[d] # NoValue, Holds(diary, key[d], answer[d]) PROVE Holds(diary', key[d], answer[d])
      <4>1. PICK j \in DOMAIN diary : /\ diary[j].key = key[d] /\ ~diary[j].expired
                                      /\ diary[j].value = answer[d]
        BY <3>2 DEF Holds
      <4>2. diary[j].key # k
        BY <1>2, <1>15, <1>16, <3>2, <4>1 DEF OneForKey
      <4>3. diary'[j] = diary[j]
        BY <1>7, <4>2
      <4> QED BY <1>7, <4>1, <4>3 DEF Holds
    <3> QED BY <1>1, <1>2, <1>11, <3>1, <3>2, OldAnswer
  <2> QED BY <2>1, <2>2
<1>18. ASSUME NEW d \in Client PROVE PersistOf(d)'
  <2>1. CASE d = c
    <3> SUFFICES ASSUME ok PROVE PersistOf(c)'
      BY <1>9, <2>1 DEF PersistOf, EventAnswer, EventStored
    <3>1. v = c /\ s = "done"
      BY DEF v, s
    <3>2. Supplied(answer[c], key[c])'
      BY <1>1, <1>3, <1>9, <3>1 DEF Supplied, Keyed
    <3>3. \A j \in DOMAIN diary' : ~(j < i)
      BY <1>4, <1>7, <1>15
    <3>4. KeptFor(c)'
      BY <1>7, <1>9, <1>15, <1>16, <3>1, <3>3 DEF KeptFor
    <3> QED BY <3>2, <3>4 DEF PersistOf, EventAnswer, EventStored
  <2>2. CASE d # c
    <3>1. Keeps(d) /\ EventAnswer(d) /\ EventStored(d)
      BY <1>11, <2>2 DEF Single, LangInv, PersistOf
    <3>2. ASSUME KeptFor(d) PROVE KeptFor(d)'
      <4>1. CASE CrowdedOut(d)
        BY <1>1, <1>7, <1>8, <4>1 DEF KeptFor, CrowdedOut
      <4>2. CASE ~CrowdedOut(d)
        <5>1. PICK j \in DOMAIN diary : /\ diary[j].key = key[d] /\ diary[j].value = d
                                         /\ diary[j].status = "done"
                                         /\ \A l \in DOMAIN diary : l < j => diary[l].key \in newer[d]
          BY <3>2, <4>2 DEF KeptFor
        <5>2. diary[j].key # k
          BY <1>2, <1>15, <5>1 DEF OneForKey
        <5>3. diary'[j] = diary[j] /\ newer' = newer /\ key'[d] = key[d]
          BY <1>1, <1>7, <5>2
        <5>4. \A l \in DOMAIN diary' : l < j => diary'[l].key \in newer[d]
          BY <1>7, <1>8, <5>1
        <5> QED BY <1>7, <5>1, <5>3, <5>4 DEF KeptFor
      <4> QED BY <4>1, <4>2
    <3>3. EventStored(d)'
      BY <1>11, <3>1, <3>2 DEF EventStored, Keeps, Single
    <3> QED BY <1>11, <3>1, <3>3, AnswerStays DEF PersistOf
  <2> QED BY <2>1, <2>2
<1>19. \A a, b \in Client : Agree(a, b)'
  <2>1. \A a, b \in Client : Agree(a, b)
    BY DEF LangInv
  <2>2. Answered(c)' => epoch'[c] = renewals'[key'[c]]
    <3> SUFFICES ASSUME Answered(c)' PROVE epoch'[c] = renewals'[key'[c]]
      OBVIOUS
    <3>1. k \in LangKey
      BY <1>1, <1>3 DEF Answered, Keyed, AnswerKinds, k
    <3> QED BY <1>1, <1>9, <3>1 DEF EpochOf
  <2> QED BY <1>8, <1>11, <1>17, <2>1, <2>2, AgreeStays
<1> QED BY <1>10, <1>12, <1>13, <1>14, <1>17, <1>18, <1>19 DEF LangInv

(* A record expires: what was answered from it is of an earlier renewal. *)
LEMMA ExpireStays ==
  ASSUME LangInv, NEW i, ExpireRecord(i)
  PROVE  LangInv'
<1> DEFINE k == diary[i].key
           new == [diary[i] EXCEPT !.expired = TRUE]
<1>1. /\ i \in DOMAIN diary /\ k \in LangKey /\ diary[i].status # "pending" /\ ~diary[i].expired
      /\ diary' = [diary EXCEPT ![i] = new]
      /\ renewals' = [j \in LangKey |-> renewals[j] + (IF j = k THEN 1 ELSE 0)]
      /\ UNCHANGED <<op, pc, persistEvents, holder, key, answer, clock, executions, epoch, newer>>
  BY DEF ExpireRecord, Renewed, callVars, handlerVars
<1>2. LangTypes /\ OneForKey(diary) /\ Len(diary) <= MaxEvents
  BY DEF LangInv, RecordsInv
<1>3. /\ Len(diary) \in Nat /\ DOMAIN diary = 1 .. Len(diary) /\ diary \in Seq(LangRecord)
      /\ \A j \in DOMAIN diary : diary[j] \in LangRecord /\ RecordOk(diary[j])
  BY <1>2, LenProperties DEF OneForKey, LangInv, RecordsInv
<1>4. /\ new \in LangRecord /\ new.key = k /\ new.expired
      /\ new.status = diary[i].status /\ new.value = diary[i].value
  BY <1>1, <1>3 DEF LangRecord
<1> HIDE DEF new
<1>5. /\ diary' \in Seq(LangRecord) /\ Len(diary') = Len(diary) /\ DOMAIN diary' = DOMAIN diary
      /\ \A j \in DOMAIN diary : diary'[j] = IF j = i THEN new ELSE diary[j]
  BY <1>1, <1>3, <1>4, ExceptSeq
<1>6. OneForKey(diary')
  BY <1>2, <1>4, <1>5 DEF OneForKey
<1> HIDE DEF k
<1>7. LangTypes' /\ \A j \in LangKey : renewals[j] \in Nat
  <2>1. \A j \in LangKey : renewals[j] \in Nat
    BY <1>2 DEF LangTypes
  <2>2. renewals' \in [LangKey -> Nat]
    BY <1>1, <2>1
  <2> QED BY <1>1, <1>2, <2>1, <2>2 DEF LangTypes
<1>8. Single(NoClient) /\ \A d \in Client : Keeps(d)
  BY <1>1, <1>7 DEF Single, Keeps
<1>9. \A d \in Client : Called(d)'
  BY <1>1 DEF LangInv, Called, Keyed
<1>10. RecordsInv'
  <2>1. ASSUME NEW j \in DOMAIN diary PROVE RecordOk(diary[j])'
    <3>1. PICK r : r = diary[j]
      OBVIOUS
    <3>2. RecordOk(r) /\ RecordOk(r)'
      BY <1>1, <1>3, <3>1 DEF RecordOk, Supplied, Keyed
    <3>3. CASE j # i
      BY <1>5, <3>1, <3>2, <3>3 DEF RecordOk, Supplied, Keyed
    <3>4. CASE j = i
      <4>1. PICK q : q = diary'[j]
        OBVIOUS
      <4>2. q.key = r.key /\ q.status = r.status /\ q.value = r.value /\ q.key \in LangKey
            /\ q.status # "pending"
        BY <1>1, <1>4, <1>5, <3>1, <3>4, <4>1 DEF k
      <4>3. RecordOk(q)'
        BY <3>2, <4>2 DEF RecordOk
      <4> QED BY <4>1, <4>3 DEF RecordOk, Supplied, Keyed
    <3> QED BY <3>3, <3>4
  <2>2. \A j \in DOMAIN diary : diary'[j].key = diary[j].key /\ diary'[j].status = diary[j].status
    BY <1>4, <1>5 DEF k
  <2> QED BY <1>1, <1>2, <1>5, <1>6, <2>1, <2>2 DEF LangInv, RecordsInv
<1>11. ASSUME NEW u PROVE Alive(diary', u) <=> u # k /\ Alive(diary, u)
  <2>1. \A j \in DOMAIN diary : j # i => diary[j].key # k
    BY <1>1, <1>2 DEF OneForKey, k
  <2> QED BY <1>4, <1>5, <2>1 DEF Alive, k
<1>12. CountInv'
  <2> SUFFICES ASSUME NEW u \in LangKey
               PROVE  executions[u] = renewals'[u] + (IF Alive(diary', u) THEN 1 ELSE 0)
    BY <1>1 DEF CountInv
  <2>1. executions[u] = renewals[u] + (IF Alive(diary, u) THEN 1 ELSE 0)
    BY DEF LangInv, CountInv
  <2>2. Alive(diary, k)
    BY <1>1 DEF Alive, k
  <2>3. renewals'[u] = renewals[u] + (IF u = k THEN 1 ELSE 0) /\ renewals[u] \in Nat
    BY <1>1, <1>7
  <2>4. CASE u = k
    BY <1>11, <2>1, <2>2, <2>3, <2>4
  <2>5. CASE u # k
    BY <1>11, <2>1, <2>3, <2>5
  <2> QED BY <2>4, <2>5
<1>13. ASSUME NEW d \in Client PROVE AnswerOf(d)'
  <2> DEFINE u == key[d]
  <2>1. Keeps(d) /\ AnswerOf(d)
    BY <1>8 DEF LangInv
  <2>2. u \in LangKey => renewals'[u] \in {renewals[u], renewals[u] + 1}
    BY <1>1, <1>7
  <2>3. CASE Answered(d)
    <3>1. u \in LangKey /\ renewals[u] \in Nat
      BY <1>7, <2>1, <2>3 DEF AnswerOf
    <3>2. ASSUME renewals'[u] = renewals[u], Holds(diary, u, answer[d]) PROVE Holds(diary', u, answer[d])
      <4>1. u # k
        BY <1>1, <3>1, <3>2
      <4> QED BY <1>5, <3>2, <4>1 DEF Holds, k
    <3> QED BY <1>2, <1>8, <2>1, <2>2, <3>2, OldAnswer
  <2>4. CASE ~Answered(d)
    BY <1>1, <2>4 DEF AnswerOf, Answered, Ended
  <2> QED BY <2>3, <2>4
<1>14. ASSUME NEW d \in Client PROVE PersistOf(d)'
  <2>1. Keeps(d) /\ EventAnswer(d) /\ EventStored(d)
    BY <1>8 DEF LangInv, PersistOf
  <2>2. \A j \in DOMAIN diary : /\ diary'[j].key = diary[j].key /\ diary'[j].status = diary[j].status
                                 /\ diary'[j].value = diary[j].value
    BY <1>4, <1>5 DEF k
  <2>3. ASSUME KeptFor(d) PROVE KeptFor(d)'
    BY <1>1, <1>5, <2>2, <2>3 DEF KeptFor, CrowdedOut
  <2>4. EventStored(d)'
    BY <1>1, <2>1, <2>3 DEF EventStored, Keeps
  <2> QED BY <1>8, <2>1, <2>4, AnswerStays DEF PersistOf
<1>15. \A a, b \in Client : Agree(a, b)'
  BY <1>1 DEF LangInv, Agree, Answered, Ended
<1> QED BY <1>7, <1>9, <1>10, <1>12, <1>13, <1>14, <1>15 DEF LangInv

(* An event comes in, and its key is made when onEvent is over. *)
LEMMA EventStays ==
  ASSUME LangInv, NEW c \in Client, RecordEvent(c)
  PROVE  LangInv'
<1>1. /\ pc[c] = "idle" /\ op[c].kind = "callback" /\ op' = op /\ pc' = [pc EXCEPT ![c] = "telling"]
      /\ UNCHANGED <<persistEvents, diary, holder, key, answer, clock, renewals, executions, epoch, newer>>
  BY DEF RecordEvent, Starts, ToPc, countVars
<1>2. LangTypes /\ Called(c)
  BY DEF LangInv
<1>3. pc'[c] = "telling" /\ LangTypes'
  BY <1>1, <1>2 DEF LangTypes
<1>4. Single(c)
  BY <1>1, <1>2, <1>3 DEF Single, Keeps, Ended, LangTypes
<1>5. Called(c)'
  BY <1>1, <1>2, <1>3 DEF Called, LangStages
<1>6. AnswerOf(c)' /\ PersistOf(c)' /\ ~Answered(c)'
  BY <1>3 DEF AnswerOf, PersistOf, EventAnswer, EventStored, Answered, Ended
<1> QED BY <1>1, <1>4, <1>5, <1>6, AsideStays

(* onEvent is over, or has thrown; the key is of that moment. *)
LEMMA ToldStays ==
  ASSUME LangInv, NEW c \in Client, NEW ok \in BOOLEAN, Told(c, ok)
  PROVE  LangInv'
<1> DEFINE k == TaskKey(c)
           stored == ok /\ persistEvents
<1>1. /\ pc[c] = "telling" /\ op' = op
      /\ pc' = [pc EXCEPT ![c] = IF stored THEN "asking" ELSE IF ok THEN "done" ELSE "threw"]
      /\ key' = IF stored THEN [key EXCEPT ![c] = k] ELSE key
      /\ UNCHANGED <<persistEvents, diary, holder, answer, clock, renewals, executions, epoch, newer>>
  BY DEF Told, ToPc, countVars, handlerVars
<1>2. LangTypes /\ Called(c)
  BY DEF LangInv
<1>3. op[c].kind = "callback"
  BY <1>1, <1>2 DEF Called
<1>4. k \in AnyKey \ LangKey /\ k = <<op[c].type, op[c].runId, clock>> /\ clock \in 0 .. MaxClock
  BY <1>2, <1>3, KeysAre DEF LangTypes, TaskKey
<1> HIDE DEF k
<1>5. /\ pc'[c] = (IF stored THEN "asking" ELSE IF ok THEN "done" ELSE "threw")
      /\ stored => key'[c] = k
  BY <1>1, <1>2 DEF LangTypes
<1>6. LangTypes'
  <2>1. key' \in [Client -> AnyKey \cup {NoValue}]
    BY <1>1, <1>2, <1>4 DEF LangTypes
  <2>2. pc' = [d \in Client |-> pc'[d]]
    BY <1>1, <1>2 DEF LangTypes
  <2> QED BY <1>1, <1>2, <2>1, <2>2 DEF LangTypes
<1>7. Single(c)
  BY <1>1, <1>2, <1>6 DEF Single, Keeps, Ended, LangTypes
<1>8. Called(c)'
  <2>1. stored => Keyed(c)'
    <3>1. op[c].kind \notin AnswerKinds
      BY <1>3 DEF AnswerKinds
    <3> DEFINE at(t) == <<op[c].type, op[c].runId, t>>
    <3>2. k = at(clock)
      BY <1>4
    <3> HIDE DEF at
    <3>3. stored => \E t \in 0 .. MaxClock : key'[c] = at(t)
      BY <1>4, <1>5, <3>2
    <3>4. stored => \E t \in 0 .. MaxClock : key'[c] = <<op[c].type, op[c].runId, t>>
      BY <3>3 DEF at
    <3> QED BY <1>1, <1>3, <1>4, <1>5, <3>1, <3>4 DEF Keyed
  <2> QED BY <1>1, <1>2, <1>3, <1>5, <2>1 DEF Called, LangStages, AnswerKinds
<1>9. AnswerOf(c)' /\ PersistOf(c)' /\ ~Answered(c)'
  BY <1>1, <1>3, <1>5 DEF AnswerOf, PersistOf, EventAnswer, EventStored, Answered
<1> QED BY <1>1, <1>7, <1>8, <1>9, AsideStays

(* A reset is of the handler only. *)
LEMMA ResetStays ==
  ASSUME LangInv, NEW c \in Client, Reset(c)
  PROVE  LangInv'
<1>1. /\ pc[c] = "idle" /\ op[c].kind = "reset" /\ op' = op /\ pc' = [pc EXCEPT ![c] = "done"]
      /\ UNCHANGED <<persistEvents, diary, holder, key, answer, clock, renewals, executions, epoch, newer>>
  BY DEF Reset, Starts, ToPc, countVars
<1>2. LangTypes /\ Called(c)
  BY DEF LangInv
<1>3. pc'[c] = "done" /\ LangTypes'
  BY <1>1, <1>2 DEF LangTypes
<1>4. Single(c)
  BY <1>1, <1>2, <1>3 DEF Single, Keeps, Ended, LangTypes
<1>5. Called(c)'
  BY <1>1, <1>2, <1>3 DEF Called, LangStages, AnswerKinds
<1>6. AnswerOf(c)' /\ PersistOf(c)' /\ ~Answered(c)'
  BY <1>1 DEF AnswerOf, PersistOf, EventAnswer, EventStored, Answered
<1> QED BY <1>1, <1>4, <1>5, <1>6, AsideStays

(* Time passes between an event and its key. *)
LEMMA TickStays ==
  ASSUME LangInv, Tick
  PROVE  LangInv'
<1>1. /\ clock < MaxClock /\ clock' = clock + 1
      /\ UNCHANGED <<op, pc, persistEvents, diary, holder, key, answer, renewals, executions, epoch, newer>>
  BY DEF Tick, callVars, countVars, handlerVars
<1>2. LangTypes
  BY DEF LangInv
<1>3. clock' \in 0 .. MaxClock
  BY <1>1, <1>2, LangChainAssumption DEF LangTypes
<1>4. LangTypes'
  BY <1>1, <1>2, <1>3 DEF LangTypes
<1>5. Single(NoClient)
  BY <1>1, <1>4 DEF Single, Keeps
<1> QED BY <1>1, <1>5, ClientAssumption, AsideStays

(* Every step of the LangChain classes keeps their invariant. *)
LEMMA LangStep ==
  ASSUME LangInv, LangNext
  PROVE  LangInv'
<1>1. ASSUME NEW c \in Client, EnterDiary(c) \/ Ask(c) \/ Lookup(c) \/ RecordEvent(c) \/ Reset(c)
      PROVE  LangInv'
  BY <1>1, AnsweredStays, ClaimStays, AskStays, LookupStays, EventStays, ResetStays
<1>2. ASSUME NEW c \in Client, NEW ok \in BOOLEAN, LeaveDiary(c, ok) \/ Told(c, ok)
      PROVE  LangInv'
  BY <1>2, LeaveStays, ToldStays
<1> QED BY <1>1, <1>2, ExpireStays, TickStays DEF LangNext

(* The calls of the LangChain classes are never inside another service. *)
Placed == \A c \in Client : op[c].kind \in LangKinds =>
                              pc[c] \in {"idle", "done", "threw"} \cup LangStages

(* No service leads the calls of another into its own stages. *)
LEMMA PlacedStays ==
  ASSUME Placed, LangTypes, NEW kinds, NEW stages, Moves(kinds, stages),
         \/ stages = LangStages
         \/ kinds \cap LangKinds = {} /\ stages \cap (LangStages \cup {"idle", "done", "threw"}) = {}
  PROVE  Placed'
<1> SUFFICES ASSUME NEW c \in Client, NEW to \in stages \cup {"done", "threw"},
                    pc' = [pc EXCEPT ![c] = to], op' = op,
                    pc[c] \in stages \/ (pc[c] = "idle" /\ op[c].kind \in kinds)
             PROVE  Placed'
  BY DEF Moves, Placed
<1>1. pc'[c] = to /\ \A d \in Client : d # c => pc'[d] = pc[d]
  BY DEF LangTypes
<1>2. \A d \in Client : d # c /\ op[d].kind \in LangKinds => pc'[d] \in {"idle", "done", "threw"} \cup LangStages
  BY <1>1 DEF Placed
<1>3. op[c].kind \in LangKinds => to \in {"idle", "done", "threw"} \cup LangStages
  BY DEF Placed
<1> QED BY <1>1, <1>2, <1>3 DEF Placed

(* The steps of the other services leave the LangChain classes alone. *)
LEMMA OtherServiceStays ==
  ASSUME LangInv, Placed, UNCHANGED langVars, NEW kinds, NEW stages, Moves(kinds, stages),
         kinds \cap LangKinds = {}, stages \cap (LangStages \cup {"idle", "done", "threw"}) = {}
  PROVE  LangInv'
<1>1. /\ op' = op
      /\ UNCHANGED <<persistEvents, diary, holder, key, answer, clock, renewals, executions, epoch, newer>>
  BY DEF Moves, langVars
<1>2. LangTypes
  BY DEF LangInv
<1>3. CASE pc' = pc
  <2>1. LangTypes'
    BY <1>1, <1>2, <1>3 DEF LangTypes
  <2>2. Single(NoClient)
    BY <1>1, <1>3, <2>1 DEF Single, Keeps
  <2> QED BY <1>1, <2>2, ClientAssumption, AsideStays
<1>4. ASSUME NEW c \in Client, NEW to \in stages \cup {"done", "threw"}, pc' = [pc EXCEPT ![c] = to],
             pc[c] \in stages \/ (pc[c] = "idle" /\ op[c].kind \in kinds)
      PROVE  LangInv'
  <2>1. pc'[c] = to /\ LangTypes' /\ to \notin LangStages /\ pc[c] \notin LangStages \cup {"done", "threw"}
    BY <1>1, <1>2, <1>4 DEF LangTypes, LangStages
  <2>2. op[c].kind \notin LangKinds
    BY <1>4 DEF Placed
  <2>3. Single(c)
    BY <1>1, <1>2, <1>4, <2>1 DEF Single, Keeps, Ended, LangTypes
  <2>4. Called(c)'
    BY <1>1, <2>1, <2>2 DEF LangInv, Called, LangStages, AnswerKinds, LangKinds
  <2>5. AnswerOf(c)' /\ PersistOf(c)' /\ ~Answered(c)' /\ pc[c] # "executing"
    BY <1>1, <2>1, <2>2 DEF AnswerOf, PersistOf, EventAnswer, EventStored, Answered, LangKinds, LangStages
  <2> QED BY <1>1, <2>3, <2>4, <2>5, AsideStays
<1> QED BY <1>3, <1>4 DEF Moves

-----------------------------------------------------------------------------
(* The handler's log *)

AnyEvent == {[type |-> calls[c].type, runId |-> calls[c].runId, by |-> c] :
               calls \in Workload, c \in Client}
Kept(s) == IF Len(s) > MaxEvents THEN MaxEvents ELSE Len(s)

(* The latest events are the end of them all. *)
LEMMA LastEventsAre ==
  ASSUME NEW s \in Seq(AnyEvent)
  PROVE  /\ LastEvents(s) \in Seq(AnyEvent) /\ Len(LastEvents(s)) = Kept(s) /\ Kept(s) \in 0 .. Len(s)
         /\ \A p \in 1 .. Kept(s) : LastEvents(s)[p] = s[Len(s) - Kept(s) + p]
<1> DEFINE n == Len(s)
           m == Kept(s)
           l == LastEvents(s)
           from == n - m + 1
<1>1. n \in Nat /\ MaxEvents \in Nat /\ DOMAIN s = 1 .. n
  BY LenProperties, LangChainAssumption
<1>2. m = IF n > MaxEvents THEN MaxEvents ELSE n
  BY DEF Kept
<1>3. l = SubSeq(s, IF n > MaxEvents THEN n - MaxEvents + 1 ELSE 1, n)
  BY DEF LastEvents
<1> HIDE DEF n, l, m
<1>4. m \in Int /\ 0 <= m /\ m <= n /\ n \in Int
  BY <1>1, <1>2
<1>5. from = (IF n > MaxEvents THEN n - MaxEvents + 1 ELSE 1)
  <2>1. CASE n > MaxEvents
    BY <1>1, <1>2, <2>1
  <2>2. CASE ~(n > MaxEvents)
    BY <1>1, <1>2, <2>2
  <2> QED BY <2>1, <2>2
<1>6. from \in 1 .. n + 1 /\ n - from + 1 = m
  BY <1>4
<1>7. \A i \in from .. n : s[i] \in AnyEvent
  <2>1. \A i \in 1 .. n : s[i] \in AnyEvent
    BY ElementOfSeq DEF n
  <2>2. \A i \in from .. n : i \in 1 .. n
    BY <1>4
  <2> QED BY <2>1, <2>2
<1>8. \A p \in 1 .. m : from + p - 1 = n - m + p
  BY <1>4
<1> HIDE DEF from
<1>9. /\ l \in Seq(AnyEvent) /\ Len(l) = (IF from <= n THEN n - from + 1 ELSE 0)
      /\ \A p \in 1 .. n - from + 1 : l[p] = s[from + p - 1]
  <2>1. from \in Int /\ n \in Int
    BY <1>4, <1>6
  <2> QED BY <1>3, <1>5, <1>7, <2>1, SubSeqProperties
<1>10. Len(l) = m
  BY <1>4, <1>6, <1>9
<1>11. \A p \in 1 .. m : l[p] = s[n - m + p]
  BY <1>6, <1>8, <1>9
<1> QED BY <1>4, <1>9, <1>10, <1>11 DEF n, l, m

(* So it does not matter that the code cuts the log at each event. *)
LEMMA LogGrows ==
  ASSUME NEW s \in Seq(AnyEvent), NEW e \in AnyEvent
  PROVE  LastEvents(Append(LastEvents(s), e)) = LastEvents(Append(s, e))
<1> DEFINE l == LastEvents(s)
           a == Append(l, e)
           b == Append(s, e)
           n == Len(s)
           k == Kept(s)
           m == Kept(b)
<1>1. l \in Seq(AnyEvent) /\ Len(l) = k /\ \A q \in 1 .. k : l[q] = s[n - k + q]
  BY LastEventsAre
<1>2. n \in Nat /\ k \in Int /\ 0 <= k /\ k <= n
  BY LenProperties, LastEventsAre
<1>3. /\ b \in Seq(AnyEvent) /\ Len(b) = n + 1 /\ b[n + 1] = e /\ \A q \in 1 .. n : b[q] = s[q]
  BY AppendProperties
<1> HIDE DEF l
<1>4. /\ a \in Seq(AnyEvent) /\ Len(a) = k + 1 /\ a[k + 1] = e /\ \A q \in 1 .. k : a[q] = l[q]
  <2>1. l \in Seq(AnyEvent) /\ Len(l) = k
    BY <1>1
  <2> HIDE DEF k
  <2>2. /\ a \in Seq(AnyEvent) /\ Len(a) = Len(l) + 1 /\ a[Len(l) + 1] = e /\ \A q \in 1 .. Len(l) : a[q] = l[q]
    BY <2>1, AppendProperties
  <2> QED BY <2>1, <2>2
<1>5. Kept(a) = m /\ m \in Int /\ 0 <= m /\ m <= k + 1 /\ m <= n + 1
  <2>1. k = IF n > MaxEvents THEN MaxEvents ELSE n
    BY DEF Kept
  <2>2. m = IF n + 1 > MaxEvents THEN MaxEvents ELSE n + 1
    BY <1>3 DEF Kept
  <2>3. Kept(a) = IF k + 1 > MaxEvents THEN MaxEvents ELSE k + 1
    BY <1>4 DEF Kept
  <2> HIDE DEF k, n, m
  <2> QED BY <1>2, <2>1, <2>2, <2>3, LangChainAssumption
<1> HIDE DEF a, b, n, k, m
<1>6. /\ LastEvents(a) \in Seq(AnyEvent) /\ Len(LastEvents(a)) = m
      /\ \A p \in 1 .. m : LastEvents(a)[p] = a[k + 1 - m + p]
  <2>1. /\ LastEvents(a) \in Seq(AnyEvent) /\ Len(LastEvents(a)) = Kept(a)
        /\ \A p \in 1 .. Kept(a) : LastEvents(a)[p] = a[Len(a) - Kept(a) + p]
    BY <1>4, LastEventsAre
  <2>2. Kept(a) = m /\ Len(a) = k + 1
    BY <1>4, <1>5
  <2>3. ASSUME NEW p \in 1 .. m PROVE LastEvents(a)[p] = a[k + 1 - m + p]
    <3>1. LastEvents(a)[p] = a[Len(a) - Kept(a) + p]
      BY <2>1, <2>2
    <3>2. Len(a) - Kept(a) + p = k + 1 - m + p
      BY <1>2, <1>5, <2>2
    <3> QED BY <3>1, <3>2
  <2> QED BY <2>1, <2>2, <2>3
<1>7. /\ LastEvents(b) \in Seq(AnyEvent) /\ Len(LastEvents(b)) = m
      /\ \A p \in 1 .. m : LastEvents(b)[p] = b[n + 1 - m + p]
  <2>1. /\ LastEvents(b) \in Seq(AnyEvent) /\ Len(LastEvents(b)) = Kept(b)
        /\ \A p \in 1 .. Kept(b) : LastEvents(b)[p] = b[Len(b) - Kept(b) + p]
    BY <1>3, LastEventsAre
  <2>2. Kept(b) = m /\ Len(b) = n + 1
    BY <1>3 DEF m
  <2>3. ASSUME NEW p \in 1 .. m PROVE LastEvents(b)[p] = b[n + 1 - m + p]
    <3>1. LastEvents(b)[p] = b[Len(b) - Kept(b) + p]
      BY <2>1, <2>2
    <3>2. Len(b) - Kept(b) + p = n + 1 - m + p
      BY <1>2, <1>5, <2>2
    <3> QED BY <3>1, <3>2
  <2> QED BY <2>1, <2>2, <2>3
<1>8. ASSUME NEW p \in 1 .. m PROVE a[k + 1 - m + p] = b[n + 1 - m + p]
  <2>1. CASE p = m
    <3>1. k + 1 - m + p = k + 1 /\ n + 1 - m + p = n + 1
      BY <1>2, <1>5, <2>1
    <3> QED BY <1>3, <1>4, <3>1
  <2>2. CASE p # m
    <3> DEFINE q == k + 1 - m + p
    <3>1. q \in 1 .. k /\ n - k + q \in 1 .. n /\ n - k + q = n + 1 - m + p
      BY <1>2, <1>5, <2>2
    <3> HIDE DEF q
    <3>2. a[q] = b[n - k + q]
      BY <1>1, <1>3, <1>4, <3>1
    <3> QED BY <3>1, <3>2 DEF q
  <2> QED BY <2>1, <2>2
<1>9. LastEvents(a) = LastEvents(b)
  BY <1>6, <1>7, <1>8, SeqEqual
<1> QED BY <1>9 DEF a, b, l

(* One more event is counted under its own type. *)
LEMMA CountGrows ==
  ASSUME NEW S, NEW s \in Seq(S), NEW e \in S, NEW t, IsFiniteSet(OfType(s, t))
  PROVE  /\ IsFiniteSet(OfType(Append(s, e), t))
         /\ Cardinality(OfType(Append(s, e), t)) = Cardinality(OfType(s, t)) + (IF e.type = t THEN 1 ELSE 0)
<1> DEFINE b == Append(s, e)
           n == Len(s)
<1>1. n \in Nat /\ DOMAIN s = 1 .. n
  BY LenProperties
<1>2. /\ b \in Seq(S) /\ Len(b) = n + 1 /\ b[n + 1] = e /\ \A q \in 1 .. n : b[q] = s[q]
  BY AppendProperties
<1>3. DOMAIN b = 1 .. n + 1
  BY <1>2, LenProperties
<1> HIDE DEF b, n
<1>4. n + 1 \notin OfType(s, t)
  BY <1>1 DEF OfType
<1>5. CASE e.type = t
  <2>1. OfType(b, t) = OfType(s, t) \cup {n + 1}
    BY <1>1, <1>2, <1>3, <1>5 DEF OfType
  <2> QED BY <1>4, <1>5, <2>1, FS_AddElement DEF b
<1>6. CASE e.type # t
  <2>1. OfType(b, t) = OfType(s, t)
    BY <1>1, <1>2, <1>3, <1>6 DEF OfType
  <2>2. Cardinality(OfType(s, t)) \in Nat
    BY FS_CardinalityType
  <2> QED BY <1>6, <2>1, <2>2 DEF b
<1> QED BY <1>5, <1>6

(* The log is the end of what came in, and each counter counts it all. *)
HandlerInv ==
  /\ op \in Workload /\ since \in Seq(AnyEvent) /\ eventLog = LastEvents(since)
  /\ stats \in [CountedTypes -> Nat]
  /\ \A t \in CountedTypes : /\ IsFiniteSet(OfType(since, t))
                             /\ stats[t] = Cardinality(OfType(since, t))

(* Of no events there is no log and no count. *)
LEMMA NothingCameIn ==
  ASSUME NEW t
  PROVE  /\ <<>> \in Seq(AnyEvent) /\ LastEvents(<<>>) = <<>>
         /\ IsFiniteSet(OfType(<<>>, t)) /\ Cardinality(OfType(<<>>, t)) = 0
<1>1. <<>> \in Seq(AnyEvent) /\ Len(<<>>) = 0 /\ DOMAIN <<>> = {}
  OBVIOUS
<1>2. PICK s : s = <<>>
  OBVIOUS
<1>3. Kept(s) = 0
  <2>1. s \in Seq(AnyEvent) /\ Len(s) = 0
    BY <1>1, <1>2
  <2> QED BY <2>1, LangChainAssumption DEF Kept
<1>4. LastEvents(s) \in Seq(AnyEvent) /\ Len(LastEvents(s)) = 0
  BY <1>1, <1>2, <1>3, LastEventsAre
<1>5. LastEvents(s) = <<>>
  BY <1>4, EmptySeq
<1>6. OfType(<<>>, t) = {}
  BY <1>1 DEF OfType
<1> QED BY <1>1, <1>2, <1>5, <1>6, FS_EmptySet

(* Callbacks and resets keep the log and its counters. *)
LEMMA HandlerStep ==
  ASSUME HandlerInv, op' = op,
         \/ UNCHANGED handlerVars
         \/ \E c \in Client : RecordEvent(c) \/ Reset(c)
  PROVE  HandlerInv'
<1>1. CASE UNCHANGED handlerVars
  BY <1>1 DEF handlerVars, HandlerInv, OfType
<1>2. ASSUME NEW c \in Client, Reset(c) PROVE HandlerInv'
  <2>1. eventLog' = <<>> /\ stats' = NoCounts /\ since' = <<>>
    BY <1>2 DEF Reset
  <2> QED BY <2>1, NothingCameIn DEF HandlerInv, NoCounts
<1>3. ASSUME NEW c \in Client, RecordEvent(c) PROVE HandlerInv'
  <2> DEFINE e == EventOf(c)
  <2>1. /\ stats' = IF e.type \in CountedTypes THEN [stats EXCEPT ![e.type] = @ + 1] ELSE stats
        /\ eventLog' = LastEvents(Append(eventLog, e)) /\ since' = Append(since, e)
    BY <1>3 DEF RecordEvent, EventOf
  <2>2. e \in AnyEvent
    BY DEF HandlerInv, AnyEvent, EventOf
  <2> HIDE DEF e
  <2>3. PICK s \in Seq(AnyEvent) : s = since
    BY DEF HandlerInv
  <2>4. since' \in Seq(AnyEvent) /\ eventLog' = LastEvents(since')
    BY <2>1, <2>2, <2>3, LogGrows, AppendProperties DEF HandlerInv
  <2>5. ASSUME NEW t \in CountedTypes
        PROVE  IsFiniteSet(OfType(since, t))' /\ stats'[t] = Cardinality(OfType(since, t))'
    <3>1. IsFiniteSet(OfType(s, t)) /\ stats[t] = Cardinality(OfType(s, t)) /\ stats[t] \in Nat
      BY <2>3 DEF HandlerInv
    <3>2. stats'[t] = stats[t] + (IF e.type = t THEN 1 ELSE 0)
      BY <2>1, <3>1 DEF HandlerInv
    <3>3. OfType(since, t)' = OfType(Append(s, e), t)
      BY <2>1, <2>3 DEF OfType
    <3> QED BY <2>2, <3>1, <3>2, <3>3, CountGrows
  <2>6. stats' \in [CountedTypes -> Nat]
    BY <2>1 DEF HandlerInv
  <2> QED BY <2>4, <2>5, <2>6 DEF HandlerInv
<1> QED BY <1>1, <1>2, <1>3

(* What the services next to the LangChain classes leave. *)
LangAllInv == LangInv /\ Placed /\ HandlerInv

(* At first nobody has called, and the diary and the log are empty. *)
LEMMA LangInitInv == Init => LangAllInv
<1> SUFFICES ASSUME Init PROVE LangAllInv
  OBVIOUS
<1>1. op \in Workload /\ pc = [c \in Client |-> "idle"] /\ LangInit
  BY DEF Init
<1>2. diary = <<>> /\ holder = NoClient /\ eventLog = <<>> /\ stats = NoCounts /\ since = <<>>
  BY <1>1 DEF LangInit
<1>3. LangTypes
  BY <1>1, LangChainAssumption DEF LangInit, LangTypes
<1>4. OneForKey(diary) /\ Len(diary) = 0 /\ DOMAIN diary = {} /\ \A k : ~Alive(diary, k)
  BY <1>2 DEF OneForKey, Alive
<1>5. RecordsInv
  BY <1>2, <1>4, ClientAssumption, LangChainAssumption DEF RecordsInv
<1>6. CountInv
  BY <1>1, <1>4 DEF LangInit, CountInv
<1>7. \A c \in Client : Called(c) /\ AnswerOf(c) /\ PersistOf(c) /\ ~Answered(c)
  BY <1>1, <1>2, ClientAssumption
     DEF Called, AnswerOf, PersistOf, EventAnswer, EventStored, Answered, Ended, LangStages
<1>8. LangInv /\ Placed
  BY <1>1, <1>3, <1>5, <1>6, <1>7 DEF LangInv, Agree, Placed
<1>9. HandlerInv
  BY <1>1, <1>2, NothingCameIn DEF HandlerInv, NoCounts
<1> QED BY <1>8, <1>9 DEF LangAllInv

(* Every step of every service keeps it. *)
LEMMA LangAllStep == LangAllInv /\ [Next]_vars => LangAllInv'
<1> SUFFICES ASSUME LangInv, Placed, HandlerInv, [Next]_vars PROVE LangInv' /\ Placed' /\ HandlerInv'
  BY DEF LangAllInv
<1>1. LangTypes
  BY DEF LangInv
<1>2. CASE LangNext
  <2>1. Moves(LangKinds, LangStages) /\ LangInv'
    BY <1>2, LangMoves, LangStep
  <2>2. Placed' /\ op' = op
    BY <1>1, <2>1, PlacedStays DEF Moves
  <2>3. UNCHANGED handlerVars \/ \E c \in Client : RecordEvent(c) \/ Reset(c)
    <3>1. ASSUME NEW c \in Client, EnterDiary(c) \/ Ask(c) \/ Lookup(c) PROVE UNCHANGED handlerVars
      BY <3>1 DEF EnterDiary, Ask, Lookup
    <3>2. ASSUME NEW c \in Client, NEW ok \in BOOLEAN, LeaveDiary(c, ok) \/ Told(c, ok)
          PROVE  UNCHANGED handlerVars
      BY <3>2 DEF LeaveDiary, Told
    <3>3. ASSUME NEW i, ExpireRecord(i) \/ Tick PROVE UNCHANGED handlerVars
      BY <3>3 DEF ExpireRecord, Tick
    <3> QED BY <1>2, <3>1, <3>2, <3>3 DEF LangNext
  <2> QED BY <2>1, <2>2, <2>3, HandlerStep
<1>3. ASSUME NEW kinds, NEW stages, UNCHANGED langVars, Moves(kinds, stages),
             kinds \cap LangKinds = {},
             stages \cap (LangStages \cup {"idle", "done", "threw"}) = {}
      PROVE  LangInv' /\ Placed' /\ HandlerInv'
  <2>1. LangInv' /\ Placed'
    BY <1>1, <1>3, OtherServiceStays, PlacedStays
  <2>2. op' = op /\ UNCHANGED handlerVars
    BY <1>3 DEF Moves, langVars, handlerVars
  <2> QED BY <2>1, <2>2, HandlerStep
<1> USE DEF BusKinds, CacheKinds, ObsKinds, LangKinds, WorkerKinds, PluginKinds,
            ObsStages, LangStages, PluginStages
<1>4. CASE BusNext /\ UNCHANGED langVars
  BY <1>3, <1>4, BusMoves
<1>5. CASE CacheNext /\ UNCHANGED langVars
  BY <1>3, <1>5, CacheMoves
<1>6. CASE LeaseNext /\ UNCHANGED langVars
  BY <1>3, <1>6, LeaseMoves
<1>7. CASE ObsNext /\ UNCHANGED langVars
  BY <1>3, <1>7, ObsMoves
<1>8. CASE PluginNext /\ UNCHANGED langVars
  BY <1>3, <1>8, PluginMoves
<1>9. CASE WorkersNext /\ UNCHANGED langVars
  BY <1>3, <1>9, WorkerMoves
<1>10. CASE UNCHANGED vars
  <2>1. Moves({}, {}) /\ UNCHANGED langVars
    BY <1>10 DEF vars, callVars, Moves
  <2> QED BY <1>3, <2>1
<1> QED BY <1>2, <1>4, <1>5, <1>6, <1>7, <1>8, <1>9, <1>10 DEF Next

(* Whoever is answered for one key gets one value until the record expires *)
(* or is cut off, and the function runs once for it                        *)
(* (AgentDiariesCache.ts, DeduplicatedTool.ts, executeOnce of diary.ts).   *)
THEOREM AnswersTheorem == Spec => []AnswersAgree
<1>1. LangAllInv => AnswersAgree
  <2> SUFFICES ASSUME LangInv PROVE AnswersAgree
    BY DEF LangAllInv
  <2>1. LangTypes
    BY DEF LangInv
  <2>2. ASSUME NEW k \in LangKey PROVE executions[k] <= renewals[k] + 1
    <3>1. executions[k] = renewals[k] + (IF Alive(diary, k) THEN 1 ELSE 0) /\ renewals[k] \in Nat
      BY <2>1 DEF LangInv, CountInv, LangTypes
    <3> QED BY <3>1
  <2>3. ASSUME NEW c \in Client, Answered(c) PROVE Keyed(c) /\ key[c] = KeyOf[op[c].input]
    BY <2>3 DEF LangInv, Called, Keyed, Answered, Ended, AnswerKinds
  <2>4. ASSUME NEW c \in Client, Answered(c)
        PROVE  KeyOf[op[answer[c]].input] = KeyOf[op[c].input]
    <3>1. key[c] \in LangKey /\ Supplied(answer[c], key[c])
      BY <2>4 DEF LangInv, AnswerOf
    <3>2. PICK v : v = answer[c]
      OBVIOUS
    <3>3. v \in Client /\ op[v].kind \in {"update", "invoke", "callback"} /\ key[v] = key[c] /\ Keyed(v)
      BY <3>1, <3>2 DEF Supplied
    <3>4. key[v] = KeyOf[op[v].input]
      BY <3>1, <3>3 DEF Keyed, AnswerKinds
    <3> QED BY <2>3, <2>4, <3>2, <3>3, <3>4
  <2>5. ASSUME NEW c \in Client, NEW d \in Client, Answered(c), Answered(d),
               KeyOf[op[d].input] = KeyOf[op[c].input], epoch[d] = epoch[c]
        PROVE  answer[d] = answer[c]
    <3>1. key[c] = key[d] /\ Agree(c, d)
      BY <2>3, <2>5 DEF LangInv
    <3> QED BY <2>5, <3>1 DEF Agree
  <2> QED BY <2>2, <2>4, <2>5 DEF AnswersAgree
<1> QED BY <1>1, LangInitInv, LangAllStep, PTL DEF Spec

(* The handler's log and its counters are of what came in; and with        *)
(* persistEvents a returned handler's event, or its twin of the same       *)
(* millisecond, is in the diary, or else the diary is full and all in it   *)
(* is newer: only the oldest are cut off                                   *)
(* (AgentDiariesCallbackHandler.ts:160-192, diary.ts:212-218).             *)
THEOREM EventsTheorem == Spec => []EventsAreKept
<1>1. LangAllInv => EventsAreKept
  <2> SUFFICES ASSUME LangInv, HandlerInv PROVE EventsAreKept
    BY DEF LangAllInv
  <2>1. ASSUME Len(since) <= MaxEvents PROVE eventLog = since
    <3>1. PICK s \in Seq(AnyEvent) : s = since
      BY DEF HandlerInv
    <3>2. Kept(s) = Len(s) /\ Len(s) \in Nat
      BY <2>1, <3>1, LenProperties, LangChainAssumption DEF Kept
    <3>3. /\ LastEvents(s) \in Seq(AnyEvent) /\ Len(LastEvents(s)) = Len(s)
          /\ \A p \in 1 .. Len(s) : LastEvents(s)[p] = s[Len(s) - Len(s) + p]
      BY <3>2, LastEventsAre
    <3>4. \A p \in 1 .. Len(s) : Len(s) - Len(s) + p = p
      BY <3>2
    <3>5. LastEvents(s) = s
      BY <3>3, <3>4, SeqEqual
    <3> QED BY <3>1, <3>5 DEF HandlerInv
  <2>2. ASSUME NEW t \in CountedTypes
        PROVE  /\ GetStats(t) = Cardinality(OfType(since, t))
               /\ Len(since) <= MaxEvents => Cardinality(GetEventsByType(t)) = GetStats(t)
    BY <2>1 DEF HandlerInv, GetStats, GetEventsByType
  <2>3. ASSUME persistEvents, NEW c \in Client, op[c].kind = "callback", pc[c] = "done"
        PROVE  answer[c] \in Client /\ StoredFor(c, answer[c])
    <3>1. Keyed(c) /\ key[c] \notin LangKey
      BY <2>3 DEF LangInv, Called, Keyed
    <3>2. PICK d : d = answer[c]
      OBVIOUS
    <3>3. Supplied(d, key[c])
      BY <2>3, <3>2 DEF LangInv, PersistOf, EventAnswer
    <3>4. /\ d \in Client /\ pc[d] = "done" /\ op[d].kind \in {"update", "invoke", "callback"}
          /\ key[d] = key[c] /\ answer[d] = d /\ Keyed(d)
      BY <3>3 DEF Supplied
    <3>5. op[d].kind = "callback"
      BY <3>1, <3>4 DEF Keyed, AnswerKinds
    <3>6. PICK t, u : key[c] = <<op[c].type, op[c].runId, t>> /\ key[d] = <<op[d].type, op[d].runId, u>>
      BY <2>3, <3>1, <3>4, <3>5 DEF Keyed
    <3>7. op[c].type = op[d].type /\ op[c].runId = op[d].runId
      BY <3>4, <3>6
    <3>8. Twins(c, d)
      BY <2>3, <3>4, <3>5, <3>7 DEF Twins
    <3>9. Persisted(d) \/ CrowdedOut(d)
      BY <2>3, <3>4, <3>5 DEF LangInv, PersistOf, EventStored, KeptFor, Persisted
    <3> QED BY <3>2, <3>4, <3>8, <3>9 DEF StoredFor
  <2> QED BY <2>2, <2>3 DEF HandlerInv, EventsAreKept
<1> QED BY <1>1, LangInitInv, LangAllStep, PTL DEF Spec

-----------------------------------------------------------------------------
(* Traces, timeline and metrics *)

ObsEntry == [type : {calls[c].type : calls \in Workload, c \in Client}, by : Client]

ObsTypes ==
  /\ op \in Workload /\ pc = [c \in Client |-> pc[c]]
  /\ persistence \in {"memory", "bridge"} /\ trace \in TraceRecord \cup {NoTrace}
  /\ lists \in [List -> Seq(ObsEntry)] /\ copy \in [Client -> TraceRecord \cup {NoTrace}]
  /\ seen \in [Client -> [List -> Seq(ObsEntry)]] /\ pushing \in [Client -> SUBSET List]
  /\ done \in [Client -> SUBSET (List \cup {"saving", "closing"})]
  /\ crossed \subseteq List \cup {"trace"}

(* A call has got done what its stage says, and no more; who works on a    *)
(* trace has one.                                                          *)
ObsCalled(c) ==
  /\ pc[c] = "pushing" => /\ op[c].kind = "event" /\ persistence = "bridge"
                          /\ pushing[c] \cap done[c] = {}
  /\ pc[c] \in {"saving", "closing"} => copy[c] \in TraceRecord
  /\ pc[c] \in {"spanOpen", "closing"} => op[c].kind = "span"
  /\ pc[c] = "saving" => op[c].kind \in {"span", "finishTrace"}
  /\ pc[c] = "idle" => done[c] = {}
  /\ pc[c] \in {"saving", "spanOpen", "closing"} => "closing" \notin done[c]
  /\ done[c] \cap {"saving", "closing"} # {} => trace \in TraceRecord

(* Without crossing, the trace has what was done to it, and each list has  *)
(* one entry for each event that ended.                                    *)
TraceKeeps(c) ==
  "trace" \notin crossed =>
    /\ "closing" \in done[c] => trace.spans[c] = "closed"
    /\ "saving" \in done[c] =>
         IF op[c].kind = "span" THEN trace.spans[c] # "none" ELSE trace.status # "active"
ListKeeps(l, t) ==
  l \notin crossed =>
    /\ IsFiniteSet(Recorded(l, t)) /\ IsFiniteSet(EndedEvents(l, t))
    /\ Cardinality(Recorded(l, t)) = Cardinality(EndedEvents(l, t))

ObsInv ==
  /\ ObsTypes /\ (persistence = "memory" => crossed \subseteq {"trace"})
  /\ \A c \in Client : ObsCalled(c) /\ TraceKeeps(c)
  /\ \A l \in List, c \in Client : op[c].kind = "event" => ListKeeps(l, op[c].type)

(* An entry more, and an event more that has it. *)
LEMMA EntryGrows ==
  ASSUME ObsTypes, NEW c \in Client, NEW l \in List, NEW t, op' = op, op[c].kind = "event",
         lists'[l] = With(c, lists[l]), l \notin done[c], l \in done'[c],
         \A d \in Client \ {c} : l \in done'[d] <=> l \in done[d],
         IsFiniteSet(Recorded(l, t)), IsFiniteSet(EndedEvents(l, t)),
         Cardinality(Recorded(l, t)) = Cardinality(EndedEvents(l, t))
  PROVE  ListKeeps(l, t)'
<1> DEFINE e == [type |-> op[c].type, by |-> c]
           ended == EndedEvents(l, t)
<1>1. e \in ObsEntry /\ lists[l] \in Seq(ObsEntry) /\ lists'[l] = Append(lists[l], e) /\ e.type = op[c].type
  BY DEF ObsTypes, ObsEntry, With
<1> HIDE DEF e
<1>2. Recorded(l, t) = OfType(lists[l], t) /\ Recorded(l, t)' = OfType(lists'[l], t)
  BY DEF Recorded, OfType
<1>3. PICK s : s = lists[l]
  OBVIOUS
<1>4. /\ IsFiniteSet(OfType(Append(s, e), t))
      /\ Cardinality(OfType(Append(s, e), t)) = Cardinality(OfType(s, t)) + (IF e.type = t THEN 1 ELSE 0)
  BY <1>1, <1>2, <1>3, CountGrows
<1>5. CASE e.type = t
  <2>1. EndedEvents(l, t)' = ended \cup {c} /\ c \notin ended
    BY <1>1, <1>5 DEF EndedEvents
  <2>2. IsFiniteSet(ended \cup {c}) /\ Cardinality(ended \cup {c}) = Cardinality(ended) + 1
    BY <2>1, FS_AddElement
  <2> QED BY <1>1, <1>2, <1>3, <1>4, <1>5, <2>1, <2>2 DEF ListKeeps
<1>6. CASE e.type # t
  <2>1. EndedEvents(l, t)' = ended
    BY <1>1, <1>6 DEF EndedEvents
  <2>2. Cardinality(ended) \in Nat
    BY FS_CardinalityType
  <2>3. Cardinality(OfType(s, t)) = Cardinality(ended)
    BY <1>2, <1>3
  <2>4. Cardinality(OfType(Append(s, e), t)) = Cardinality(ended)
    BY <1>4, <1>6, <2>2, <2>3
  <2> QED BY <1>1, <1>2, <1>3, <1>4, <2>1, <2>4 DEF ListKeeps
<1> QED BY <1>5, <1>6

(* A list that is left alone agrees with the events it had. *)
LEMMA ListStays ==
  ASSUME NEW l, NEW t, op' = op, lists'[l] = lists[l], ListKeeps(l, t), l \notin crossed' => l \notin crossed,
         \A d \in Client : l \in done'[d] <=> l \in done[d]
  PROVE  ListKeeps(l, t)'
<1>1. Recorded(l, t)' = Recorded(l, t) /\ EndedEvents(l, t)' = EndedEvents(l, t)
  BY DEF Recorded, EndedEvents
<1> QED BY <1>1 DEF ListKeeps

(* An event. *)
LEMMA HappenStays ==
  ASSUME ObsInv, NEW c \in Client, Happen(c)
  PROVE  ObsInv'
<1> DEFINE due == Due(c)
<1>1. /\ pc[c] = "idle" /\ op[c].kind = "event" /\ op' = op
      /\ trace' = IF op[c].type = "WorkflowStarted" /\ trace = NoTrace THEN Active ELSE trace
      /\ UNCHANGED <<persistence, copy, crossed>>
      /\ pc' = [pc EXCEPT ![c] = IF persistence = "memory" THEN "done" ELSE "pushing"]
  BY DEF Happen, Starts, ToPc
<1>2. ObsTypes /\ ObsCalled(c) /\ done[c] = {}
  BY <1>1 DEF ObsInv, ObsCalled
<1>3. trace' \in TraceRecord \cup {NoTrace} /\ (trace \in TraceRecord => trace' \in TraceRecord)
  <2>1. Active \in TraceRecord
    BY DEF Active, TraceRecord
  <2> QED BY <1>1, <1>2, <2>1 DEF ObsTypes
<1>4. /\ pc'[c] = IF persistence = "memory" THEN "done" ELSE "pushing"
      /\ \A d \in Client \ {c} : pc'[d] = pc[d]
  BY <1>1, <1>2 DEF ObsTypes
<1>5. due \subseteq List
  BY DEF Due, List
<1>6. \A l \in List : lists[l] \in Seq(ObsEntry) /\ With(c, lists[l]) \in Seq(ObsEntry)
  <2> SUFFICES ASSUME NEW l \in List PROVE lists[l] \in Seq(ObsEntry) /\ With(c, lists[l]) \in Seq(ObsEntry)
    OBVIOUS
  <2>1. lists[l] \in Seq(ObsEntry) /\ [type |-> op[c].type, by |-> c] \in ObsEntry
    BY <1>2 DEF ObsTypes, ObsEntry
  <2> QED BY <2>1, AppendProperties DEF With
<1> HIDE DEF due
<1>7. CASE persistence = "memory"
  <2>1. /\ lists' = [l \in List |-> IF l \in due THEN With(c, lists[l]) ELSE lists[l]]
        /\ done' = [done EXCEPT ![c] = due] /\ seen' = seen /\ pushing' = pushing
    BY <1>7 DEF Happen, due
  <2>2. done'[c] = due /\ \A d \in Client \ {c} : done'[d] = done[d]
    BY <1>2, <2>1 DEF ObsTypes
  <2>3. ObsTypes'
    <3>1. lists' \in [List -> Seq(ObsEntry)]
      BY <1>6, <2>1
    <3>2. done' \in [Client -> SUBSET (List \cup {"saving", "closing"})] /\ pc' = [d \in Client |-> pc'[d]]
      BY <1>1, <1>2, <1>5, <2>1 DEF ObsTypes
    <3> QED BY <1>1, <1>2, <1>3, <2>1, <3>1, <3>2 DEF ObsTypes
  <2>4. ASSUME NEW d \in Client PROVE ObsCalled(d)' /\ TraceKeeps(d)'
    <3>1. ObsCalled(d) /\ TraceKeeps(d)
      BY DEF ObsInv
    <3>2. CASE d = c
      BY <1>4, <1>5, <1>7, <2>2, <3>2 DEF ObsCalled, TraceKeeps, List
    <3>3. CASE d # c
      <4>1. done'[d] = done[d] /\ pc'[d] = pc[d]
        BY <1>4, <2>2, <3>3
      <4>2. done[d] \cap {"saving", "closing"} # {} => trace' = trace /\ trace \in TraceRecord
        BY <1>1, <3>1, <1>2, NoTraceAssumption DEF ObsCalled
      <4> QED BY <1>1, <1>3, <2>1, <3>1, <4>1, <4>2 DEF ObsCalled, TraceKeeps
    <3> QED BY <3>2, <3>3
  <2>5. ASSUME NEW l \in List, NEW d \in Client, op[d].kind = "event" PROVE ListKeeps(l, op[d].type)'
    <3>1. ListKeeps(l, op[d].type)
      BY <2>5 DEF ObsInv
    <3>2. PICK t : t = op[d].type
      OBVIOUS
    <3>3. l \notin crossed
      BY <1>7 DEF ObsInv, List
    <3>4. CASE l \in due
      <4>1. lists'[l] = With(c, lists[l]) /\ l \in done'[c] /\ l \notin done[c]
        BY <1>2, <2>1, <2>2, <3>4
      <4>2. ListKeeps(l, t)'
        BY <1>1, <1>2, <2>2, <3>1, <3>2, <3>3, <4>1, EntryGrows DEF ListKeeps
      <4> QED BY <1>1, <3>2, <4>2 DEF ListKeeps, Recorded, EndedEvents
    <3>5. CASE l \notin due
      <4>1. lists'[l] = lists[l] /\ \A b \in Client : l \in done'[b] <=> l \in done[b]
        BY <1>2, <2>1, <2>2, <3>5
      <4>2. ListKeeps(l, t)'
        BY <1>1, <3>1, <3>2, <4>1, ListStays
      <4> QED BY <1>1, <3>2, <4>2 DEF ListKeeps, Recorded, EndedEvents
    <3> QED BY <3>4, <3>5
  <2> QED BY <1>1, <2>3, <2>4, <2>5 DEF ObsInv
<1>8. CASE persistence # "memory"
  <2>1. /\ seen' = [seen EXCEPT ![c] = lists] /\ pushing' = [pushing EXCEPT ![c] = due]
        /\ lists' = lists /\ done' = done
    BY <1>8 DEF Happen, due
  <2>2. pushing'[c] = due /\ \A d \in Client \ {c} : pushing'[d] = pushing[d]
    BY <1>2, <2>1 DEF ObsTypes
  <2>3. ObsTypes'
    <3>1. seen' \in [Client -> [List -> Seq(ObsEntry)]] /\ pushing' \in [Client -> SUBSET List]
          /\ pc' = [d \in Client |-> pc'[d]]
      BY <1>1, <1>2, <1>5, <2>1 DEF ObsTypes
    <3> QED BY <1>1, <1>2, <1>3, <2>1, <3>1 DEF ObsTypes
  <2>4. ASSUME NEW d \in Client PROVE ObsCalled(d)' /\ TraceKeeps(d)'
    <3>1. ObsCalled(d) /\ TraceKeeps(d)
      BY DEF ObsInv
    <3>2. done[d] \cap {"saving", "closing"} # {} => trace' = trace /\ trace \in TraceRecord
      BY <1>1, <3>1, <1>2, NoTraceAssumption DEF ObsCalled
    <3>3. TraceKeeps(d)'
      BY <1>1, <2>1, <3>1, <3>2 DEF TraceKeeps
    <3>4. CASE d = c
      <4>1. persistence = "bridge"
        BY <1>2, <1>8 DEF ObsTypes
      <4> QED BY <1>1, <1>2, <1>3, <1>4, <1>8, <2>1, <3>2, <3>3, <3>4, <4>1 DEF ObsCalled
    <3>5. CASE d # c
      BY <1>1, <1>3, <1>4, <2>1, <2>2, <3>1, <3>2, <3>3, <3>5 DEF ObsCalled
    <3> QED BY <3>4, <3>5
  <2>5. ASSUME NEW l \in List, NEW d \in Client, op[d].kind = "event" PROVE ListKeeps(l, op[d].type)'
    <3>1. ListKeeps(l, op[d].type)
      BY <2>5, <1>1 DEF ObsInv
    <3>2. PICK t : t = op[d].type
      OBVIOUS
    <3>3. ListKeeps(l, t)'
      BY <1>1, <2>1, <3>1, <3>2, ListStays
    <3> QED BY <1>1, <3>2, <3>3 DEF ListKeeps, Recorded, EndedEvents
  <2> QED BY <1>1, <2>3, <2>4, <2>5 DEF ObsInv
<1> QED BY <1>7, <1>8

(* The bridge saves a list. *)
LEMMA PushStays ==
  ASSUME ObsInv, NEW c \in Client, NEW l \in List, Push(c, l)
  PROVE  ObsInv'
<1> DEFINE new == With(c, seen[c][l])
<1>1. /\ pc[c] = "pushing" /\ l \in pushing[c] /\ op' = op
      /\ lists' = [lists EXCEPT ![l] = new]
      /\ crossed' = IF seen[c][l] = lists[l] THEN crossed ELSE crossed \cup {l}
      /\ done' = [done EXCEPT ![c] = @ \cup {l}]
      /\ pushing' = [pushing EXCEPT ![c] = @ \ {l}]
      /\ pc' = [pc EXCEPT ![c] = IF pushing[c] = {l} THEN "done" ELSE "pushing"]
      /\ UNCHANGED <<persistence, trace, copy, seen>>
  BY DEF Push, Pushed, ToPc
<1>2. ObsTypes /\ ObsCalled(c)
  BY DEF ObsInv
<1>3. op[c].kind = "event" /\ persistence = "bridge" /\ pushing[c] \cap done[c] = {} /\ l \notin done[c]
  BY <1>1, <1>2 DEF ObsCalled
<1>4. new \in Seq(ObsEntry)
  <2>1. seen[c][l] \in Seq(ObsEntry) /\ [type |-> op[c].type, by |-> c] \in ObsEntry
    BY <1>2 DEF ObsTypes, ObsEntry
  <2> QED BY <2>1, AppendProperties DEF With
<1>5. seen[c][l] = lists[l] => new = With(c, lists[l])
  OBVIOUS
<1> HIDE DEF new
<1>6. /\ done'[c] = done[c] \cup {l} /\ pushing'[c] = pushing[c] \ {l}
      /\ pc'[c] \in {"done", "pushing"}
      /\ lists'[l] = new
      /\ \A d \in Client \ {c} : done'[d] = done[d] /\ pushing'[d] = pushing[d] /\ pc'[d] = pc[d]
      /\ \A k \in List \ {l} : lists'[k] = lists[k]
  BY <1>1, <1>2 DEF ObsTypes
<1>7. ObsTypes'
  <2>1. lists' \in [List -> Seq(ObsEntry)]
    BY <1>1, <1>2, <1>4 DEF ObsTypes
  <2>2. done' \in [Client -> SUBSET (List \cup {"saving", "closing"})] /\ pushing' \in [Client -> SUBSET List]
    BY <1>1, <1>2 DEF ObsTypes
  <2>3. pc' = [d \in Client |-> pc'[d]] /\ crossed' \subseteq List \cup {"trace"}
    BY <1>1, <1>2 DEF ObsTypes
  <2> QED BY <1>1, <1>2, <2>1, <2>2, <2>3 DEF ObsTypes
<1>8. "trace" \notin crossed' => "trace" \notin crossed
  BY <1>1
<1>9. ASSUME NEW d \in Client PROVE ObsCalled(d)' /\ TraceKeeps(d)'
  <2>1. ObsCalled(d) /\ TraceKeeps(d)
    BY DEF ObsInv
  <2>2. l \notin {"saving", "closing"}
    BY DEF List
  <2>3. TraceKeeps(d)'
    <3>1. \A s \in {"saving", "closing"} : s \in done'[d] <=> s \in done[d]
      BY <1>6, <2>2
    <3> QED BY <1>1, <1>8, <2>1, <3>1 DEF TraceKeeps
  <2>4. CASE d = c
    BY <1>1, <1>3, <1>6, <2>1, <2>2, <2>3, <2>4 DEF ObsCalled
  <2>5. CASE d # c
    BY <1>1, <1>6, <2>1, <2>3, <2>5 DEF ObsCalled
  <2> QED BY <2>3, <2>4, <2>5
<1>10. ASSUME NEW k \in List, NEW d \in Client, op[d].kind = "event" PROVE ListKeeps(k, op[d].type)'
  <2>1. ListKeeps(k, op[d].type)
    BY <1>10 DEF ObsInv
  <2>2. PICK t : t = op[d].type
    OBVIOUS
  <2>3. ListKeeps(k, t)'
    <3>1. CASE k = l /\ l \notin crossed'
      <4>1. l \notin crossed /\ lists'[l] = With(c, lists[l])
        BY <1>1, <1>5, <1>6, <3>1
      <4>2. l \in done'[c] /\ \A b \in Client \ {c} : l \in done'[b] <=> l \in done[b]
        BY <1>6
      <4> QED BY <1>1, <1>2, <1>3, <2>1, <2>2, <3>1, <4>1, <4>2, EntryGrows DEF ListKeeps
    <3>2. CASE k \in crossed'
      BY <3>2 DEF ListKeeps
    <3>3. CASE k # l
      <4>1. lists'[k] = lists[k] /\ (k \notin crossed' => k \notin crossed)
            /\ \A b \in Client : k \in done'[b] <=> k \in done[b]
        BY <1>1, <1>6, <3>3
      <4> QED BY <1>1, <2>1, <2>2, <4>1, ListStays
    <3> QED BY <3>1, <3>2, <3>3
  <2> QED BY <1>1, <2>2, <2>3 DEF ListKeeps, Recorded, EndedEvents
<1>11. (persistence = "memory" => crossed \subseteq {"trace"})'
  BY <1>1, <1>3
<1> QED BY <1>1, <1>7, <1>9, <1>10, <1>11 DEF ObsInv

(* The steps on a trace leave the lists alone. *)
LEMMA ListsStay ==
  ASSUME ObsInv, NEW c \in Client, op' = op, lists' = lists,
         \A l \in List : l \notin crossed' => l \notin crossed,
         \A d \in Client, l \in List : l \in done'[d] <=> l \in done[d]
  PROVE  \A l \in List, d \in Client : op'[d].kind = "event" => ListKeeps(l, op[d].type)'
<1> SUFFICES ASSUME NEW l \in List, NEW d \in Client, op[d].kind = "event" PROVE ListKeeps(l, op[d].type)'
  OBVIOUS
<1>1. ListKeeps(l, op[d].type)
  BY DEF ObsInv
<1>2. PICK t : t = op[d].type
  OBVIOUS
<1>3. ListKeeps(l, t)'
  BY <1>1, <1>2, ListStays
<1> QED BY <1>2, <1>3 DEF ListKeeps, Recorded, EndedEvents

(* A trace is read. *)
LEMMA LoadTraceStays ==
  ASSUME ObsInv, NEW c \in Client, LoadTrace(c)
  PROVE  ObsInv'
<1>1. /\ op' = op /\ UNCHANGED <<persistence, trace, lists, seen, pushing, done, crossed>>
      /\ \/ pc[c] = "idle" /\ op[c].kind \in {"span", "finishTrace"}
         \/ pc[c] = "spanOpen"
  BY DEF LoadTrace, Starts, ToPc
<1>2. ObsTypes /\ ObsCalled(c)
  BY DEF ObsInv
<1>3. \/ pc' = [pc EXCEPT ![c] = "done"] /\ copy' = copy
      \/ /\ trace \in TraceRecord /\ copy' = [copy EXCEPT ![c] = trace]
         /\ pc' = [pc EXCEPT ![c] = IF pc[c] = "spanOpen" THEN "closing" ELSE "saving"]
  BY <1>2 DEF LoadTrace, ToPc, ObsTypes
<1>4. ObsTypes'
  <2>1. copy' \in [Client -> TraceRecord \cup {NoTrace}] /\ pc' = [d \in Client |-> pc'[d]]
    BY <1>2, <1>3 DEF ObsTypes
  <2> QED BY <1>1, <1>2, <2>1 DEF ObsTypes
<1>5. ASSUME NEW d \in Client PROVE ObsCalled(d)'
  <2>1. ObsCalled(d)
    BY DEF ObsInv
  <2>2. CASE d = c
    BY <1>1, <1>2, <1>3, <2>1, <2>2 DEF ObsCalled, ObsTypes
  <2>3. CASE d # c
    <3>1. pc'[d] = pc[d] /\ copy'[d] = copy[d]
      BY <1>2, <1>3, <2>3 DEF ObsTypes
    <3> QED BY <1>1, <2>1, <3>1 DEF ObsCalled
  <2> QED BY <2>2, <2>3
<1>6. ASSUME NEW d \in Client PROVE TraceKeeps(d)'
  BY <1>1 DEF ObsInv, TraceKeeps
<1>7. \A l \in List, d \in Client : op'[d].kind = "event" => ListKeeps(l, op[d].type)'
  BY <1>1, ListsStay
<1>8. (persistence = "memory" => crossed \subseteq {"trace"})'
  BY <1>1 DEF ObsInv
<1> QED BY <1>1, <1>4, <1>5, <1>6, <1>7, <1>8 DEF ObsInv

(* A trace is saved. *)
LEMMA SaveTraceStays ==
  ASSUME ObsInv, NEW c \in Client, SaveTrace(c)
  PROVE  ObsInv'
<1>1. /\ pc[c] \in {"saving", "closing"} /\ op' = op
      /\ copy' = [copy EXCEPT ![c] = NoTrace]
      /\ pc' = [pc EXCEPT ![c] = IF op[c].kind = "span" /\ pc[c] = "saving" THEN "spanOpen" ELSE "done"]
      /\ UNCHANGED <<persistence, lists, seen, pushing>>
  BY DEF SaveTrace, ToPc
<1>2. ObsTypes /\ ObsCalled(c)
  BY DEF ObsInv
<1>3. /\ copy[c] \in TraceRecord /\ op[c].kind \in {"span", "finishTrace"}
      /\ pc[c] = "closing" => op[c].kind = "span"
      /\ "closing" \notin done[c]
  BY <1>1, <1>2 DEF ObsCalled
<1>4. op[c].kind = "finishTrace" => op[c].status \in {"completed", "failed"}
  BY <1>2, ServicesAssumption DEF ObsTypes
<1> DEFINE new == Revised(c)
<1>5. /\ new \in TraceRecord
      /\ \A d \in Client \ {c} : new.spans[d] = copy[c].spans[d]
      /\ op[c].kind = "finishTrace" => new.spans = copy[c].spans /\ new.status # "active"
      /\ op[c].kind = "span" => new.status = copy[c].status
      /\ op[c].kind = "span" => new.spans[c] = (IF pc[c] = "saving" THEN "open" ELSE "closed")
  BY <1>3, <1>4 DEF Revised, TraceRecord
<1> HIDE DEF new
<1>6. \/ /\ trace' = new /\ done' = [done EXCEPT ![c] = @ \cup {pc[c]}]
         /\ crossed' = IF trace = copy[c] THEN crossed ELSE crossed \cup {"trace"}
      \/ pc[c] = "closing" /\ UNCHANGED <<trace, done, crossed>>
  BY <1>1 DEF SaveTrace, Found, new
<1>7. /\ copy' \in [Client -> TraceRecord \cup {NoTrace}] /\ pc' = [d \in Client |-> pc'[d]]
      /\ done' \in [Client -> SUBSET (List \cup {"saving", "closing"})]
      /\ crossed' \subseteq List \cup {"trace"} /\ trace' \in TraceRecord \cup {NoTrace}
  <2>1. copy' \in [Client -> TraceRecord \cup {NoTrace}] /\ pc' = [d \in Client |-> pc'[d]]
    BY <1>1, <1>2 DEF ObsTypes
  <2>2. done' \in [Client -> SUBSET (List \cup {"saving", "closing"})]
    <3>1. done \in [Client -> SUBSET (List \cup {"saving", "closing"})]
      BY <1>2 DEF ObsTypes
    <3>2. done[c] \cup {pc[c]} \in SUBSET (List \cup {"saving", "closing"})
      BY <1>1, <3>1
    <3> QED BY <1>6, <3>1, <3>2
  <2>3. crossed' \subseteq List \cup {"trace"} /\ trace' \in TraceRecord \cup {NoTrace}
    BY <1>2, <1>5, <1>6 DEF ObsTypes
  <2> QED BY <2>1, <2>2, <2>3
<1>8. ObsTypes'
  BY <1>1, <1>2, <1>7 DEF ObsTypes
<1>9. /\ pc'[c] = IF op[c].kind = "span" /\ pc[c] = "saving" THEN "spanOpen" ELSE "done"
      /\ \A d \in Client \ {c} : pc'[d] = pc[d] /\ done'[d] = done[d] /\ copy'[d] = copy[d]
      /\ done'[c] \in {done[c], done[c] \cup {pc[c]}}
  BY <1>1, <1>2, <1>6 DEF ObsTypes
<1>10. trace \in TraceRecord => trace' \in TraceRecord
  BY <1>5, <1>6
<1>11. done'[c] = done[c] \/ trace' \in TraceRecord
  BY <1>5, <1>6
<1>12. ASSUME NEW d \in Client PROVE ObsCalled(d)'
  <2>1. ObsCalled(d)
    BY DEF ObsInv
  <2>2. CASE d = c
    <3>1. pc'[c] = "spanOpen" => "closing" \notin done'[c] /\ op[c].kind = "span"
      BY <1>3, <1>9
    <3>2. done'[c] \cap {"saving", "closing"} # {} => trace' \in TraceRecord
      BY <1>2, <1>10, <1>11 DEF ObsCalled
    <3>3. pc'[c] \in {"spanOpen", "done"}
      BY <1>9
    <3> QED BY <1>1, <2>2, <3>1, <3>2, <3>3 DEF ObsCalled
  <2>3. CASE d # c
    BY <1>1, <1>9, <1>10, <2>1, <2>3 DEF ObsCalled
  <2> QED BY <2>2, <2>3
<1>13. ASSUME NEW d \in Client PROVE TraceKeeps(d)'
  <2>1. TraceKeeps(d) /\ TraceKeeps(c)
    BY DEF ObsInv
  <2>2. CASE UNCHANGED <<trace, done, crossed>>
    BY <1>1, <2>1, <2>2 DEF TraceKeeps
  <2>3. CASE /\ trace' = new /\ done' = [done EXCEPT ![c] = @ \cup {pc[c]}]
             /\ crossed' = IF trace = copy[c] THEN crossed ELSE crossed \cup {"trace"}
    <3> SUFFICES ASSUME "trace" \notin crossed'
                 PROVE  TraceKeeps(d)'
      BY DEF TraceKeeps
    <3>1. trace = copy[c] /\ "trace" \notin crossed
      BY <2>3
    <3>2. CASE d = c
      <4>1. done'[c] = done[c] \cup {pc[c]}
        BY <1>2, <2>3 DEF ObsTypes
      <4>2. "closing" \in done'[c] => trace'.spans[c] = "closed"
        BY <1>1, <1>3, <1>5, <2>3, <4>1
      <4>3. op[c].kind = "span" => trace'.spans[c] # "none"
        BY <1>5, <2>3
      <4>4. op[c].kind # "span" => trace'.status # "active"
        BY <1>3, <1>5, <2>3
      <4> QED BY <1>1, <3>2, <4>2, <4>3, <4>4 DEF TraceKeeps
    <3>3. CASE d # c
      <4>1. trace'.spans[d] = trace.spans[d] /\ done'[d] = done[d]
        BY <1>5, <1>9, <2>3, <3>1, <3>3
      <4>2. trace.status # "active" => trace'.status # "active"
        BY <1>3, <1>5, <2>3, <3>1
      <4> QED BY <1>1, <2>1, <3>1, <4>1, <4>2 DEF TraceKeeps
    <3> QED BY <3>2, <3>3
  <2> QED BY <1>6, <2>2, <2>3
<1>14. \A l \in List : l \notin {"saving", "closing", "trace"}
  BY DEF List
<1>15. \A l \in List, d \in Client : op'[d].kind = "event" => ListKeeps(l, op[d].type)'
  <2>1. \A l \in List : l \notin crossed' => l \notin crossed
    BY <1>6
  <2>2. \A d \in Client, l \in List : l \in done'[d] <=> l \in done[d]
    BY <1>1, <1>9, <1>14
  <2> QED BY <1>1, <2>1, <2>2, ListsStay
<1>16. (persistence = "memory" => crossed \subseteq {"trace"})'
  BY <1>1, <1>6 DEF ObsInv
<1> QED BY <1>1, <1>8, <1>12, <1>13, <1>15, <1>16 DEF ObsInv

(* The calls of the other services. *)
LEMMA ObsStays ==
  ASSUME ObsInv, UNCHANGED obsVars, NEW kinds, NEW stages, Moves(kinds, stages),
         stages \cap (ObsStages \cup {"idle"}) = {}
  PROVE  ObsInv'
<1>1. op' = op /\ UNCHANGED <<persistence, trace, lists, copy, seen, pushing, done, crossed>>
  BY DEF obsVars, Moves
<1>2. ObsTypes
  BY DEF ObsInv
<1>3. /\ pc' = [d \in Client |-> pc'[d]]
      /\ \A d \in Client : pc'[d] = pc[d] \/ pc'[d] \notin ObsStages \cup {"idle"}
  BY <1>2 DEF Moves, ObsTypes, ObsStages
<1>4. ObsTypes'
  BY <1>1, <1>2, <1>3 DEF ObsTypes
<1>5. ASSUME NEW d \in Client PROVE ObsCalled(d)' /\ TraceKeeps(d)'
  <2>1. ObsCalled(d) /\ TraceKeeps(d)
    BY DEF ObsInv
  <2>2. TraceKeeps(d)'
    BY <1>1, <2>1 DEF TraceKeeps
  <2>3. CASE pc'[d] = pc[d]
    BY <1>1, <2>1, <2>2, <2>3 DEF ObsCalled
  <2>4. CASE pc'[d] \notin ObsStages \cup {"idle"}
    <3>1. done[d] \cap {"saving", "closing"} # {} => trace \in TraceRecord
      BY <2>1 DEF ObsCalled
    <3>2. pc'[d] \notin {"pushing", "spanOpen", "saving", "closing", "idle"}
      BY <2>4 DEF ObsStages
    <3> QED BY <1>1, <2>2, <3>1, <3>2 DEF ObsCalled
  <2> QED BY <1>3, <2>3, <2>4
<1>6. \A l \in List, d \in Client : op'[d].kind = "event" => ListKeeps(l, op[d].type)'
  <2> SUFFICES ASSUME NEW l \in List, NEW d \in Client, op[d].kind = "event" PROVE ListKeeps(l, op[d].type)'
    BY <1>1
  <2>1. ListKeeps(l, op[d].type)
    BY DEF ObsInv
  <2> QED BY <1>1, <2>1 DEF ListKeeps, Recorded, EndedEvents
<1> QED BY <1>1, <1>4, <1>5, <1>6 DEF ObsInv

(* What is recorded stays recorded unless saves crossed                    *)
(* (TracingService.ts, TimelineService.ts, MetricsEngine.ts,               *)
(* LegacyStorageBridge.ts).                                                *)
THEOREM TracesTheorem == Spec => []NothingIsLost
<1>1. Init => ObsInv
  <2> SUFFICES ASSUME Init PROVE ObsInv
    OBVIOUS
  <2>1. op \in Workload /\ pc = [c \in Client |-> "idle"] /\ ObsInit
    BY DEF Init
  <2>2. \A l \in List : EmptyLists[l] = <<>> /\ EmptyLists \in [List -> Seq(ObsEntry)]
    BY EmptySeq DEF EmptyLists
  <2>3. ObsTypes
    BY <2>1, <2>2 DEF ObsInit, ObsTypes, ProviderOf, EmptyLists
  <2>4. \A c \in Client : ObsCalled(c) /\ TraceKeeps(c)
    BY <2>1 DEF ObsInit, ObsCalled, TraceKeeps
  <2>5. ASSUME NEW l \in List, NEW t PROVE ListKeeps(l, t)
    <3>1. Recorded(l, t) = {} /\ EndedEvents(l, t) = {}
      BY <2>1, <2>2 DEF ObsInit, Recorded, EndedEvents
    <3> QED BY <3>1, FS_EmptySet DEF ListKeeps
  <2> QED BY <2>1, <2>3, <2>4, <2>5 DEF ObsInv, ObsInit
<1>2. ObsInv /\ [Next]_vars => ObsInv'
  <2> SUFFICES ASSUME ObsInv, [Next]_vars PROVE ObsInv'
    OBVIOUS
  <2>1. CASE ObsNext
    BY <2>1, HappenStays, PushStays, LoadTraceStays, SaveTraceStays DEF ObsNext
  <2>2. ASSUME NEW kinds, NEW stages, UNCHANGED obsVars, Moves(kinds, stages),
               stages \cap (ObsStages \cup {"idle"}) = {}
        PROVE  ObsInv'
    BY <2>2, ObsStays
  <2> USE DEF ObsStages, LangStages, PluginStages
  <2>3. CASE BusNext /\ UNCHANGED obsVars
    BY <2>2, <2>3, BusMoves
  <2>4. CASE CacheNext /\ UNCHANGED obsVars
    BY <2>2, <2>4, CacheMoves
  <2>5. CASE LeaseNext /\ UNCHANGED obsVars
    BY <2>2, <2>5, LeaseMoves
  <2>6. CASE LangNext /\ UNCHANGED obsVars
    BY <2>2, <2>6, LangMoves
  <2>7. CASE PluginNext /\ UNCHANGED obsVars
    BY <2>2, <2>7, PluginMoves
  <2>8. CASE WorkersNext /\ UNCHANGED obsVars
    BY <2>2, <2>8, WorkerMoves
  <2>9. CASE UNCHANGED vars
    <3>1. Moves({}, {}) /\ UNCHANGED obsVars
      BY <2>9 DEF vars, callVars, Moves
    <3> QED BY <2>2, <3>1
  <2> QED BY <2>1, <2>3, <2>4, <2>5, <2>6, <2>7, <2>8, <2>9 DEF Next
<1>3. ObsInv => NothingIsLost
  <2> SUFFICES ASSUME ObsInv PROVE NothingIsLost
    OBVIOUS
  <2>1. \A c \in Client : TraceKeeps(c)
    BY DEF ObsInv
  <2>2. ASSUME NEW l \in List \ crossed, NEW c \in Client, op[c].kind = "event"
        PROVE  Cardinality(Recorded(l, op[c].type)) = Cardinality(EndedEvents(l, op[c].type))
    BY <2>2 DEF ObsInv, ListKeeps
  <2> QED BY <2>1, <2>2 DEF ObsInv, TraceKeeps, NothingIsLost
<1> QED BY <1>1, <1>2, <1>3, PTL DEF Spec

-----------------------------------------------------------------------------
(* The event bus *)

(* A Set of handlers, in the order of subscription. *)
Listed(hs) == hs \in Seq(Handler) /\ IsInjective(hs)

(* Emissions that are calling their handlers, innermost first. *)
Emissions(s) ==
  /\ s \in Seq(Seq(Handler))
  /\ \A i \in 1 .. Len(s) : Listed(s[i]) /\ s[i] # <<>>

(* The emissions that have still to call a handler, counted from the       *)
(* outermost, so that neither the beginning nor the end of one renumbers   *)
(* the others.                                                             *)
Depths(s, h) == {d \in 1 .. Len(s) : h \in Range(s[Len(s) + 1 - d])}

(* The call that will subscribe a one-time handler. *)
Brings(c) == pc[c] = "idle" /\ op[c].kind = "on" /\ op[c].handler \in OnceHandler

(* Who was chosen by an emission has been called by it or is ahead of it.  *)
(* A one-time handler that was called is off the list; it was chosen once, *)
(* or by nested emissions.                                                 *)
BusInv ==
  /\ op \in Workload /\ pc = [c \in Client |-> pc[c]]
  /\ Listed(handlers) /\ Emissions(stack)
  /\ runs \in [Handler -> Nat] /\ owed \in [Handler -> Nat]
  /\ \A h \in Handler : runs[h] + Cardinality(Depths(stack, h)) = owed[h]
  /\ \A h \in OnceHandler : h \in Range(handlers) => runs[h] = 0
  /\ \A h \in OnceHandler \ nested : owed[h] <= 1
  /\ \A c \in Client : Brings(c) => op[c].handler \notin Range(handlers) /\ owed[op[c].handler] = 0

(* Removing a handler from the list. *)
LEMMA OffIs ==
  ASSUME NEW hs, Listed(hs), NEW h
  PROVE  Listed(RemoveFirst(hs, h)) /\ Range(RemoveFirst(hs, h)) = Range(hs) \ {h}
<1>1. hs \in Seq(Handler) /\ DOMAIN hs = 1 .. Len(hs) /\ Len(hs) \in Nat
  BY DEF Listed
<1>2. CASE ~\E i \in 1 .. Len(hs) : hs[i] = h
  BY <1>1, <1>2 DEF RemoveFirst, Range
<1>3. CASE \E i \in 1 .. Len(hs) : hs[i] = h
  <2>1. PICK i \in 1 .. Len(hs) : hs[i] = h
    BY <1>3
  <2>2. \A j \in 1 .. Len(hs) : hs[j] = h <=> j = i
    BY <1>1, <2>1 DEF Listed, IsInjective
  <2>3. {j \in 1 .. Len(hs) : hs[j] = h} = {i}
    BY <2>2
  <2>4. SelectInSeq(hs, LAMBDA v : v = h) = i
    BY <2>3 DEF SelectInSeq, Min
  <2>5. PICK r : r = RemoveAt(hs, i)
    OBVIOUS
  <2>6. RemoveFirst(hs, h) = r
    BY <2>1, <2>4, <2>5 DEF RemoveFirst
  <2>7. r \in Seq(Handler) /\ Len(r) = Len(hs) - 1
    BY <1>1, <2>1, <2>5, Removed
  <2>8. \A k \in 1 .. Len(hs) - 1 : r[k] = IF k < i THEN hs[k] ELSE hs[k + 1]
    BY <1>1, <2>1, <2>5, Removed
  <2>9. DOMAIN r = 1 .. Len(hs) - 1
    BY <1>1, <2>7
  <2>10. IsInjective(r)
    <3>1. \A a, b \in 1 .. Len(hs) : hs[a] = hs[b] => a = b
      BY <1>1 DEF Listed, IsInjective
    <3>2. ASSUME NEW a \in 1 .. Len(hs) - 1, NEW b \in 1 .. Len(hs) - 1, r[a] = r[b] PROVE a = b
      BY <1>1, <2>1, <2>8, <3>1, <3>2
    <3> QED
      BY <2>9, <3>2 DEF IsInjective
  <2>11. ASSUME NEW g \in Range(r) PROVE g \in Range(hs) \ {h}
    <3>1. PICK k \in 1 .. Len(hs) - 1 : r[k] = g
      BY <2>9 DEF Range
    <3>2. PICK j \in 1 .. Len(hs) : hs[j] = g /\ j # i
      BY <1>1, <2>1, <2>8, <3>1
    <3> QED
      BY <1>1, <2>2, <3>2 DEF Range
  <2>12. ASSUME NEW g \in Range(hs) \ {h} PROVE g \in Range(r)
    <3>1. PICK j \in 1 .. Len(hs) : hs[j] = g
      BY <1>1 DEF Range
    <3>2. j # i
      BY <2>1, <3>1
    <3>3. PICK k \in 1 .. Len(hs) - 1 : k = IF j < i THEN j ELSE j - 1
      BY <1>1, <2>1, <3>2
    <3>4. r[k] = g
      BY <1>1, <2>1, <2>8, <3>1, <3>2, <3>3
    <3> QED
      BY <2>9, <3>4 DEF Range
  <2> QED
    BY <2>6, <2>7, <2>10, <2>11, <2>12 DEF Listed
<1> QED
  BY <1>2, <1>3

(* Adding one at its end. *)
LEMMA OnIs ==
  ASSUME NEW hs, Listed(hs), NEW h \in Handler, h \notin Range(hs)
  PROVE  Listed(Append(hs, h)) /\ Range(Append(hs, h)) = Range(hs) \cup {h}
<1>1. hs \in Seq(Handler) /\ DOMAIN hs = 1 .. Len(hs) /\ Len(hs) \in Nat
  BY DEF Listed
<1>2. PICK r : r = Append(hs, h)
  OBVIOUS
<1>3. r \in Seq(Handler) /\ Len(r) = Len(hs) + 1 /\ DOMAIN r = 1 .. Len(hs) + 1
  BY <1>1, <1>2
<1>4. \A k \in 1 .. Len(hs) : r[k] = hs[k]
  BY <1>1, <1>2
<1>5. r[Len(hs) + 1] = h
  BY <1>1, <1>2
<1>6. \A k \in 1 .. Len(hs) + 1 : k = Len(hs) + 1 \/ k \in 1 .. Len(hs)
  BY <1>1
<1>7. IsInjective(r)
  BY <1>1, <1>3, <1>4, <1>5, <1>6 DEF Listed, IsInjective, Range
<1>8. Range(r) = Range(hs) \cup {h}
  BY <1>1, <1>3, <1>4, <1>5, <1>6 DEF Range
<1> QED
  BY <1>2, <1>3, <1>7, <1>8 DEF Listed

(* The emissions that have still to call a handler are finitely many. *)
LEMMA DepthsFinite ==
  ASSUME NEW s, Emissions(s), NEW h
  PROVE  IsFiniteSet(Depths(s, h)) /\ Cardinality(Depths(s, h)) \in Nat
<1>1. Len(s) \in Nat /\ Depths(s, h) \in SUBSET (1 .. Len(s))
  BY DEF Emissions, Depths
<1>2. IsFiniteSet(1 .. Len(s))
  BY <1>1, FS_Interval
<1> QED
  BY <1>1, <1>2, FS_Subset, FS_CardinalityType

(* The emissions t are those of s, in which a handler of hs has one more.  *)
PushedFor(s, hs, t, h) ==
  Depths(t, h) = Depths(s, h) \cup (IF h \in Range(hs) THEN {Len(s) + 1} ELSE {})

(* An emission begins: it has to call all that are listed. *)
LEMMA PushIs ==
  ASSUME NEW s, Emissions(s), NEW hs, Listed(hs),
         NEW t, t = (IF hs = <<>> THEN <<>> ELSE <<hs>>) \o s
  PROVE  Emissions(t) /\ \A h \in Handler : PushedFor(s, hs, t, h)
<1>1. s \in Seq(Seq(Handler)) /\ Len(s) \in Nat /\ hs \in Seq(Handler)
  BY DEF Emissions, Listed
<1>2. CASE hs = <<>>
  <2>1. t = s /\ Range(hs) = {}
    BY <1>1, <1>2 DEF Range
  <2> QED
    BY <2>1 DEF PushedFor
<1>3. CASE hs # <<>>
  <2>1. t = <<hs>> \o s /\ t \in Seq(Seq(Handler)) /\ Len(t) = Len(s) + 1
    BY <1>1, <1>3
  <2>2. t[1] = hs
    BY <1>1, <2>1
  <2>3. \A i \in 1 .. Len(s) : t[i + 1] = s[i]
    BY <1>1, <2>1
  <2>4. ASSUME NEW i \in 1 .. Len(t) PROVE Listed(t[i]) /\ t[i] # <<>>
    <3>1. i = 1 \/ (i - 1 \in 1 .. Len(s) /\ i - 1 + 1 = i)
      BY <1>1, <2>1
    <3> QED
      BY <1>3, <2>2, <2>3, <3>1 DEF Emissions
  <2>5. ASSUME NEW h \in Handler
        PROVE  PushedFor(s, hs, t, h)
    <3>1. \A d \in 1 .. Len(s) : t[Len(t) + 1 - d] = s[Len(s) + 1 - d]
      <4>1. ASSUME NEW d \in 1 .. Len(s) PROVE t[Len(t) + 1 - d] = s[Len(s) + 1 - d]
        <5>1. Len(s) + 1 - d \in 1 .. Len(s) /\ Len(t) + 1 - d = (Len(s) + 1 - d) + 1
          BY <1>1, <2>1
        <5> QED
          BY <2>3, <5>1
      <4> QED
        BY <4>1
    <3>2. t[Len(t) + 1 - (Len(s) + 1)] = hs
      <4>2. Len(t) = Len(s) + 1 /\ Len(s) \in Nat
        BY <1>1, <2>1
      <4>3. PICK n \in Nat : n = Len(s)
        BY <4>2
      <4>4. PICK m \in Nat : m = Len(t)
        BY <4>2
      <4>5. m = n + 1
        BY <4>2, <4>3, <4>4
      <4>1. m + 1 - (n + 1) = 1
        BY <4>5
      <4> QED
        BY <2>2, <4>1, <4>3, <4>4
    <3>3. 1 .. Len(t) = (1 .. Len(s)) \cup {Len(s) + 1}
      BY <1>1, <2>1
    <3> QED
      BY <3>1, <3>2, <3>3 DEF Depths, PushedFor
  <2> QED
    BY <2>1, <2>4, <2>5 DEF Emissions
<1> QED
  BY <1>2, <1>3

(* A handler is entered: the innermost emission is past it, and ends with  *)
(* its last one.                                                           *)
LEMMA LeftIs ==
  ASSUME BusInv, stack # <<>>, NEW h, h = Head(stack[1])
  PROVE  /\ h \in Handler /\ Emissions(Left) /\ h \in Range(stack[1])
         /\ \A g \in Handler : Depths(Left, g) = Depths(stack, g) \ (IF g = h THEN {Len(stack)} ELSE {})
         /\ Len(stack) \in Depths(stack, h)
<1>1. stack \in Seq(Seq(Handler)) /\ Len(stack) \in Nat /\ Len(stack) >= 1
  BY DEF BusInv, Emissions
<1>2. PICK hs : hs = stack[1]
  OBVIOUS
<1>3. Listed(hs) /\ hs # <<>>
  <2>1. 1 \in 1 .. Len(stack)
    BY <1>1
  <2> QED
    BY <1>2, <2>1 DEF BusInv, Emissions
<1>4. hs \in Seq(Handler) /\ DOMAIN hs = 1 .. Len(hs) /\ Len(hs) \in Nat /\ Len(hs) >= 1
  BY <1>3 DEF Listed
<1>5. h = hs[1] /\ h \in Handler /\ h \in Range(hs)
  BY <1>2, <1>4 DEF Range
<1>6. PICK r : r = Tail(hs)
  OBVIOUS
<1>7. r \in Seq(Handler) /\ Len(r) = Len(hs) - 1 /\ DOMAIN r = 1 .. Len(hs) - 1
  BY <1>4, <1>6
<1>8. \A k \in 1 .. Len(hs) - 1 : r[k] = hs[k + 1]
  BY <1>4, <1>6
<1>9. \A a, b \in 1 .. Len(hs) : hs[a] = hs[b] => a = b
  BY <1>3, <1>4 DEF Listed, IsInjective
<1>10. Listed(r)
  <2>1. ASSUME NEW a \in 1 .. Len(hs) - 1, NEW b \in 1 .. Len(hs) - 1, r[a] = r[b] PROVE a = b
    BY <1>4, <1>8, <1>9, <2>1
  <2> QED
    BY <1>7, <2>1 DEF Listed, IsInjective
<1>11. Range(r) = Range(hs) \ {h}
  <2>1. ASSUME NEW g \in Range(r) PROVE g \in Range(hs) \ {h}
    <3>1. PICK k \in 1 .. Len(hs) - 1 : r[k] = g
      BY <1>7 DEF Range
    <3>2. k + 1 \in 1 .. Len(hs) /\ hs[k + 1] = g /\ k + 1 # 1
      BY <1>4, <1>8, <3>1
    <3> QED
      BY <1>4, <1>5, <1>9, <3>2 DEF Range
  <2>2. ASSUME NEW g \in Range(hs) \ {h} PROVE g \in Range(r)
    <3>1. PICK j \in 1 .. Len(hs) : hs[j] = g
      BY <1>4 DEF Range
    <3>2. j - 1 \in 1 .. Len(hs) - 1 /\ j - 1 + 1 = j
      BY <1>4, <1>5, <3>1, <2>2
    <3>3. r[j - 1] = g
      BY <1>8, <3>1, <3>2
    <3> QED
      BY <1>7, <3>2, <3>3 DEF Range
  <2> QED
    BY <2>1, <2>2
<1>12. PICK rest : rest = Tail(stack)
  OBVIOUS
<1>13. rest \in Seq(Seq(Handler)) /\ Len(rest) = Len(stack) - 1
  BY <1>1, <1>12
<1>14. \A i \in 1 .. Len(stack) - 1 : rest[i] = stack[i + 1]
  BY <1>1, <1>12
<1>15. Emissions(rest)
  <2>1. \A i \in 1 .. Len(stack) - 1 : i + 1 \in 1 .. Len(stack)
    BY <1>1
  <2> QED
    BY <1>13, <1>14, <2>1 DEF Emissions, BusInv
<1>16. \A g : Depths(rest, g) = Depths(stack, g) \ {Len(stack)}
  <2>1. ASSUME NEW d \in 1 .. Len(stack) - 1
        PROVE  rest[Len(rest) + 1 - d] = stack[Len(stack) + 1 - d]
    <3>1. Len(rest) + 1 - d \in 1 .. Len(stack) - 1
      BY <1>1, <1>13
    <3>2. Len(stack) + 1 - d = (Len(rest) + 1 - d) + 1
      BY <1>1, <1>13
    <3> QED
      BY <1>14, <3>1, <3>2
  <2>2. 1 .. Len(rest) = (1 .. Len(stack)) \ {Len(stack)} /\ 1 .. Len(rest) = 1 .. Len(stack) - 1
    BY <1>1, <1>13
  <2>3. Len(stack) \in Nat /\ Len(rest) \in Nat
    BY <1>1, <1>13
  <2>4. ASSUME NEW g, NEW d
        PROVE  d \in Depths(rest, g) <=> d \in Depths(stack, g) \ {Len(stack)}
    <3>1. CASE d \in 1 .. Len(stack) - 1
      BY <2>1, <2>2, <3>1 DEF Depths
    <3>2. CASE d \notin 1 .. Len(stack) - 1
      BY <2>2, <3>2 DEF Depths
    <3> QED
      BY <3>1, <3>2
  <2> QED
    BY <2>4
<1>17. Len(stack) + 1 - Len(stack) = 1 /\ Len(stack) \in 1 .. Len(stack)
  BY <1>1
<1>18. Len(stack) \in Depths(stack, h)
  BY <1>2, <1>5, <1>17 DEF Depths
<1>19. Left = (IF r = <<>> THEN <<>> ELSE <<r>>) \o rest
  <2>1. Len(hs) = 1 <=> r = <<>>
    BY <1>4, <1>7
  <2> QED
    BY <1>2, <1>6, <1>12, <2>1 DEF Left
<1>20. PICK s : s = Left
  OBVIOUS
<1>25. s = (IF r = <<>> THEN <<>> ELSE <<r>>) \o rest
  BY <1>19, <1>20
<1>26. Emissions(s)
  BY <1>10, <1>15, <1>25, PushIs
<1>27. \A g \in Handler : PushedFor(rest, r, s, g)
  BY <1>10, <1>15, <1>25, PushIs
<1>21. \A g \in Handler : Depths(Left, g) = Depths(rest, g) \cup (IF g \in Range(r) THEN {Len(rest) + 1} ELSE {})
  BY <1>20, <1>27 DEF PushedFor
<1>22. Len(rest) + 1 = Len(stack)
  BY <1>1, <1>13
<1>23. \A g : Len(stack) \in Depths(stack, g) <=> g \in Range(hs)
  BY <1>2, <1>17 DEF Depths
<1>24. ASSUME NEW g \in Handler
       PROVE  Depths(Left, g) = Depths(stack, g) \ (IF g = h THEN {Len(stack)} ELSE {})
  <2>1. CASE g = h
    BY <1>11, <1>16, <1>21, <2>1
  <2>2. CASE g # h
    BY <1>11, <1>16, <1>21, <1>22, <1>23, <2>2
  <2> QED
    BY <2>1, <2>2
<1> QED
  BY <1>2, <1>5, <1>18, <1>20, <1>24, <1>26

(* Who is subscribed when a handler has been entered. *)
LEMMA AsCalledIs ==
  ASSUME Listed(handlers), NEW h
  PROVE  /\ Listed(AsCalled(h)) /\ Range(AsCalled(h)) \subseteq Range(handlers)
         /\ h \in OnceHandler => h \notin Range(AsCalled(h))
BY OffIs DEF AsCalled, Off

(* The entered handler has been called once more, and is awaited by one    *)
(* emission less.                                                          *)
LEMMA EnteredIs ==
  ASSUME BusInv, NEW h \in Handler, Enter(h)
  PROVE  /\ op' = op /\ pc' = pc /\ runs' \in [Handler -> Nat] /\ Emissions(Left)
         /\ \A g \in Handler : g # h => runs'[g] = runs[g]
         /\ \A g \in Handler : runs'[g] + Cardinality(Depths(Left, g)) = owed[g]
         /\ owed[h] >= 1
<1>1. stack # <<>> /\ h = Head(stack[1]) /\ op' = op /\ pc' = pc
  BY DEF Enter, callVars
<1>2. /\ Emissions(Left) /\ Len(stack) \in Depths(stack, h)
      /\ \A g \in Handler : Depths(Left, g) = Depths(stack, g) \ (IF g = h THEN {Len(stack)} ELSE {})
  BY <1>1, LeftIs
<1>3. runs' = [runs EXCEPT ![h] = runs[h] + 1] /\ runs \in [Handler -> Nat] /\ owed \in [Handler -> Nat]
  BY DEF Enter, BusInv
<1>4. \A g \in Handler : runs[g] + Cardinality(Depths(stack, g)) = owed[g]
  BY DEF BusInv
<1>5. PICK D : D = Depths(stack, h)
  OBVIOUS
<1>6. IsFiniteSet(D) /\ Cardinality(D) \in Nat
  BY <1>5, DepthsFinite DEF BusInv
<1>7. Cardinality(D \ {Len(stack)}) = Cardinality(D) - 1
  BY <1>2, <1>5, <1>6, FS_RemoveElement
<1>8. Depths(Left, h) = D \ {Len(stack)}
  BY <1>2, <1>5
<1>9. Cardinality(D \ {Len(stack)}) \in Nat
  BY <1>2, <1>8, DepthsFinite
<1>10. runs'[h] + Cardinality(Depths(Left, h)) = owed[h] /\ owed[h] >= 1
  <2>1. runs'[h] = runs[h] + 1 /\ runs[h] \in Nat
    BY <1>3
  <2>2. runs[h] + Cardinality(D) = owed[h]
    BY <1>4, <1>5
  <2> QED
    BY <1>6, <1>7, <1>8, <1>9, <2>1, <2>2
<1>11. \A g \in Handler : g # h => runs'[g] = runs[g]
  BY <1>3
<1>12. ASSUME NEW g \in Handler PROVE runs'[g] + Cardinality(Depths(Left, g)) = owed[g]
  <2>1. CASE g = h
    BY <1>10, <2>1
  <2>2. CASE g # h
    <3>1. Depths(Left, g) = Depths(stack, g)
      BY <1>2, <2>2
    <3> QED
      BY <1>4, <1>11, <2>2, <3>1
  <2> QED
    BY <2>1, <2>2
<1>13. runs' \in [Handler -> Nat]
  BY <1>3
<1> QED
  BY <1>1, <1>2, <1>10, <1>11, <1>12, <1>13

(* A handler runs, and may change the subscriptions: of one-time handlers  *)
(* it subscribes none.                                                     *)
LEMMA CalledKeeps ==
  ASSUME BusInv, NEW h \in Handler, Enter(h), stack' = Left, owed' = owed, nested' = nested,
         Listed(handlers'), OnceHandler \cap Range(handlers') \subseteq Range(AsCalled(h))
  PROVE  BusInv'
<1>1. /\ op' = op /\ pc' = pc /\ runs' \in [Handler -> Nat] /\ Emissions(Left)
      /\ \A g \in Handler : g # h => runs'[g] = runs[g]
  BY EnteredIs
<1>2. \A g \in Handler : runs'[g] + Cardinality(Depths(Left, g)) = owed[g]
  BY EnteredIs
<1>3. OnceHandler \subseteq Handler
  BY BusAssumption
<1>4. ASSUME NEW g \in OnceHandler, g \in Range(handlers') PROVE g # h /\ g \in Range(handlers)
  BY <1>4, AsCalledIs DEF BusInv
<1>5. \A g \in OnceHandler : g \in Range(handlers') => runs'[g] = 0
  BY <1>1, <1>3, <1>4 DEF BusInv
<1>6. \A c \in Client : Brings(c)' => op[c].handler \notin Range(handlers') /\ owed'[op[c].handler] = 0
  BY <1>1, <1>4 DEF BusInv, Brings
<1>7. \A g \in Handler : runs'[g] + Cardinality(Depths(stack', g)) = owed'[g]
  BY <1>2
<1>8. op' \in Workload /\ pc' = [c \in Client |-> pc'[c]] /\ owed' \in [Handler -> Nat]
  BY <1>1 DEF BusInv
<1>9. \A g \in OnceHandler \ nested' : owed'[g] <= 1
  BY DEF BusInv
<1> QED
  BY <1>1, <1>5, <1>6, <1>7, <1>8, <1>9 DEF BusInv, Depths, Emissions, Listed

(* What an emission does to what is owed. *)
LEMMA ChosenIs ==
  ASSUME NEW hs, Chosen(hs), owed \in [Handler -> Nat]
  PROVE  /\ owed' \in [Handler -> Nat]
         /\ \A g \in Handler : owed'[g] = owed[g] + (IF g \in Range(hs) THEN 1 ELSE 0)
BY DEF Chosen

(* As many of t as of s have to call a handler, and one if it is in hs.    *)
CountedFor(s, hs, t, g) ==
  Cardinality(Depths(t, g)) = Cardinality(Depths(s, g)) + (IF g \in Range(hs) THEN 1 ELSE 0)

(* An emission begins above s. *)
LEMMA PushedCounts ==
  ASSUME NEW s, Emissions(s), NEW hs, Listed(hs), NEW t,
         t = (IF hs = <<>> THEN <<>> ELSE <<hs>>) \o s, NEW g \in Handler
  PROVE  CountedFor(s, hs, t, g)
<1>1. PushedFor(s, hs, t, g)
  BY PushIs
<1>2. IsFiniteSet(Depths(s, g)) /\ Cardinality(Depths(s, g)) \in Nat
  BY DepthsFinite
<1>3. Len(s) + 1 \notin Depths(s, g)
  BY DEF Depths, Emissions
<1>4. CASE g \in Range(hs)
  <2>1. Depths(t, g) = Depths(s, g) \cup {Len(s) + 1}
    BY <1>1, <1>4 DEF PushedFor
  <2>2. Cardinality(Depths(s, g) \cup {Len(s) + 1}) = Cardinality(Depths(s, g)) + 1
    BY <1>2, <1>3, FS_AddElement
  <2> QED
    BY <1>4, <2>1, <2>2 DEF CountedFor
<1>5. CASE g \notin Range(hs)
  <2>1. Depths(t, g) = Depths(s, g)
    BY <1>1, <1>5 DEF PushedFor
  <2> QED
    BY <1>2, <1>5, <2>1 DEF CountedFor
<1> QED
  BY <1>4, <1>5 DEF CountedFor

(* An emission begins above those of s, with the handlers hs that are      *)
(* subscribed then: who is chosen once more was not chosen before, unless  *)
(* nested emissions have chosen it.                                        *)
LEMMA EmissionKeeps ==
  ASSUME BusInv, op' = op, pc' = [c \in Client |-> pc'[c]],
         \A c \in Client : pc'[c] = "idle" => pc[c] = "idle",
         NEW s, Emissions(s), NEW hs, Listed(hs), handlers' = hs,
         stack' = (IF hs = <<>> THEN <<>> ELSE <<hs>>) \o s, Chosen(hs),
         runs' \in [Handler -> Nat],
         \A g \in Handler : runs'[g] + Cardinality(Depths(s, g)) = owed[g],
         OnceHandler \cap Range(hs) \subseteq Range(handlers),
         \A g \in OnceHandler : g \in Range(hs) => runs'[g] = 0,
         nested \subseteq nested',
         \A g \in OnceHandler \ nested' : g \in Range(hs) => Depths(s, g) = {}
  PROVE  BusInv'
<1>1. OnceHandler \subseteq Handler /\ owed \in [Handler -> Nat]
  BY BusAssumption DEF BusInv
<1>2. /\ owed' \in [Handler -> Nat]
      /\ \A g \in Handler : owed'[g] = owed[g] + (IF g \in Range(hs) THEN 1 ELSE 0)
  BY <1>1, ChosenIs
<1>3. PICK t : t = stack'
  OBVIOUS
<1>4. t = (IF hs = <<>> THEN <<>> ELSE <<hs>>) \o s
  BY <1>3
<1>5. Emissions(t)
  BY <1>4, PushIs
<1>6. ASSUME NEW g \in Handler PROVE runs'[g] + Cardinality(Depths(t, g)) = owed'[g]
  <2>1. CountedFor(s, hs, t, g)
    BY <1>4, PushedCounts
  <2>2. Cardinality(Depths(s, g)) \in Nat /\ runs'[g] \in Nat
    BY DepthsFinite
  <2> QED
    BY <1>2, <2>1, <2>2 DEF CountedFor
<1>7. ASSUME NEW g \in OnceHandler \ nested' PROVE owed'[g] <= 1
  <2>1. owed[g] <= 1 /\ owed[g] \in Nat
    BY <1>1 DEF BusInv
  <2>2. CASE g \notin Range(hs)
    BY <1>1, <1>2, <2>1, <2>2
  <2>3. CASE g \in Range(hs)
    <3>1. Depths(s, g) = {}
      BY <2>3
    <3>5. runs'[g] = 0
      BY <2>3
    <3>2. Cardinality(Depths(s, g)) = 0
      BY <3>1, FS_EmptySet
    <3>4. g \in Handler /\ runs'[g] + Cardinality(Depths(s, g)) = owed[g]
      BY <1>1
    <3>6. PICK n : n = Cardinality(Depths(s, g))
      OBVIOUS
    <3>7. n = 0 /\ runs'[g] + n = owed[g]
      BY <3>2, <3>4, <3>6
    <3>3. owed[g] = 0
      BY <3>5, <3>7
    <3>8. owed'[g] = owed[g] + 1
      BY <1>2, <2>3, <3>4
    <3> QED
      BY <3>3, <3>8
  <2> QED
    BY <2>2, <2>3
<1>8. ASSUME NEW c \in Client, Brings(c)'
      PROVE  op[c].handler \notin Range(hs) /\ owed'[op[c].handler] = 0
  <2>1. Brings(c)
    BY <1>8 DEF Brings
  <2>2. op[c].handler \notin Range(handlers) /\ owed[op[c].handler] = 0 /\ op[c].handler \in OnceHandler
    BY <2>1 DEF BusInv, Brings
  <2>3. op[c].handler \notin Range(hs)
    BY <2>2
  <2> QED
    BY <1>1, <1>2, <2>2, <2>3
<1>9. Emissions(stack') /\ \A g \in Handler : runs'[g] + Cardinality(Depths(stack', g)) = owed'[g]
  BY <1>3, <1>5, <1>6
<1>10. op' \in Workload
  BY DEF BusInv
<1> QED
  BY <1>2, <1>7, <1>8, <1>9, <1>10 DEF BusInv, Depths, Emissions, Listed

(* A handler runs and emits the event itself. *)
LEMMA EmitInsideKeeps ==
  ASSUME BusInv, NEW h \in Handler, EmitInside(h)
  PROVE  BusInv'
<1>1. Enter(h) /\ Listed(handlers)
  BY DEF EmitInside, BusInv
<1>2. /\ op' = op /\ pc' = pc /\ runs' \in [Handler -> Nat] /\ Emissions(Left)
      /\ \A g \in Handler : g # h => runs'[g] = runs[g]
      /\ \A g \in Handler : runs'[g] + Cardinality(Depths(Left, g)) = owed[g]
  BY <1>1, EnteredIs
<1>3. PICK hs : hs = AsCalled(h)
  OBVIOUS
<1>4. Listed(hs) /\ Range(hs) \subseteq Range(handlers) /\ (h \in OnceHandler => h \notin Range(hs))
  BY <1>1, <1>3, AsCalledIs
<1>5. PICK s : s = Left
  OBVIOUS
<1>6. /\ handlers' = hs /\ Chosen(hs)
      /\ stack' = (IF hs = <<>> THEN <<>> ELSE <<hs>>) \o s
      /\ nested' = nested \cup (OnceHandler \cap Range(hs) \cap UNION {Range(s[i]) : i \in DOMAIN s})
  BY <1>3, <1>5 DEF EmitInside
<1>7. Emissions(s) /\ \A g \in Handler : runs'[g] + Cardinality(Depths(s, g)) = owed[g]
  BY <1>2, <1>5
<1>8. \A g \in OnceHandler : g \in Range(hs) => runs'[g] = 0
  <2>1. ASSUME NEW g \in OnceHandler, g \in Range(hs) PROVE runs'[g] = 0
    <3>1. g # h /\ g \in Range(handlers) /\ g \in Handler
      BY <1>4, <2>1, BusAssumption
    <3> QED
      BY <1>2, <3>1 DEF BusInv
  <2> QED
    BY <2>1
<1>9. ASSUME NEW g \in OnceHandler \ nested', g \in Range(hs) PROVE Depths(s, g) = {}
  <2>1. \A i \in DOMAIN s : g \notin Range(s[i])
    BY <1>6, <1>9
  <2>2. \A d \in 1 .. Len(s) : Len(s) + 1 - d \in DOMAIN s
    BY <1>7 DEF Emissions
  <2> QED
    BY <2>1, <2>2 DEF Depths
<1>10. pc' = [c \in Client |-> pc'[c]] /\ \A c \in Client : pc'[c] = "idle" => pc[c] = "idle"
  BY <1>2 DEF BusInv
<1>11. nested \subseteq nested' /\ OnceHandler \cap Range(hs) \subseteq Range(handlers)
  BY <1>4, <1>6
<1> QED
  BY <1>2, <1>4, <1>6, <1>7, <1>8, <1>9, <1>10, <1>11, EmissionKeeps

(* A client emits the event. *)
LEMMA EmitKeeps ==
  ASSUME BusInv, NEW c \in Client, Emit(c)
  PROVE  BusInv'
<1>1. /\ op' = op /\ pc' = [pc EXCEPT ![c] = "emitting"] /\ stack = <<>> /\ runs' = runs
      /\ handlers' = handlers /\ nested' = nested /\ Chosen(handlers)
      /\ stack' = IF handlers = <<>> THEN <<>> ELSE <<handlers>>
  BY DEF Emit, ToPc
<1>2. PICK hs : hs = handlers
  OBVIOUS
<1>3. Listed(hs) /\ hs \in Seq(Handler)
  BY <1>2 DEF BusInv, Listed
<1>4. PICK s : s = stack
  OBVIOUS
<1>5. Emissions(s) /\ s = <<>>
  BY <1>1, <1>4 DEF BusInv
<1>6. stack' = (IF hs = <<>> THEN <<>> ELSE <<hs>>) \o s
  <2>1. <<>> \o <<>> = <<>> /\ <<hs>> \o <<>> = <<hs>>
    BY <1>3
  <2> QED
    BY <1>1, <1>2, <1>5, <2>1
<1>7. handlers' = hs /\ Chosen(hs) /\ runs' \in [Handler -> Nat]
  BY <1>1, <1>2 DEF BusInv
<1>8. \A g \in Handler : runs'[g] + Cardinality(Depths(s, g)) = owed[g]
  BY <1>1, <1>4 DEF BusInv
<1>9. \A g \in OnceHandler : g \in Range(hs) => runs'[g] = 0
  BY <1>1, <1>2 DEF BusInv
<1>10. \A g : Depths(s, g) = {}
  BY <1>5 DEF Depths
<1>11. pc' = [d \in Client |-> pc'[d]] /\ \A d \in Client : pc'[d] = "idle" => pc[d] = "idle"
  BY <1>1 DEF BusInv
<1>12. OnceHandler \cap Range(hs) \subseteq Range(handlers) /\ nested \subseteq nested'
  BY <1>1, <1>2
<1> QED
  BY <1>1, <1>3, <1>5, <1>6, <1>7, <1>8, <1>9, <1>10, <1>11, <1>12, EmissionKeeps

(* A client subscribes, unsubscribes or clears: nobody is being called. *)
LEMMA SubscribeKeeps ==
  ASSUME BusInv, NEW c \in Client, Subscribe(c)
  PROVE  BusInv'
<1>1. /\ op' = op /\ pc[c] = "idle" /\ pc' = [pc EXCEPT ![c] = "done"]
      /\ UNCHANGED <<stack, runs, owed, nested>>
  BY DEF Subscribe, ToPc, Starts
<1>2. op \in Workload /\ Listed(handlers) /\ pc = [d \in Client |-> pc[d]]
  BY DEF BusInv
<1>3. op[c].kind \in {"on", "off"} => op[c].handler \in Handler
  BY <1>2, ServicesAssumption
<1>4. \A d \in Client : Brings(d)' => Brings(d) /\ d # c
  BY <1>1, <1>2 DEF Brings
<1>5. ASSUME Listed(handlers'), OnceHandler \cap Range(handlers') \subseteq Range(handlers)
      PROVE  BusInv'
  <2>1. \A h \in OnceHandler : h \in Range(handlers') => runs'[h] = 0
    BY <1>1, <1>5 DEF BusInv
  <2>2. \A d \in Client : Brings(d)' => op[d].handler \notin Range(handlers') /\ owed'[op[d].handler] = 0
    BY <1>1, <1>4, <1>5 DEF BusInv, Brings
  <2>3. pc' = [d \in Client |-> pc'[d]]
    BY <1>1, <1>2
  <2> QED
    BY <1>1, <1>5, <2>1, <2>2, <2>3 DEF BusInv, Depths, Emissions, Listed
<1>6. CASE handlers' = handlers
  BY <1>2, <1>5, <1>6 DEF Listed
<1>7. CASE handlers' = <<>>
  <2>1. Listed(<<>>) /\ Range(<<>>) = {}
    BY DEF Listed, IsInjective, Range
  <2> QED
    BY <1>5, <1>7, <2>1 DEF Listed
<1>8. CASE handlers' = Off(op[c].handler)
  <2>1. Listed(Off(op[c].handler)) /\ Range(Off(op[c].handler)) \subseteq Range(handlers)
    BY <1>2, OffIs DEF Off
  <2> QED
    BY <1>5, <1>8, <2>1 DEF Listed
<1>9. ASSUME Starts(c, "on"), op[c].handler \notin Range(handlers),
             handlers' = Append(handlers, op[c].handler)
      PROVE  BusInv'
  <2>1. PICK h \in Handler : h = op[c].handler
    BY <1>3, <1>9 DEF Starts
  <2>2. PICK hs : hs = handlers'
    OBVIOUS
  <2>3. hs = Append(handlers, h) /\ h \notin Range(handlers)
    BY <1>9, <2>1, <2>2
  <2>4. Listed(hs) /\ Range(hs) = Range(handlers) \cup {h}
    BY <1>2, <2>3, OnIs
  <2>5. CASE h \notin OnceHandler
    BY <1>5, <2>2, <2>4, <2>5 DEF Listed
  <2>6. CASE h \in OnceHandler
    <3>1. owed[h] = 0
      BY <1>9, <2>1, <2>6 DEF BusInv, Brings, Starts
    <3>2. runs[h] = 0
      <4>1. Cardinality(Depths(stack, h)) \in Nat /\ runs[h] \in Nat
        BY DepthsFinite DEF BusInv
      <4>2. runs[h] + Cardinality(Depths(stack, h)) = owed[h]
        BY DEF BusInv
      <4> QED
        BY <3>1, <4>1, <4>2
    <3>3. \A g \in OnceHandler : g \in Range(hs) => runs[g] = 0
      BY <2>4, <3>2 DEF BusInv
    <3>4. ASSUME NEW d \in Client, Brings(d)'
          PROVE  op[d].handler \notin Range(hs) /\ owed[op[d].handler] = 0
      <4>1. Brings(d) /\ d # c
        BY <1>4, <3>4
      <4>2. op[d].handler # h
        BY <1>2, <1>9, <2>1, <2>6, <4>1, ServicesAssumption DEF Brings, IsNew, Starts
      <4>3. op[d].handler \notin Range(handlers) /\ owed[op[d].handler] = 0
        BY <4>1 DEF BusInv
      <4> QED
        BY <2>4, <4>2, <4>3
    <3>5. pc' = [d \in Client |-> pc'[d]]
      BY <1>1, <1>2
    <3>6. Listed(handlers') /\ \A g \in OnceHandler : g \in Range(handlers') => runs'[g] = 0
      BY <1>1, <2>2, <2>4, <3>3
    <3>7. \A d \in Client : Brings(d)' => op'[d].handler \notin Range(handlers') /\ owed'[op'[d].handler] = 0
      BY <1>1, <2>2, <3>4
    <3> QED
      BY <1>1, <3>5, <3>6, <3>7 DEF BusInv, Depths, Emissions, Listed
  <2> QED
    BY <2>5, <2>6
<1> QED
  BY <1>6, <1>7, <1>8, <1>9 DEF Subscribe, On

(* Every step of the bus keeps the invariant (EventBus.ts:26-100). *)
LEMMA BusStep == BusInv /\ BusNext => BusInv'
<1> SUFFICES ASSUME BusInv, BusNext PROVE BusInv'
  OBVIOUS
<1>1. ASSUME NEW h \in Handler, Quietly(h) PROVE BusInv'
  <2>1. Listed(AsCalled(h)) /\ Listed(handlers)
    BY AsCalledIs DEF BusInv
  <2>2. /\ Enter(h) /\ stack' = Left /\ owed' = owed /\ nested' = nested /\ handlers' = AsCalled(h)
    BY <1>1 DEF Quietly
  <2>3. Listed(handlers') /\ OnceHandler \cap Range(handlers') \subseteq Range(AsCalled(h))
    BY <2>1, <2>2 DEF Listed
  <2> QED
    BY <2>2, <2>3, CalledKeeps
<1>2. ASSUME NEW h \in Handler, Resubscribe(h) PROVE BusInv'
  <2>1. PICK hs : hs = AsCalled(h)
    OBVIOUS
  <2>2. Listed(hs)
    BY <2>1, AsCalledIs DEF BusInv
  <2>3. /\ Enter(h) /\ stack' = Left /\ owed' = owed /\ nested' = nested /\ handlers' \in Changed(hs)
    BY <1>2, <2>1 DEF Resubscribe
  <2>4. PICK new \in Changed(hs) : new = handlers'
    BY <2>3
  <2>8. Listed(new) /\ OnceHandler \cap Range(new) \subseteq Range(hs)
    <3>1. Listed(<<>>) /\ Range(<<>>) = {}
      BY DEF Listed, IsInjective, Range
    <3>2. ASSUME new = <<>> PROVE Listed(new) /\ OnceHandler \cap Range(new) \subseteq Range(hs)
      BY <3>1, <3>2
    <3>3. ASSUME NEW g \in Range(hs), new = RemoveFirst(hs, g)
          PROVE Listed(new) /\ OnceHandler \cap Range(new) \subseteq Range(hs)
      BY <2>2, <3>3, OffIs
    <3>4. ASSUME NEW g \in Handler \ (OnceHandler \cup Range(hs)), new = Append(hs, g)
          PROVE Listed(new) /\ OnceHandler \cap Range(new) \subseteq Range(hs)
      BY <2>2, <3>4, OnIs
    <3> QED
      BY <3>2, <3>3, <3>4 DEF Changed
  <2>9. Listed(handlers') /\ OnceHandler \cap Range(handlers') \subseteq Range(AsCalled(h))
    BY <2>1, <2>4, <2>8
  <2> QED
    BY <2>3, <2>9, CalledKeeps
<1>3. ASSUME NEW c \in Client, Settle(c) PROVE BusInv'
  <2>1. /\ op' = op /\ UNCHANGED <<handlers, stack, runs, owed, nested>>
        /\ pc' = pc \/ pc' = [pc EXCEPT ![c] = "done"]
    BY <1>3 DEF Settle, ToPc, callVars
  <2>2. pc' = [d \in Client |-> pc'[d]] /\ \A d \in Client : Brings(d)' => Brings(d)
    BY <2>1 DEF BusInv, Brings
  <2> QED
    BY <2>1, <2>2 DEF BusInv, Depths, Emissions, Listed
<1> QED
  BY <1>1, <1>2, <1>3, EmitInsideKeeps, EmitKeeps, SubscribeKeeps DEF BusNext

(* The other services neither subscribe nor emit. *)
LEMMA BusStays ==
  ASSUME BusInv, UNCHANGED busVars, NEW kinds, NEW stages, "idle" \notin stages, Moves(kinds, stages)
  PROVE  BusInv'
<1>1. op' = op /\ UNCHANGED <<handlers, stack, runs, owed, nested>>
  BY DEF busVars, Moves
<1>2. pc = [d \in Client |-> pc[d]]
  BY DEF BusInv
<1>3. pc' = [d \in Client |-> pc'[d]] /\ \A d \in Client : pc'[d] = "idle" => pc[d] = "idle"
  BY <1>2 DEF Moves
<1>4. \A d \in Client : Brings(d)' => Brings(d)
  BY <1>1, <1>3 DEF Brings
<1> QED
  BY <1>1, <1>3, <1>4 DEF BusInv, Depths, Emissions, Listed

(* Every emission calls whom it found subscribed, once, and a one-time     *)
(* handler is called once in all unless emissions nest (EventBus.ts:55-83). *)
THEOREM BusTheorem == Spec => []BusDelivers
<1>1. Init => BusInv
  <2> SUFFICES ASSUME Init PROVE BusInv
    OBVIOUS
  <2>1. PICK hs \in Subscribed : BusInit(hs)
    BY DEF Init
  <2>2. /\ op \in Workload /\ pc = [c \in Client |-> "idle"] /\ handlers = hs /\ stack = <<>>
        /\ runs = [h \in Handler |-> 0] /\ owed = [h \in Handler |-> 0]
    BY <2>1 DEF Init, BusInit
  <2>3. Listed(handlers)
    BY <2>2, ServicesAssumption DEF Listed
  <2>4. Emissions(stack) /\ \A h : Depths(stack, h) = {}
    BY <2>2 DEF Emissions, Depths
  <2>5. \A h \in Handler : runs[h] + Cardinality(Depths(stack, h)) = owed[h]
    <3>1. ASSUME NEW h \in Handler PROVE runs[h] + Cardinality(Depths(stack, h)) = owed[h]
      <4>1. Cardinality(Depths(stack, h)) = 0
        BY <2>4, FS_EmptySet
      <4> QED
        BY <2>2, <4>1
    <3> QED
      BY <3>1
  <2>6. \A c \in Client : Brings(c) => op[c].handler \notin Range(handlers)
    BY <2>2, ServicesAssumption DEF Brings, IsNew
  <2>7. \A c \in Client : Brings(c) => owed[op[c].handler] = 0
    BY <2>2, BusAssumption DEF Brings
  <2> QED
    BY <2>2, <2>3, <2>4, <2>5, <2>6, <2>7, BusAssumption DEF BusInv
<1>2. BusInv /\ [Next]_vars => BusInv'
  <2> SUFFICES ASSUME BusInv, [Next]_vars PROVE BusInv'
    OBVIOUS
  <2>1. CASE BusNext
    BY <2>1, BusStep
  <2> USE DEF CacheKinds, ObsKinds, LangKinds, PluginKinds, WorkerKinds, ObsStages, LangStages,
              PluginStages
  <2>2. CASE CacheNext /\ UNCHANGED busVars
    BY <2>2, BusStays, CacheMoves
  <2>3. CASE LeaseNext /\ UNCHANGED busVars
    BY <2>3, BusStays, LeaseMoves
  <2>4. CASE ObsNext /\ UNCHANGED busVars
    BY <2>4, BusStays, ObsMoves
  <2>5. CASE LangNext /\ UNCHANGED busVars
    BY <2>5, BusStays, LangMoves
  <2>6. CASE PluginNext /\ UNCHANGED busVars
    BY <2>6, BusStays, PluginMoves
  <2>7. CASE WorkersNext /\ UNCHANGED busVars
    BY <2>7, BusStays, WorkerMoves
  <2>8. CASE UNCHANGED vars
    <3>1. Moves({}, {}) /\ UNCHANGED busVars
      BY <2>8 DEF vars, callVars, Moves
    <3> QED
      BY <3>1, BusStays
  <2> QED
    BY <2>1, <2>2, <2>3, <2>4, <2>5, <2>6, <2>7, <2>8 DEF Next
<1>3. BusInv => BusDelivers
  <2> SUFFICES ASSUME BusInv, stack = <<>>, NEW h \in Handler
               PROVE  runs[h] = owed[h] /\ (h \in OnceHandler \ nested => runs[h] <= 1)
    BY DEF BusDelivers
  <2>1. Depths(stack, h) = {}
    BY DEF Depths
  <2>2. Cardinality(Depths(stack, h)) = 0
    BY <2>1, FS_EmptySet
  <2>3. runs[h] + Cardinality(Depths(stack, h)) = owed[h] /\ runs[h] \in Nat
    BY DEF BusInv
  <2>4. runs[h] = owed[h]
    BY <2>2, <2>3
  <2> QED
    BY <2>4 DEF BusInv
<1> QED
  BY <1>1, <1>2, <1>3, PTL DEF Spec
=============================================================================
