-------------------------- MODULE AgentRuntimeProof --------------------------
(***************************************************************************)
(* Theorems about the runtime, for any number of clients, runs, agents,    *)
(* tools and retries, whatever calls the clients make.                     *)
(*                                                                         *)
(* AbortTheorem: an attempt that begins after the abort begins with a      *)
(* signal that has fired, an attempt whose signal has fired is not         *)
(* repeated, and a call that may still be tried has had no such attempt.   *)
(*                                                                         *)
(* EnvironmentTheorem: the Map of tools has one place for a name, a        *)
(* warm-up meets only tools that are not ready ahead of it, and a          *)
(* clean-up leaves none ready behind it.                                   *)
(*                                                                         *)
(* RuntimeTypesTheorem and OneStoryTheorem: every event of a client is the *)
(* one its run or its tool call emits when it is over.                     *)
(*                                                                         *)
(* CollectorTheorem: the collector's counters, windows and queries are     *)
(* those of all events since its last reset.                               *)
(***************************************************************************)
EXTENDS RegistryViews, FiniteSetTheorems, SequenceTheorems, WellFoundedInduction, TLAPS

LateInv ==
  /\ callPc \in [Client -> CallState]
  /\ merged \in [Client -> BOOLEAN]
  /\ aborted \in [Client -> BOOLEAN]
  /\ late \in [Client -> {0, 1}]
  /\ \A c \in Client :
       /\ callPc[c] \in {"idle", "backoff"} => late[c] = 0
       /\ callPc[c] = "executing" /\ late[c] = 1 => merged[c]

(* What AbortEndsRetries asks of a step. *)
NoLateRetry ==
  \A c \in Client :
    /\ late'[c] <= 1
    /\ callPc[c] = "executing" /\ merged[c] => callPc'[c] # "backoff"

(* Nothing is late before anything runs. *)
LEMMA LateInit == RunInit => LateInv
  BY DEF RunInit, LateInv, CallState

(* The steps that do not concern a tool call. *)
LEMMA AsideStep ==
  ASSUME LateInv, UNCHANGED <<callPc, merged, late>>, aborted' \in [Client -> BOOLEAN]
  PROVE  LateInv' /\ NoLateRetry
  BY DEF LateInv, NoLateRetry

(* An attempt begins, in a call that has had no late one. *)
LEMMA AttemptStep ==
  ASSUME LateInv, NEW c \in Client, callPc[c] \in {"idle", "backoff"},
         BeginAttempt(c), UNCHANGED aborted
  PROVE  LateInv' /\ NoLateRetry
<1>1. late[c] = 0 /\ aborted[c] \in BOOLEAN
  BY DEF LateInv
<1>2. /\ callPc'[c] = "executing" /\ merged'[c] = aborted[c]
      /\ late'[c] = IF aborted[c] THEN 1 ELSE 0
  BY <1>1 DEF LateInv, BeginAttempt, CallTo, One
<1>3. \A d \in Client : d # c => /\ callPc'[d] = callPc[d] /\ merged'[d] = merged[d]
                                /\ late'[d] = late[d]
  BY DEF LateInv, BeginAttempt, CallTo
<1>4. /\ callPc' \in [Client -> CallState] /\ merged' \in [Client -> BOOLEAN]
      /\ late' \in [Client -> {0, 1}]
  BY <1>1, <1>2 DEF LateInv, BeginAttempt, CallTo, CallState, One
<1>5. LateInv'
  BY <1>2, <1>3, <1>4 DEF LateInv
<1>6. NoLateRetry
  BY <1>2, <1>3, <1>4 DEF LateInv, NoLateRetry
<1> QED
  BY <1>5, <1>6

(* A call ends, or pauses after an attempt whose signal has not fired. *)
LEMMA LeaveStep ==
  ASSUME LateInv, NEW c \in Client, NEW p \in {"done", "rejected", "backoff"},
         CallTo(c, p), p = "backoff" => callPc[c] = "executing" /\ ~merged[c],
         merged' \in {merged, [merged EXCEPT ![c] = FALSE]}, UNCHANGED <<late, aborted>>
  PROVE  LateInv' /\ NoLateRetry
<1>1. callPc'[c] = p /\ \A d \in Client : d # c => callPc'[d] = callPc[d]
  BY DEF LateInv, CallTo
<1>2. \A d \in Client : d # c => merged'[d] = merged[d]
  BY DEF LateInv
<1>3. callPc' \in [Client -> CallState] /\ merged' \in [Client -> BOOLEAN]
  BY DEF LateInv, CallTo, CallState
<1>4. LateInv'
  BY <1>1, <1>2, <1>3 DEF LateInv
<1>5. NoLateRetry
  BY <1>1, <1>2 DEF LateInv, NoLateRetry
<1> QED
  BY <1>4, <1>5

(* A signal fires: the run's, or that of the attempt. *)
LEMMA SignalStep ==
  ASSUME LateInv, NEW c \in Client, UNCHANGED <<callPc, late>>,
         aborted' \in [Client -> BOOLEAN], merged' \in [Client -> BOOLEAN],
         \A d \in Client : merged[d] => merged'[d]
  PROVE  LateInv' /\ NoLateRetry
  BY DEF LateInv, NoLateRetry

(* An abort keeps the invariant: signals are set and never unset. *)
LEMMA AbortSignals ==
  ASSUME LateInv, NEW c \in Client, Abort(c)
  PROVE  LateInv' /\ NoLateRetry
<1>1. /\ aborted' \in [Client -> BOOLEAN] /\ merged' \in [Client -> BOOLEAN]
      /\ \A d \in Client : merged[d] => merged'[d]
  BY DEF LateInv, Abort
<1> QED
  BY <1>1, SignalStep DEF Abort

-----------------------------------------------------------------------------
(* Every step keeps the invariant and begins no attempt it forbids. *)
LEMMA NextLate == LateInv /\ [Next]_vars => LateInv' /\ NoLateRetry
<1> SUFFICES ASSUME LateInv, [Next]_vars PROVE LateInv' /\ NoLateRetry
  OBVIOUS
<1>a. aborted \in [Client -> BOOLEAN]
  BY DEF LateInv
<1>1. ASSUME NEW c \in Client, Run(c) \/ FinishRun(c) PROVE LateInv' /\ NoLateRetry
  BY <1>1, <1>a, AsideStep DEF Run, FinishRun, RejectRun, StartRun, Finish, callVars
<1>2. ASSUME NEW c \in Client, AgentStep(c) PROVE LateInv' /\ NoLateRetry
  <2>1. CASE \E began \in {"none", "active"} : BeginTrace(c, began)
    BY <1>a, <2>1, AsideStep DEF BeginTrace, callVars
  <2>2. CASE AgentThrows(c) \/ \E success \in Outcome : AgentReturns(c, success)
    BY <1>a, <2>2, AsideStep DEF AgentThrows, AgentReturns, Settle, callVars
  <2>3. CASE Cancel(c)
    BY <2>3, AbortSignals DEF Cancel
  <2>4. CASE CallThrows(c)
    BY <2>4, LeaveStep DEF CallThrows, runVars
  <2>5. ASSUME NEW n, CallTool(c, n) PROVE LateInv' /\ NoLateRetry
    BY <2>5, AttemptStep DEF CallTool, runVars
  <2>6. ASSUME NEW n, RefuseCall(c, n) PROVE LateInv' /\ NoLateRetry
    BY <2>6, LeaveStep DEF RefuseCall, runVars
  <2> QED
    BY <1>2, <2>1, <2>2, <2>3, <2>4, <2>5, <2>6 DEF AgentStep
<1>3. ASSUME NEW c \in Client, ToolStep(c) PROVE LateInv' /\ NoLateRetry
  <2>1. ASSUME NEW ok, NEW d, NEW tries, NEW cancel, NEW expired,
               EndCall(c, ok, d, tries, cancel, expired)
        PROVE  LateInv' /\ NoLateRetry
    BY <2>1, LeaveStep DEF EndCall, runVars
  <2>2. ASSUME NEW ok, NEW d, ToolReturns(c, ok, d) PROVE LateInv' /\ NoLateRetry
    BY <2>1, <2>2 DEF ToolReturns
  <2>3. ASSUME NEW err, NEW d, ToolThrows(c, err, d) PROVE LateInv' /\ NoLateRetry
    <3>1. CASE Cancelled(c, err)
      BY <2>1, <2>3, <3>1 DEF ToolThrows
    <3>2. CASE ~Cancelled(c, err) /\ attempt[c] >= MaxRetries
      BY <2>1, <2>3, <3>2 DEF ToolThrows
    <3>3. CASE ~Cancelled(c, err) /\ ~(attempt[c] >= MaxRetries)
      BY <2>3, <3>3, LeaveStep DEF ToolThrows, Cancelled, runVars
    <3> QED
      BY <3>1, <3>2, <3>3
  <2> QED
    BY <1>3, <2>2, <2>3 DEF ToolStep
<1>4. ASSUME NEW c \in Client, Timers(c) PROVE LateInv' /\ NoLateRetry
  <2>1. CASE Timeout(c)
    BY <2>1, AbortSignals DEF Timeout
  <2>2. CASE Retry(c)
    BY <2>2, AttemptStep DEF Retry, runVars
  <2>3. CASE AttemptTimeout(c)
    <3>1. merged' \in [Client -> BOOLEAN] /\ \A d \in Client : merged[d] => merged'[d]
      BY <2>3 DEF AttemptTimeout, LateInv
    <3> QED
      BY <1>a, <2>3, <3>1, SignalStep DEF AttemptTimeout, runVars
  <2> QED
    BY <1>4, <2>1, <2>2, <2>3 DEF Timers
<1>5. ASSUME NEW c \in Client, Manage(c) \/ Awaited(c) PROVE LateInv' /\ NoLateRetry
  <2>1. UNCHANGED <<runVars, callVars>>
    BY <1>5 DEF Manage, Awaited, OnlyEnv, ForeignEvent, RegisterTool, ResetCollector
  <2> QED
    BY <1>a, <2>1, AsideStep DEF runVars, callVars
<1>6. CASE UNCHANGED vars
  BY <1>a, <1>6, AsideStep DEF vars, runVars, callVars
<1> QED
  BY <1>1, <1>2, <1>3, <1>4, <1>5, <1>6 DEF Next

-----------------------------------------------------------------------------
(* Once a run is aborted its tool is called once more at most, and an      *)
(* attempt whose signal has fired is not repeated (ToolExecutor.ts:110-155). *)
THEOREM AbortTheorem == SafeSpec => AbortEndsRetries
<1>1. Init => LateInv
  BY LateInit DEF Init
<1>2. LateInv /\ [Next]_vars => LateInv' /\ [NoLateRetry]_vars
  BY NextLate
<1>3. SafeSpec => [][NoLateRetry]_vars
  BY <1>1, <1>2, PTL DEF SafeSpec
<1> QED
  BY <1>3 DEF AbortEndsRetries, NoLateRetry

-----------------------------------------------------------------------------
(* The Map of tools *)

(* A set of numbers that is not empty has a least one. *)
LEMMA LeastIs ==
  ASSUME NEW S, S \subseteq Nat, S # {}
  PROVE  Min(S) \in S /\ \A x \in S : Min(S) <= x
<1> DEFINE R == OpToRel(<, Nat)
<1>1. IsWellFoundedOn(R, Nat)
  BY NatLessThanWellFounded
<1>2. PICK x \in S : \A y \in S : ~ (<<y, x>> \in R)
  <2>1. S \subseteq Nat /\ S # {}
    OBVIOUS
  <2> HIDE DEF R
  <2>2. \E x \in S : \A y \in S : ~ (<<y, x>> \in R)
    BY <1>1, <2>1, WFMin
  <2> QED BY <2>2
<1>3. \A y \in S : x <= y
  <2> SUFFICES ASSUME NEW y \in S, ~(x <= y) PROVE FALSE
    OBVIOUS
  <2>1. x \in Nat /\ y \in Nat /\ y < x
    OBVIOUS
  <2>2. <<y, x>> \in R
    BY <2>1 DEF OpToRel
  <2> HIDE DEF R
  <2> QED BY <1>2, <2>2
<1> QED BY <1>3 DEF Min

(* Induction, in the form that needs no operator: a set with 0 and with    *)
(* the successors of its members has all numbers.                          *)
LEMMA SetInduction ==
  ASSUME NEW S, 0 \in S, \A n \in Nat : n \in S => n + 1 \in S
  PROVE  Nat \subseteq S
<1> DEFINE R == OpToRel(<, Nat)  T == {n \in Nat : n \notin S}
<1> SUFFICES ASSUME T # {} PROVE FALSE
  OBVIOUS
<1>1. IsWellFoundedOn(R, Nat)
  BY NatLessThanWellFounded
<1>2. PICK x \in T : \A y \in T : ~(<<y, x>> \in R)
  <2>1. T \subseteq Nat
    OBVIOUS
  <2> HIDE DEF T, R
  <2> QED BY <1>1, <2>1, WFMin
<1>3. x \in Nat /\ x # 0 /\ x - 1 \in T
  OBVIOUS
<1>4. <<x - 1, x>> \in R
  BY <1>3 DEF OpToRel
<1> QED BY <1>2, <1>3, <1>4

MapTypes == entries \in Seq(Tool \cup {Gone}) /\ OneToolPerName(entries)

(* A name has one place at most. *)
LEMMA PlaceIs ==
  ASSUME MapTypes, NEW n, NEW i \in Places(n)
  PROVE  /\ Max(Places(n)) = i /\ Has(n) /\ i \in 1 .. Len(entries)
         /\ entries[i] \in Tool /\ NameOf[entries[i]] = n
<1>1. DOMAIN entries = 1 .. Len(entries)
  BY LenProperties DEF MapTypes
<1>2. i \in 1 .. Len(entries) /\ entries[i] \in Tool /\ NameOf[entries[i]] = n
  BY <1>1, ElementOfSeq DEF Places, MapTypes
<1>3. Places(n) = {i}
  BY <1>2 DEF Places, MapTypes, OneToolPerName
<1>4. Max({i}) = i
  <2>1. i >= i
    BY <1>2
  <2> QED BY <2>1 DEF Max
<1> QED BY <1>2, <1>3, <1>4 DEF Has

(* What Map.set leaves: the tool is at one place, the rest where it was. *)
LEMMA SetIs ==
  ASSUME MapTypes, NEW t \in Tool
  PROVE  \E i \in 1 .. Len(entries) + 1 :
           /\ Set(t) \in Seq(Tool \cup {Gone}) /\ OneToolPerName(Set(t))
           /\ Len(entries) <= Len(Set(t)) /\ i <= Len(Set(t)) /\ Set(t)[i] = t
           /\ \A j \in 1 .. Len(Set(t)) : j # i => j <= Len(entries) /\ Set(t)[j] = entries[j]
           /\ t \in Registered => Set(t) = entries
<1> DEFINE T == Tool \cup {Gone}
<1>1. entries \in Seq(T) /\ DOMAIN entries = 1 .. Len(entries) /\ Len(entries) \in Nat /\ t \in T
  BY LenProperties DEF MapTypes
<1>2. CASE Has(NameOf[t])
  <2>1. PICK i : i \in Places(NameOf[t])
    BY <1>2 DEF Has
  <2>2. Max(Places(NameOf[t])) = i /\ i \in 1 .. Len(entries) /\ entries[i] \in Tool
        /\ NameOf[entries[i]] = NameOf[t]
    BY <2>1, PlaceIs
  <2>3. Set(t) = [entries EXCEPT ![i] = t]
    BY <1>2, <2>2 DEF Set
  <2>4. /\ Set(t) \in Seq(T) /\ Len(Set(t)) = Len(entries)
        /\ \A j \in 1 .. Len(entries) : Set(t)[j] = IF j = i THEN t ELSE entries[j]
    BY <1>1, <2>2, <2>3, ExceptSeq
  <2>5. DOMAIN Set(t) = 1 .. Len(entries)
    BY <2>4, LenProperties
  <2>6. OneToolPerName(Set(t))
    <3> SUFFICES ASSUME NEW j \in 1 .. Len(entries), NEW k \in 1 .. Len(entries),
                        Set(t)[j] # Gone, Set(t)[k] # Gone,
                        NameOf[Set(t)[j]] = NameOf[Set(t)[k]]
                 PROVE  j = k
      BY <2>5 DEF OneToolPerName
    <3>1. entries[i] # Gone
      BY <2>2, ToolAssumption
    <3>2. /\ Set(t)[j] = IF j = i THEN t ELSE entries[j]
          /\ Set(t)[k] = IF k = i THEN t ELSE entries[k]
      BY <2>4
    <3> QED BY <1>1, <2>2, <3>1, <3>2 DEF MapTypes, OneToolPerName
  <2>7. t \in Registered => entries[i] = t
    <3> SUFFICES ASSUME NEW j \in 1 .. Len(entries), entries[j] = t PROVE entries[i] = t
      BY <1>1 DEF Registered
    <3>1. t # Gone /\ entries[i] # Gone
      BY <2>2, ToolAssumption
    <3> QED BY <1>1, <2>2, <3>1 DEF MapTypes, OneToolPerName
  <2>8. t \in Registered => Set(t) = entries
    BY <1>1, <2>3, <2>7, <2>2, <2>4, SeqEqual
  <2>9. i \in 1 .. Len(entries) + 1 /\ i <= Len(entries) /\ Set(t)[i] = t
    BY <1>1, <2>2, <2>4
  <2>10. \A j \in 1 .. Len(Set(t)) : j # i => j <= Len(entries) /\ Set(t)[j] = entries[j]
    BY <1>1, <2>4
  <2> QED BY <1>1, <2>4, <2>6, <2>8, <2>9, <2>10
<1>3. CASE ~Has(NameOf[t])
  <2>1. Set(t) = Append(entries, t)
    BY <1>3 DEF Set
  <2>2. /\ Set(t) \in Seq(T) /\ Len(Set(t)) = Len(entries) + 1 /\ Set(t)[Len(entries) + 1] = t
        /\ \A j \in 1 .. Len(entries) : Set(t)[j] = entries[j]
    BY <1>1, <2>1, AppendProperties
  <2>3. DOMAIN Set(t) = 1 .. Len(entries) + 1
    BY <2>2, LenProperties
  <2>4. \A j \in 1 .. Len(entries) : entries[j] # Gone => NameOf[entries[j]] # NameOf[t]
    BY <1>1, <1>3 DEF Has, Places
  <2>5. OneToolPerName(Set(t))
    <3> SUFFICES ASSUME NEW j \in 1 .. Len(entries) + 1, NEW k \in 1 .. Len(entries) + 1,
                        Set(t)[j] # Gone, Set(t)[k] # Gone,
                        NameOf[Set(t)[j]] = NameOf[Set(t)[k]]
                 PROVE  j = k
      BY <2>3 DEF OneToolPerName
    <3>1. (j = Len(entries) + 1 \/ j \in 1 .. Len(entries)) /\ (k = Len(entries) + 1 \/ k \in 1 .. Len(entries))
      BY <1>1
    <3> QED BY <1>1, <2>2, <2>4, <3>1 DEF MapTypes, OneToolPerName
  <2>6. t \notin Registered
    BY <1>1, <2>4, ToolAssumption DEF Registered
  <2>7. \A j \in 1 .. Len(Set(t)) : j # Len(entries) + 1 => j <= Len(entries) /\ Set(t)[j] = entries[j]
    BY <1>1, <2>2
  <2> QED BY <1>1, <2>2, <2>5, <2>6, <2>7
<1> QED BY <1>2, <1>3

(* What Map.delete leaves. *)
LEMMA DeleteIs ==
  ASSUME MapTypes, NEW n
  PROVE  /\ Delete(n) \in Seq(Tool \cup {Gone}) /\ OneToolPerName(Delete(n))
         /\ Len(Delete(n)) = Len(entries)
         /\ \A j \in 1 .. Len(entries) : Delete(n)[j] \in {entries[j], Gone}
<1>1. entries \in Seq(Tool \cup {Gone}) /\ DOMAIN entries = 1 .. Len(entries) /\ Len(entries) \in Nat
  BY LenProperties DEF MapTypes
<1>2. Delete(n) = [i \in 1 .. Len(entries) |-> IF i \in Places(n) THEN Gone ELSE entries[i]]
  BY <1>1 DEF Delete
<1>3. \A i \in 1 .. Len(entries) : entries[i] \in Tool \cup {Gone}
  BY <1>1, ElementOfSeq
<1>4. Delete(n) \in Seq(Tool \cup {Gone})
  BY <1>1, <1>2, <1>3, IsASeq
<1>5. Len(Delete(n)) = Len(entries)
  BY <1>1, <1>2, <1>4, LenProperties
<1>6. \A j \in 1 .. Len(entries) : Delete(n)[j] \in {entries[j], Gone}
  BY <1>2
<1>7. OneToolPerName(Delete(n))
  BY <1>1, <1>2, <1>6 DEF MapTypes, OneToolPerName
<1> QED BY <1>4, <1>5, <1>6, <1>7

-----------------------------------------------------------------------------
(* The environment *)

WarmStages == {"initAll", "checkInWarmup", "agentsInWarmup"}
Holding == {"initAll", "initializing", "cleaning"}

EnvTypes ==
  /\ MapTypes /\ agents \subseteq AgentId
  /\ warmedUp \in BOOLEAN /\ shutdown \in BOOLEAN
  /\ healthState \in [Tool -> Health] /\ hook \in [Tool -> {"fresh", "ready", "closed"}]
  /\ pc \in [Client -> EnvState] /\ at \in [Client -> Nat] /\ held \in [Client -> Tool \cup {NoTool}]
  /\ raced \in BOOLEAN /\ doubled \subseteq Tool /\ exempt \subseteq Tool
  /\ \A c \in Client : at[c] <= Len(entries) /\ (pc[c] \in Holding => held[c] \in Tool)

(* Without a race one warm-up initialises, and what is before it in the    *)
(* Map is not ready; before any warm-up nothing in the Map is.             *)
OnceInv ==
  ~raced =>
    /\ doubled = {} /\ \A c \in Client : pc[c] # "initializing"
    /\ \A c, d \in Client : pc[c] \in WarmStages /\ pc[d] \in WarmStages => c = d
    /\ \A c \in Client : warmedUp => pc[c] \notin WarmStages
    /\ ~warmedUp /\ (\A c \in Client : pc[c] \notin WarmStages) =>
         \A i \in 1 .. Len(entries) : entries[i] # Gone => hook[entries[i]] # "ready"
    /\ \A c \in Client : pc[c] = "initAll" =>
         /\ hook[held[c]] # "ready"
         /\ \A i \in 1 .. Len(entries) : i > at[c] /\ entries[i] # Gone =>
              hook[entries[i]] # "ready" /\ entries[i] # held[c]

(* A clean-up has dealt with what is behind it, and with what came to its  *)
(* place while it was there.                                               *)
DealtWith(i) == entries[i] = Gone \/ hook[entries[i]] # "ready" \/ entries[i] \in exempt
CloseInv ==
  /\ shutdown => \A i \in 1 .. Len(entries) : DealtWith(i)
  /\ \A c \in Client, i \in 1 .. Len(entries) :
       pc[c] = "cleanAll" /\ (held[c] = NoTool \/ i < at[c] \/ (i = at[c] /\ entries[i] # held[c]))
       => DealtWith(i)

(* What Seek does: the iterator is at the next tool, or there is none.     *)
SeekEnds(c, i, after) ==
  /\ \A j \in 1 .. Len(entries) : j >= i => entries[j] = Gone
  /\ at' = [at EXCEPT ![c] = 0] /\ held' = [held EXCEPT ![c] = NoTool]
  /\ pc' = [pc EXCEPT ![c] = after]
SeekFinds(c, i, loop, m) ==
  /\ m >= i /\ entries[m] \in Tool
  /\ \A j \in 1 .. Len(entries) : i <= j /\ j < m => entries[j] = Gone
  /\ at' = [at EXCEPT ![c] = m] /\ held' = [held EXCEPT ![c] = entries[m]]
  /\ pc' = [pc EXCEPT ![c] = loop]

(* Seek, by what it finds. *)
LEMMA SeekIs ==
  ASSUME EnvTypes, NEW c \in Client, NEW i \in Nat, NEW loop, NEW after, Seek(c, i, loop, after)
  PROVE  \/ SeekEnds(c, i, after)
         \/ \E m \in 1 .. Len(entries) : SeekFinds(c, i, loop, m)
<1>1. DOMAIN entries = 1 .. Len(entries) /\ Len(entries) \in Nat
  BY LenProperties DEF EnvTypes, MapTypes
<1>2. Rest(i) = {j \in 1 .. Len(entries) : j >= i /\ entries[j] # Gone}
  BY <1>1 DEF Rest
<1>3. CASE Rest(i) = {}
  BY <1>2, <1>3 DEF Seek, SeekEnds, ToPc
<1>4. CASE Rest(i) # {}
  <2>1. Rest(i) \subseteq Nat
    BY <1>1, <1>2
  <2>2. PICK m : m = Min(Rest(i))
    OBVIOUS
  <2>3. m \in Rest(i) /\ \A j \in Rest(i) : m <= j
    BY <1>4, <2>1, <2>2, LeastIs
  <2>4. m \in 1 .. Len(entries) /\ m >= i /\ entries[m] # Gone
    BY <1>2, <2>3
  <2>5. entries[m] \in Tool
    BY <2>4, ElementOfSeq DEF EnvTypes, MapTypes
  <2>6. \A j \in 1 .. Len(entries) : i <= j /\ j < m => entries[j] = Gone
    BY <1>1, <1>2, <2>3, <2>4
  <2>7. /\ at' = [at EXCEPT ![c] = m] /\ held' = [held EXCEPT ![c] = entries[m]]
        /\ pc' = [pc EXCEPT ![c] = loop]
    BY <1>4, <2>2 DEF Seek, ToPc
  <2> QED BY <2>4, <2>5, <2>6, <2>7 DEF SeekFinds
<1> QED BY <1>3, <1>4

(* The types, after a loop has moved on. *)
LEMMA SeekTypes ==
  ASSUME EnvTypes, NEW c \in Client, NEW i \in Nat, NEW loop \in EnvState, NEW after \in EnvState \ Holding,
         Seek(c, i, loop, after)
  PROVE  /\ pc' \in [Client -> EnvState] /\ at' \in [Client -> Nat]
         /\ held' \in [Client -> Tool \cup {NoTool}]
         /\ \A d \in Client : at'[d] <= Len(entries) /\ (pc'[d] \in Holding => held'[d] \in Tool)
<1>1. Len(entries) \in Nat
  BY LenProperties DEF EnvTypes, MapTypes
<1>2. CASE SeekEnds(c, i, after)
  BY <1>1, <1>2 DEF SeekEnds, EnvTypes
<1>3. CASE \E m \in 1 .. Len(entries) : SeekFinds(c, i, loop, m)
  BY <1>1, <1>3 DEF SeekFinds, EnvTypes
<1> QED BY <1>2, <1>3, SeekIs

(* A step that initialises nothing and begins no warm-up. *)
LEMMA OnceStays ==
  ASSUME EnvTypes, OnceInv, entries' \in Seq(Tool \cup {Gone}), raced => raced', doubled' = doubled,
         raced' \in BOOLEAN, warmedUp' \in BOOLEAN,
         \A t \in Tool : hook'[t] = "ready" => hook[t] = "ready",
         \A d \in Client : /\ pc'[d] = "initializing" => raced'
                           /\ pc'[d] = "initAll" => pc[d] = "initAll" /\ UNCHANGED <<at[d], held[d]>>
                           /\ pc'[d] \in WarmStages => pc[d] \in WarmStages,
         \/ warmedUp' = warmedUp /\ \A d \in Client : pc[d] \in WarmStages => pc'[d] \in WarmStages
         \/ warmedUp' /\ \E d \in Client : pc[d] \in WarmStages /\ pc'[d] \notin WarmStages,
         \A i \in 1 .. Len(entries') :
           \/ entries'[i] = Gone \/ (i \in 1 .. Len(entries) /\ entries'[i] = entries[i])
           \/ raced' \/ ~Open(entries'[i])
  PROVE  OnceInv'
<1> SUFFICES ASSUME ~raced' PROVE OnceInv'
  BY DEF OnceInv
<1>1. ~raced
  OBVIOUS
<1>2. /\ doubled = {} /\ \A c \in Client : pc[c] # "initializing"
      /\ \A c, d \in Client : pc[c] \in WarmStages /\ pc[d] \in WarmStages => c = d
      /\ \A c \in Client : warmedUp => pc[c] \notin WarmStages
  BY <1>1 DEF OnceInv
<1>3. \A c, d \in Client : pc'[c] \in WarmStages /\ pc'[d] \in WarmStages => c = d
  BY <1>2
<1>4. \A c \in Client : warmedUp' => pc'[c] \notin WarmStages
  BY <1>2
<1>5. \A i \in 1 .. Len(entries') : entries'[i] # Gone => entries'[i] \in Tool
  BY ElementOfSeq
<1>6. ASSUME ~warmedUp', \A c \in Client : pc'[c] \notin WarmStages,
             NEW i \in 1 .. Len(entries'), entries'[i] # Gone
      PROVE  hook'[entries'[i]] # "ready"
  <2>1. ~warmedUp /\ \A c \in Client : pc[c] \notin WarmStages
    BY <1>6
  <2>2. \A j \in 1 .. Len(entries) : entries[j] # Gone => hook[entries[j]] # "ready"
    BY <1>1, <2>1 DEF OnceInv
  <2> QED BY <1>5, <1>6, <2>2 DEF Open
<1>7. ASSUME NEW c \in Client, pc'[c] = "initAll"
      PROVE  /\ hook'[held'[c]] # "ready"
             /\ \A i \in 1 .. Len(entries') : i > at'[c] /\ entries'[i] # Gone =>
                  hook'[entries'[i]] # "ready" /\ entries'[i] # held'[c]
  <2>1. pc[c] = "initAll" /\ held'[c] = held[c] /\ at'[c] = at[c] /\ held[c] \in Tool
    BY <1>7 DEF EnvTypes, Holding
  <2>2. /\ hook[held[c]] # "ready"
        /\ \A i \in 1 .. Len(entries) : i > at[c] /\ entries[i] # Gone =>
             hook[entries[i]] # "ready" /\ entries[i] # held[c]
    BY <1>1, <2>1 DEF OnceInv
  <2> QED BY <1>5, <2>1, <2>2 DEF Open
<1> QED BY <1>2, <1>3, <1>4, <1>6, <1>7 DEF OnceInv

(* A step that ends no clean-up and begins none. *)
LEMMA CloseStays ==
  ASSUME EnvTypes, CloseInv, entries' \in Seq(Tool \cup {Gone}), exempt \subseteq exempt', shutdown' = shutdown,
         \A t \in Tool : hook'[t] = "ready" => hook[t] = "ready" \/ (InUse => t \in exempt'),
         \A d \in Client : pc'[d] = "cleanAll" => pc[d] = "cleanAll" /\ UNCHANGED <<at[d], held[d]>>,
         \A i \in 1 .. Len(entries') :
           \/ entries'[i] = Gone \/ (i \in 1 .. Len(entries) /\ entries'[i] = entries[i])
           \/ (InUse => entries'[i] \in exempt')
  PROVE  CloseInv'
<1>1. \A i \in 1 .. Len(entries') : entries'[i] # Gone => entries'[i] \in Tool
  BY ElementOfSeq
<1>2. ASSUME InUse, NEW i \in 1 .. Len(entries'), i \in 1 .. Len(entries) /\ entries'[i] = entries[i] => DealtWith(i)
      PROVE  DealtWith(i)'
  BY <1>1, <1>2 DEF DealtWith
<1>3. shutdown' => \A i \in 1 .. Len(entries') : DealtWith(i)'
  BY <1>2 DEF CloseInv, InUse
<1>4. ASSUME NEW c \in Client, NEW i \in 1 .. Len(entries'), pc'[c] = "cleanAll",
             held'[c] = NoTool \/ i < at'[c] \/ (i = at'[c] /\ entries'[i] # held'[c])
      PROVE  DealtWith(i)'
  <2>1. pc[c] = "cleanAll" /\ at'[c] = at[c] /\ held'[c] = held[c]
    BY <1>4
  <2> QED BY <1>2, <1>4, <2>1 DEF CloseInv, InUse, Closing
<1> QED BY <1>3, <1>4 DEF CloseInv

EnvInv == EnvTypes /\ OnceInv /\ CloseInv

(* What the steps that do not initialise, begin or end a loop over the     *)
(* tools have in common.                                                   *)
Aside(c) ==
  /\ pc' = [pc EXCEPT ![c] = pc'[c]] /\ pc'[c] \in EnvState \ (WarmStages \cup {"cleanAll"})
  /\ at' = at /\ held' = [held EXCEPT ![c] = held'[c]]
  /\ held'[c] \in Tool \cup {NoTool} /\ (pc'[c] \in Holding => held'[c] \in Tool)

(* The types, after such a step. *)
LEMMA AsideTypes ==
  ASSUME EnvTypes, NEW c \in Client, Aside(c), Len(entries') >= Len(entries), Len(entries') \in Nat
  PROVE  /\ pc' \in [Client -> EnvState] /\ at' \in [Client -> Nat]
         /\ held' \in [Client -> Tool \cup {NoTool}]
         /\ \A d \in Client : at'[d] <= Len(entries') /\ (pc'[d] \in Holding => held'[d] \in Tool)
         /\ \A d \in Client \ {c} : pc'[d] = pc[d] /\ held'[d] = held[d]
<1>1. Len(entries) \in Nat
  BY LenProperties DEF EnvTypes, MapTypes
<1>2. \A d \in Client : at[d] \in Nat /\ at[d] <= Len(entries)
  BY DEF EnvTypes
<1>3. \A d \in Client : at'[d] <= Len(entries')
  BY <1>1, <1>2 DEF Aside
<1> QED BY <1>3 DEF Aside, EnvTypes

(* register() without autoInit. *)
LEMMA RegisterStays ==
  ASSUME EnvInv, NEW c \in Client, NEW t \in Tool, Register(c, t)
  PROVE  EnvInv'
<1>1. /\ pc[c] = "idle" /\ entries' = Set(t) /\ pc' = [pc EXCEPT ![c] = "done"]
      /\ raced' = (raced \/ (t \notin Registered /\ Open(t)))
      /\ exempt' = IF InUse THEN exempt \cup {t} ELSE exempt
      /\ UNCHANGED <<agents, warmedUp, shutdown, healthState, hook, at, held, doubled>>
  BY DEF Register, ToPc
<1>2. EnvTypes /\ MapTypes
  BY DEF EnvInv, EnvTypes
<1>3. PICK i \in 1 .. Len(entries) + 1 :
           /\ Set(t) \in Seq(Tool \cup {Gone}) /\ OneToolPerName(Set(t))
           /\ Len(entries) <= Len(Set(t)) /\ i <= Len(Set(t)) /\ Set(t)[i] = t
           /\ \A j \in 1 .. Len(Set(t)) : j # i => j <= Len(entries) /\ Set(t)[j] = entries[j]
           /\ t \in Registered => Set(t) = entries
  BY <1>2, SetIs
<1>4. Aside(c)
  BY <1>1, <1>2 DEF Aside, EnvTypes, EnvState, Sweeps, WarmStages, Holding
<1>5. /\ pc' \in [Client -> EnvState] /\ at' \in [Client -> Nat]
      /\ held' \in [Client -> Tool \cup {NoTool}]
      /\ \A d \in Client : at'[d] <= Len(entries') /\ (pc'[d] \in Holding => held'[d] \in Tool)
  <2>1. Len(entries') >= Len(entries) /\ Len(entries') \in Nat
    BY <1>1, <1>2, <1>3, LenProperties DEF MapTypes
  <2> QED BY <1>2, <1>4, <2>1, AsideTypes
<1>6. EnvTypes'
  <2>1. MapTypes'
    BY <1>1, <1>3 DEF MapTypes
  <2>2. raced' \in BOOLEAN /\ exempt' \subseteq Tool
    BY <1>1, <1>2 DEF EnvTypes
  <2> QED BY <1>1, <1>2, <1>5, <2>1, <2>2 DEF EnvTypes
<1>7. \A d \in Client : pc'[d] = pc[d] \/ (pc[d] = "idle" /\ pc'[d] = "done")
  BY <1>1, <1>2 DEF EnvTypes
<1>8. \A j \in 1 .. Len(entries') : (j \in 1 .. Len(entries) /\ entries'[j] = entries[j])
                                    \/ (t \notin Registered /\ entries'[j] = t)
  <2>1. Len(entries) \in Nat
    BY <1>2, LenProperties DEF MapTypes
  <2> QED BY <1>1, <1>3, <2>1
<1>9. entries' \in Seq(Tool \cup {Gone})
  BY <1>1, <1>3
<1>10. OnceInv'
  <2>1. \A d \in Client : /\ pc'[d] = "initializing" => raced'
                          /\ pc'[d] = "initAll" => pc[d] = "initAll" /\ UNCHANGED <<at[d], held[d]>>
                          /\ pc'[d] \in WarmStages => pc[d] \in WarmStages
                          /\ pc[d] \in WarmStages => pc'[d] \in WarmStages
    BY <1>1, <1>7 DEF WarmStages, EnvInv, OnceInv
  <2>2. \A j \in 1 .. Len(entries') :
           \/ entries'[j] = Gone \/ (j \in 1 .. Len(entries) /\ entries'[j] = entries[j])
           \/ raced' \/ ~Open(entries'[j])
    BY <1>1, <1>8
  <2>3. raced' \in BOOLEAN /\ warmedUp' \in BOOLEAN
    BY <1>6 DEF EnvTypes
  <2> QED BY <1>1, <1>2, <1>9, <2>1, <2>2, <2>3, OnceStays DEF EnvInv
<1>11. CloseInv'
  <2>1. \A d \in Client : pc'[d] = "cleanAll" => pc[d] = "cleanAll" /\ UNCHANGED <<at[d], held[d]>>
    BY <1>1, <1>7
  <2>2. \A j \in 1 .. Len(entries') :
           \/ entries'[j] = Gone \/ (j \in 1 .. Len(entries) /\ entries'[j] = entries[j])
           \/ (InUse => entries'[j] \in exempt')
    BY <1>1, <1>8
  <2> QED BY <1>1, <1>2, <1>9, <2>1, <2>2, CloseStays DEF EnvInv
<1> QED BY <1>6, <1>10, <1>11 DEF EnvInv

(* register() with autoInit begins: that is a race. *)
LEMMA RegisterInitStays ==
  ASSUME EnvInv, NEW c \in Client, NEW t \in Tool, RegisterInit(c, t)
  PROVE  EnvInv'
<1>1. /\ pc[c] = "idle" /\ pc' = [pc EXCEPT ![c] = "initializing"] /\ held' = [held EXCEPT ![c] = t]
      /\ raced' = TRUE
      /\ UNCHANGED <<entries, agents, warmedUp, shutdown, healthState, hook, at, doubled, exempt>>
  BY DEF RegisterInit, ToPc
<1>2. EnvTypes /\ MapTypes
  BY DEF EnvInv, EnvTypes
<1>3. Aside(c)
  BY <1>1, <1>2 DEF Aside, EnvTypes, EnvState, Sweeps, WarmStages, Holding
<1>4. EnvTypes'
  <2>1. Len(entries') >= Len(entries) /\ Len(entries') \in Nat
    BY <1>1, <1>2, LenProperties DEF MapTypes
  <2>2. /\ pc' \in [Client -> EnvState] /\ at' \in [Client -> Nat]
        /\ held' \in [Client -> Tool \cup {NoTool}]
        /\ \A d \in Client : at'[d] <= Len(entries') /\ (pc'[d] \in Holding => held'[d] \in Tool)
    BY <1>2, <1>3, <2>1, AsideTypes
  <2>3. MapTypes'
    BY <1>1, <1>2 DEF MapTypes
  <2> QED BY <1>1, <1>2, <2>2, <2>3 DEF EnvTypes
<1>5. OnceInv'
  BY <1>1 DEF OnceInv
<1>6. CloseInv'
  <2>1. \A d \in Client : pc'[d] = "cleanAll" => pc[d] = "cleanAll" /\ UNCHANGED <<at[d], held[d]>>
    BY <1>1, <1>2 DEF EnvTypes
  <2> QED BY <1>1, <1>2, <2>1, CloseStays DEF EnvInv, MapTypes
<1> QED BY <1>4, <1>5, <1>6 DEF EnvInv

(* It ends. *)
LEMMA InitEndsStays ==
  ASSUME EnvInv, NEW c \in Client, NEW ok \in BOOLEAN, InitEnds(c, ok)
  PROVE  EnvInv'
<1> DEFINE t == held[c]
<1>1. /\ pc[c] = "initializing" /\ held' = [held EXCEPT ![c] = NoTool]
      /\ pc' = [pc EXCEPT ![c] = IF ok THEN "done" ELSE "threw"]
      /\ UNCHANGED <<agents, warmedUp, shutdown, healthState, at, raced>>
      /\ \/ /\ hook' = [hook EXCEPT ![t] = "ready"] /\ entries' = Set(t)
            /\ doubled' = IF hook[t] = "ready" THEN doubled \cup {t} ELSE doubled
            /\ exempt' = IF InUse THEN exempt \cup {t} ELSE exempt
         \/ UNCHANGED <<hook, entries, doubled, exempt>>
  BY DEF InitEnds, Initialized, ToPc
<1>2. EnvTypes /\ MapTypes
  BY DEF EnvInv, EnvTypes
<1>3. t \in Tool
  BY <1>1, <1>2 DEF EnvTypes, Holding
<1>4. raced
  BY <1>1 DEF EnvInv, OnceInv
<1> HIDE DEF t
<1>5. PICK i \in 1 .. Len(entries) + 1 :
           /\ Set(t) \in Seq(Tool \cup {Gone}) /\ OneToolPerName(Set(t))
           /\ Len(entries) <= Len(Set(t)) /\ i <= Len(Set(t)) /\ Set(t)[i] = t
           /\ \A j \in 1 .. Len(Set(t)) : j # i => j <= Len(entries) /\ Set(t)[j] = entries[j]
           /\ t \in Registered => Set(t) = entries
  BY <1>2, <1>3, SetIs
<1>6. Len(entries) \in Nat /\ entries \in Seq(Tool \cup {Gone})
  BY <1>2, LenProperties DEF MapTypes
<1>7. /\ MapTypes' /\ entries' \in Seq(Tool \cup {Gone}) /\ Len(entries') >= Len(entries) /\ Len(entries') \in Nat
  <2>1. MapTypes'
    BY <1>1, <1>2, <1>5 DEF MapTypes
  <2>2. Len(entries') >= Len(entries)
    BY <1>1, <1>5, <1>6
  <2> QED BY <2>1, <2>2, LenProperties DEF MapTypes
<1>8. Aside(c)
  BY <1>1, <1>2 DEF Aside, EnvTypes, EnvState, Sweeps, WarmStages, Holding
<1>9. EnvTypes'
  <2>1. /\ pc' \in [Client -> EnvState] /\ at' \in [Client -> Nat]
        /\ held' \in [Client -> Tool \cup {NoTool}]
        /\ \A d \in Client : at'[d] <= Len(entries') /\ (pc'[d] \in Holding => held'[d] \in Tool)
    BY <1>2, <1>7, <1>8, AsideTypes
  <2>2. hook' \in [Tool -> {"fresh", "ready", "closed"}] /\ doubled' \subseteq Tool /\ exempt' \subseteq Tool
    BY <1>1, <1>2, <1>3 DEF EnvTypes
  <2> QED BY <1>1, <1>2, <1>7, <2>1, <2>2 DEF EnvTypes
<1>10. OnceInv'
  BY <1>1, <1>4 DEF OnceInv
<1>11. CloseInv'
  <2>1. \A d \in Client : pc'[d] = "cleanAll" => pc[d] = "cleanAll" /\ UNCHANGED <<at[d], held[d]>>
    BY <1>1, <1>2 DEF EnvTypes
  <2>2. \A j \in 1 .. Len(entries') :
           \/ entries'[j] = Gone \/ (j \in 1 .. Len(entries) /\ entries'[j] = entries[j])
           \/ (InUse => entries'[j] \in exempt')
    BY <1>1, <1>5, <1>6
  <2>3. \A u \in Tool : hook'[u] = "ready" => hook[u] = "ready" \/ (InUse => u \in exempt')
    BY <1>1, <1>2, <1>3 DEF EnvTypes
  <2>4. exempt \subseteq exempt'
    BY <1>1
  <2> QED BY <1>1, <1>2, <1>7, <2>1, <2>2, <2>3, <2>4, CloseStays DEF EnvInv
<1> QED BY <1>9, <1>10, <1>11 DEF EnvInv

(* A call that is over at once and changes at most the agents. *)
LEMMA DoneStays ==
  ASSUME EnvInv, NEW c \in Client, pc[c] = "idle", ToPc(c, "done"), agents' \subseteq AgentId,
         UNCHANGED <<entries, warmedUp, shutdown, healthState, hook, at, held, raced, doubled, exempt>>
  PROVE  EnvInv'
<1>1. /\ pc[c] = "idle" /\ pc' = [pc EXCEPT ![c] = "done"]
      /\ UNCHANGED <<entries, warmedUp, shutdown, healthState, hook, at, held, raced, doubled, exempt>>
  BY DEF ToPc
<1>2. EnvTypes /\ MapTypes
  BY DEF EnvInv, EnvTypes
<1>4. Aside(c)
  BY <1>1, <1>2 DEF Aside, EnvTypes, EnvState, Sweeps, WarmStages, Holding
<1>5. Len(entries') >= Len(entries) /\ Len(entries') \in Nat /\ MapTypes' /\ entries' \in Seq(Tool \cup {Gone})
  BY <1>1, <1>2, LenProperties DEF MapTypes
<1>6. EnvTypes'
  <2>1. /\ pc' \in [Client -> EnvState] /\ at' \in [Client -> Nat]
        /\ held' \in [Client -> Tool \cup {NoTool}]
        /\ \A d \in Client : at'[d] <= Len(entries') /\ (pc'[d] \in Holding => held'[d] \in Tool)
    BY <1>2, <1>4, <1>5, AsideTypes
  <2> QED BY <1>1, <1>2, <1>5, <2>1 DEF EnvTypes
<1>7. \A d \in Client : pc'[d] = pc[d] \/ (pc[d] = "idle" /\ pc'[d] = "done")
  BY <1>1, <1>2 DEF EnvTypes
<1>8. OnceInv'
  <2>1. \A d \in Client : /\ pc'[d] = "initializing" => raced'
                          /\ pc'[d] = "initAll" => pc[d] = "initAll" /\ UNCHANGED <<at[d], held[d]>>
                          /\ pc'[d] \in WarmStages => pc[d] \in WarmStages
                          /\ pc[d] \in WarmStages => pc'[d] \in WarmStages
    BY <1>1, <1>7 DEF WarmStages, EnvInv, OnceInv
  <2>2. raced' \in BOOLEAN /\ warmedUp' \in BOOLEAN
    BY <1>6 DEF EnvTypes
  <2> QED BY <1>1, <1>2, <1>5, <2>1, <2>2, OnceStays DEF EnvInv
<1>9. CloseInv'
  <2>1. \A d \in Client : pc'[d] = "cleanAll" => pc[d] = "cleanAll" /\ UNCHANGED <<at[d], held[d]>>
    BY <1>1, <1>7
  <2> QED BY <1>1, <1>2, <1>5, <2>1, CloseStays DEF EnvInv
<1> QED BY <1>6, <1>8, <1>9 DEF EnvInv

(* unregister() begins. *)
LEMMA UnregisterStays ==
  ASSUME EnvInv, NEW c \in Client, NEW n, Unregister(c, n)
  PROVE  EnvInv'
<1>2. EnvTypes /\ MapTypes
  BY DEF EnvInv, EnvTypes
<1>a. CASE ~Has(n)
  BY <1>2, <1>a, DoneStays DEF Unregister, ghosts, EnvTypes
<1>b. CASE Has(n)
  <2>1. /\ pc[c] = "idle" /\ held' = [held EXCEPT ![c] = Get(n)] /\ pc' = [pc EXCEPT ![c] = "cleaning"]
        /\ UNCHANGED <<entries, agents, warmedUp, shutdown, healthState, hook, at, raced, doubled, exempt>>
    BY <1>b DEF Unregister, ToPc, ghosts
  <2>3. Get(n) \in Tool
    <3>1. PICK i : i \in Places(n)
      BY <1>b DEF Has
    <3> QED BY <1>2, <1>b, <3>1, PlaceIs DEF Get
  <2>4. Aside(c)
    BY <2>1, <1>2, <2>3 DEF Aside, EnvTypes, EnvState, Sweeps, WarmStages, Holding
  <2>5. Len(entries') >= Len(entries) /\ Len(entries') \in Nat /\ MapTypes' /\ entries' \in Seq(Tool \cup {Gone})
    BY <2>1, <1>2, LenProperties DEF MapTypes
  <2>6. EnvTypes'
    <3>1. /\ pc' \in [Client -> EnvState] /\ at' \in [Client -> Nat]
          /\ held' \in [Client -> Tool \cup {NoTool}]
          /\ \A d \in Client : at'[d] <= Len(entries') /\ (pc'[d] \in Holding => held'[d] \in Tool)
      BY <1>2, <2>4, <2>5, AsideTypes
    <3> QED BY <2>1, <1>2, <2>5, <3>1 DEF EnvTypes
  <2>7. \A d \in Client : (pc'[d] = pc[d] /\ UNCHANGED <<at[d], held[d]>>)
                          \/ (pc[d] = "idle" /\ pc'[d] = "cleaning")
    BY <2>1, <1>2 DEF EnvTypes
  <2>8. OnceInv'
    <3>1. \A d \in Client : /\ pc'[d] = "initializing" => raced'
                            /\ pc'[d] = "initAll" => pc[d] = "initAll" /\ UNCHANGED <<at[d], held[d]>>
                            /\ pc'[d] \in WarmStages => pc[d] \in WarmStages
                            /\ pc[d] \in WarmStages => pc'[d] \in WarmStages
      BY <2>1, <2>7 DEF WarmStages, EnvInv, OnceInv
    <3>2. raced' \in BOOLEAN /\ warmedUp' \in BOOLEAN
      BY <2>6 DEF EnvTypes
    <3> QED BY <2>1, <1>2, <2>5, <3>1, <3>2, OnceStays DEF EnvInv
  <2>9. CloseInv'
    <3>1. \A d \in Client : pc'[d] = "cleanAll" => pc[d] = "cleanAll" /\ UNCHANGED <<at[d], held[d]>>
      BY <2>1, <2>7
    <3> QED BY <2>1, <1>2, <2>5, <3>1, CloseStays DEF EnvInv
  <2> QED BY <2>6, <2>8, <2>9 DEF EnvInv
<1> QED BY <1>a, <1>b

(* It ends: whatever has the name goes. *)
LEMMA UnregisterEndsStays ==
  ASSUME EnvInv, NEW c \in Client, UnregisterEnds(c)
  PROVE  EnvInv'
<1> DEFINE n == NameOf[held[c]]
<1>1. /\ pc[c] = "cleaning" /\ hook' = [hook EXCEPT ![held[c]] = "closed"] /\ entries' = Delete(n)
      /\ held' = [held EXCEPT ![c] = NoTool] /\ pc' = [pc EXCEPT ![c] = "done"]
      /\ UNCHANGED <<agents, warmedUp, shutdown, healthState, at, raced, doubled, exempt>>
  BY DEF UnregisterEnds, Close, ToPc, ghosts
<1> HIDE DEF n
<1>2. EnvTypes /\ MapTypes
  BY DEF EnvInv, EnvTypes
<1>3. /\ entries' \in Seq(Tool \cup {Gone}) /\ OneToolPerName(entries') /\ Len(entries') = Len(entries)
      /\ \A j \in 1 .. Len(entries) : entries'[j] \in {entries[j], Gone}
  BY <1>1, <1>2, DeleteIs
<1>4. Aside(c)
  BY <1>1, <1>2 DEF Aside, EnvTypes, EnvState, Sweeps, WarmStages, Holding
<1>5. Len(entries') >= Len(entries) /\ Len(entries') \in Nat /\ MapTypes'
  <2>1. Len(entries) \in Nat
    BY <1>2, LenProperties DEF MapTypes
  <2> QED BY <1>3, <2>1 DEF MapTypes
<1>6. EnvTypes'
  <2>1. /\ pc' \in [Client -> EnvState] /\ at' \in [Client -> Nat]
        /\ held' \in [Client -> Tool \cup {NoTool}]
        /\ \A d \in Client : at'[d] <= Len(entries') /\ (pc'[d] \in Holding => held'[d] \in Tool)
    BY <1>2, <1>4, <1>5, AsideTypes
  <2>2. hook' \in [Tool -> {"fresh", "ready", "closed"}]
    BY <1>1, <1>2 DEF EnvTypes
  <2> QED BY <1>1, <1>2, <1>5, <2>1, <2>2 DEF EnvTypes
<1>7. \A d \in Client : (pc'[d] = pc[d] /\ UNCHANGED <<at[d], held[d]>>) \/ (pc[d] = "cleaning" /\ pc'[d] = "done")
  BY <1>1, <1>2 DEF EnvTypes
<1>8. \A t \in Tool : hook'[t] = "ready" => hook[t] = "ready"
  BY <1>1, <1>2 DEF EnvTypes
<1>9. OnceInv'
  <2>1. \A d \in Client : /\ pc'[d] = "initializing" => raced'
                          /\ pc'[d] = "initAll" => pc[d] = "initAll" /\ UNCHANGED <<at[d], held[d]>>
                          /\ pc'[d] \in WarmStages => pc[d] \in WarmStages
                          /\ pc[d] \in WarmStages => pc'[d] \in WarmStages
    BY <1>1, <1>7 DEF WarmStages, EnvInv, OnceInv
  <2>2. raced' \in BOOLEAN /\ warmedUp' \in BOOLEAN
    BY <1>6 DEF EnvTypes
  <2> QED BY <1>1, <1>2, <1>3, <1>8, <2>1, <2>2, OnceStays DEF EnvInv
<1>10. CloseInv'
  <2>1. \A d \in Client : pc'[d] = "cleanAll" => pc[d] = "cleanAll" /\ UNCHANGED <<at[d], held[d]>>
    BY <1>7
  <2> QED BY <1>1, <1>2, <1>3, <1>8, <2>1, CloseStays DEF EnvInv
<1> QED BY <1>6, <1>9, <1>10 DEF EnvInv

(* The agents were checked; a warm-up is over then. *)
LEMMA AgentsCheckedStays ==
  ASSUME EnvInv, NEW c \in Client, AgentsChecked(c)
  PROVE  EnvInv'
<1>1. /\ pc[c] \in {"agentsInWarmup", "agents"} /\ pc' = [pc EXCEPT ![c] = "done"]
      /\ warmedUp' = (warmedUp \/ pc[c] = "agentsInWarmup")
      /\ UNCHANGED <<entries, agents, shutdown, healthState, hook, at, held, raced, doubled, exempt>>
  BY DEF AgentsChecked, ToPc, ghosts
<1>2. EnvTypes /\ MapTypes
  BY DEF EnvInv, EnvTypes
<1>3. Aside(c)
  BY <1>1, <1>2 DEF Aside, EnvTypes, EnvState, Sweeps, WarmStages, Holding
<1>4. Len(entries') >= Len(entries) /\ Len(entries') \in Nat /\ MapTypes' /\ entries' \in Seq(Tool \cup {Gone})
  BY <1>1, <1>2, LenProperties DEF MapTypes
<1>5. EnvTypes'
  <2>1. /\ pc' \in [Client -> EnvState] /\ at' \in [Client -> Nat]
        /\ held' \in [Client -> Tool \cup {NoTool}]
        /\ \A d \in Client : at'[d] <= Len(entries') /\ (pc'[d] \in Holding => held'[d] \in Tool)
    BY <1>2, <1>3, <1>4, AsideTypes
  <2> QED BY <1>1, <1>2, <1>4, <2>1 DEF EnvTypes
<1>6. \A d \in Client : pc'[d] = IF d = c THEN "done" ELSE pc[d]
  BY <1>1, <1>2 DEF EnvTypes
<1>7. OnceInv'
  <2>1. \A d \in Client : /\ pc'[d] = "initializing" => raced'
                          /\ pc'[d] = "initAll" => pc[d] = "initAll" /\ UNCHANGED <<at[d], held[d]>>
                          /\ pc'[d] \in WarmStages => pc[d] \in WarmStages
    BY <1>1, <1>6 DEF WarmStages, EnvInv, OnceInv
  <2>2. \/ warmedUp' = warmedUp /\ \A d \in Client : pc[d] \in WarmStages => pc'[d] \in WarmStages
        \/ warmedUp' /\ \E d \in Client : pc[d] \in WarmStages /\ pc'[d] \notin WarmStages
    <3>1. CASE pc[c] = "agentsInWarmup"
      <4>1. pc[c] \in WarmStages /\ pc'[c] \notin WarmStages
        BY <1>6, <3>1 DEF WarmStages
      <4>2. warmedUp'
        BY <1>1, <3>1
      <4> QED BY <4>1, <4>2
    <3>2. CASE pc[c] = "agents"
      BY <1>1, <1>2, <1>6, <3>2 DEF WarmStages, EnvTypes
    <3> QED BY <1>1, <3>1, <3>2
  <2>3. raced' \in BOOLEAN /\ warmedUp' \in BOOLEAN
    BY <1>5 DEF EnvTypes
  <2> QED BY <1>1, <1>2, <1>4, <2>1, <2>2, <2>3, OnceStays DEF EnvInv
<1>8. CloseInv'
  <2>1. \A d \in Client : pc'[d] = "cleanAll" => pc[d] = "cleanAll" /\ UNCHANGED <<at[d], held[d]>>
    BY <1>1, <1>6
  <2> QED BY <1>1, <1>2, <1>4, <2>1, CloseStays DEF EnvInv
<1> QED BY <1>5, <1>7, <1>8 DEF EnvInv

(* Who else Seek moves: nobody. *)
LEMMA SeekOthers ==
  ASSUME EnvTypes, NEW c \in Client, NEW i \in Nat, NEW loop, NEW after, Seek(c, i, loop, after)
  PROVE  /\ pc'[c] \in {loop, after}
         /\ \A d \in Client \ {c} : pc'[d] = pc[d] /\ at'[d] = at[d] /\ held'[d] = held[d]
<1>1. CASE SeekEnds(c, i, after)
  BY <1>1 DEF SeekEnds, EnvTypes
<1>2. CASE \E m \in 1 .. Len(entries) : SeekFinds(c, i, loop, m)
  BY <1>2 DEF SeekFinds, EnvTypes
<1> QED BY <1>1, <1>2, SeekIs

(* A tool is at one place of the Map only. *)
LEMMA OnePlace ==
  ASSUME MapTypes, NEW i \in 1 .. Len(entries), NEW j \in 1 .. Len(entries),
         entries[i] # Gone, entries[i] = entries[j]
  PROVE  i = j
<1>1. DOMAIN entries = 1 .. Len(entries)
  BY LenProperties DEF MapTypes
<1> QED BY <1>1 DEF MapTypes, OneToolPerName

(* A health check moves on, in a warm-up or by itself. *)
LEMMA CheckMoves ==
  ASSUME EnvInv, NEW c \in Client, NEW i \in Nat, NEW loop, NEW after, Seek(c, i, loop, after),
         \/ pc[c] \in {"idle", "check"} /\ loop = "check" /\ after = "agents"
         \/ pc[c] = "checkInWarmup" /\ loop = "checkInWarmup" /\ after = "agentsInWarmup",
         healthState' \in [Tool -> Health],
         UNCHANGED <<entries, agents, warmedUp, shutdown, hook, raced, doubled, exempt>>
  PROVE  EnvInv'
<1>1. EnvTypes /\ MapTypes
  BY DEF EnvInv, EnvTypes
<1>2. loop \in EnvState /\ after \in EnvState \ Holding /\ {loop, after} \cap {"initAll", "initializing", "cleanAll"} = {}
      /\ (pc[c] \in WarmStages <=> loop \in WarmStages) /\ (loop \in WarmStages <=> after \in WarmStages)
  BY DEF EnvState, Sweeps, Holding, WarmStages
<1>3. /\ pc' \in [Client -> EnvState] /\ at' \in [Client -> Nat]
      /\ held' \in [Client -> Tool \cup {NoTool}]
      /\ \A d \in Client : at'[d] <= Len(entries) /\ (pc'[d] \in Holding => held'[d] \in Tool)
  BY <1>1, <1>2, SeekTypes
<1>4. /\ pc'[c] \in {loop, after}
      /\ \A d \in Client \ {c} : pc'[d] = pc[d] /\ at'[d] = at[d] /\ held'[d] = held[d]
  BY <1>1, SeekOthers
<1>5. MapTypes' /\ entries' \in Seq(Tool \cup {Gone})
  BY <1>1 DEF MapTypes
<1>6. EnvTypes'
  BY <1>1, <1>3, <1>5 DEF EnvTypes
<1>7. OnceInv'
  <2>1. \A d \in Client : /\ pc'[d] = "initializing" => raced'
                          /\ pc'[d] = "initAll" => pc[d] = "initAll" /\ UNCHANGED <<at[d], held[d]>>
                          /\ pc'[d] \in WarmStages <=> pc[d] \in WarmStages
    BY <1>2, <1>4 DEF EnvInv, OnceInv
  <2>2. raced' \in BOOLEAN /\ warmedUp' \in BOOLEAN
    BY <1>6 DEF EnvTypes
  <2> QED BY <1>1, <1>5, <2>1, <2>2, OnceStays DEF EnvInv
<1>8. CloseInv'
  <2>1. \A d \in Client : pc'[d] = "cleanAll" => pc[d] = "cleanAll" /\ UNCHANGED <<at[d], held[d]>>
    BY <1>2, <1>4
  <2> QED BY <1>1, <1>5, <2>1, CloseStays DEF EnvInv
<1> QED BY <1>6, <1>7, <1>8 DEF EnvInv

(* A warm-up begins. *)
LEMMA WarmUpStays ==
  ASSUME EnvInv, NEW c \in Client, WarmUp(c)
  PROVE  EnvInv'
<1>1. EnvTypes /\ MapTypes
  BY DEF EnvInv, EnvTypes
<1>2. CASE warmedUp
  BY <1>1, <1>2, DoneStays DEF WarmUp, EnvTypes
<1>3. CASE ~warmedUp
  <2>1. /\ pc[c] = "idle" /\ Seek(c, 1, "initAll", "checkInWarmup") /\ raced' = (raced \/ Warming)
        /\ UNCHANGED <<entries, agents, warmedUp, shutdown, healthState, hook, doubled, exempt>>
    BY <1>3 DEF WarmUp
  <2>2. "initAll" \in EnvState /\ "checkInWarmup" \in EnvState \ Holding
    BY DEF EnvState, Sweeps, Holding
  <2>3. /\ pc' \in [Client -> EnvState] /\ at' \in [Client -> Nat]
        /\ held' \in [Client -> Tool \cup {NoTool}]
        /\ \A d \in Client : at'[d] <= Len(entries) /\ (pc'[d] \in Holding => held'[d] \in Tool)
    BY <1>1, <2>1, <2>2, SeekTypes
  <2>4. /\ pc'[c] \in {"initAll", "checkInWarmup"}
        /\ \A d \in Client \ {c} : pc'[d] = pc[d] /\ at'[d] = at[d] /\ held'[d] = held[d]
    BY <1>1, <2>1, SeekOthers
  <2>5. MapTypes' /\ entries' \in Seq(Tool \cup {Gone})
    BY <1>1, <2>1 DEF MapTypes
  <2>6. raced' \in BOOLEAN
    BY <1>1, <2>1 DEF EnvTypes
  <2>7. EnvTypes'
    BY <1>1, <2>1, <2>3, <2>5, <2>6 DEF EnvTypes
  <2>8. OnceInv'
    <3> SUFFICES ASSUME ~raced' PROVE OnceInv'
      BY DEF OnceInv
    <3>1. ~raced /\ \A d \in Client : pc[d] \notin WarmStages
      BY <2>1 DEF Warming, WarmStages
    <3>2. /\ doubled = {} /\ \A d \in Client : pc[d] # "initializing"
          /\ \A i \in 1 .. Len(entries) : entries[i] # Gone => hook[entries[i]] # "ready"
      BY <1>3, <3>1 DEF EnvInv, OnceInv
    <3>3. \A d \in Client : pc'[d] # "initializing" /\ (pc'[d] \in WarmStages => d = c)
      BY <2>4, <3>1, <3>2
    <3>4. ASSUME pc'[c] = "initAll"
          PROVE  /\ hook[held'[c]] # "ready"
                 /\ \A i \in 1 .. Len(entries) : i > at'[c] /\ entries[i] # Gone =>
                      hook[entries[i]] # "ready" /\ entries[i] # held'[c]
      <4>1. ~SeekEnds(c, 1, "checkInWarmup")
        BY <1>1, <3>4 DEF SeekEnds, EnvTypes
      <4>2. PICK m \in 1 .. Len(entries) : SeekFinds(c, 1, "initAll", m)
        BY <1>1, <2>1, <4>1, SeekIs
      <4>3. held'[c] = entries[m] /\ at'[c] = m /\ entries[m] # Gone
        BY <1>1, <4>2, ToolAssumption DEF SeekFinds, EnvTypes
      <4>4. \A i \in 1 .. Len(entries) : i > m => entries[i] # entries[m]
        BY <1>1, <4>3, OnePlace
      <4> QED BY <3>2, <4>3, <4>4
    <3>5. warmedUp' = FALSE /\ c \in Client /\ pc'[c] \in WarmStages
      BY <1>1, <1>3, <2>1, <2>4 DEF EnvTypes, WarmStages
    <3>6. \A d \in Client : pc'[d] = "initAll" => d = c
      BY <3>3 DEF WarmStages
    <3> QED BY <2>1, <3>2, <3>3, <3>4, <3>5, <3>6 DEF OnceInv
  <2>9. CloseInv'
    <3>1. \A d \in Client : pc'[d] = "cleanAll" => pc[d] = "cleanAll" /\ UNCHANGED <<at[d], held[d]>>
      BY <2>4
    <3> QED BY <1>1, <2>1, <2>5, <3>1, CloseStays DEF EnvInv
  <2> QED BY <2>7, <2>8, <2>9 DEF EnvInv
<1> QED BY <1>2, <1>3

(* An initialize() has settled. *)
LEMMA InitStepStays ==
  ASSUME EnvInv, NEW c \in Client, NEW ok \in BOOLEAN, InitStep(c, ok)
  PROVE  EnvInv'
<1> DEFINE t == held[c]  i == at[c] + 1
<1>1. EnvTypes /\ MapTypes
  BY DEF EnvInv, EnvTypes
<1>2. /\ pc[c] = "initAll" /\ Seek(c, i, "initAll", "checkInWarmup")
      /\ UNCHANGED <<entries, agents, warmedUp, shutdown, healthState, raced>>
      /\ \/ /\ hook' = [hook EXCEPT ![t] = "ready"]
            /\ doubled' = IF hook[t] = "ready" THEN doubled \cup {t} ELSE doubled
            /\ exempt' = IF InUse THEN exempt \cup {t} ELSE exempt
         \/ UNCHANGED <<hook, doubled, exempt>>
  BY DEF InitStep, Initialized, NextPlace
<1>3. t \in Tool /\ i \in Nat /\ at[c] \in Nat /\ i = at[c] + 1
  BY <1>1, <1>2 DEF EnvTypes, Holding
<1>4. "initAll" \in EnvState /\ "checkInWarmup" \in EnvState \ Holding
  BY DEF EnvState, Sweeps, Holding
<1> HIDE DEF t, i
<1>5. /\ pc' \in [Client -> EnvState] /\ at' \in [Client -> Nat]
      /\ held' \in [Client -> Tool \cup {NoTool}]
      /\ \A d \in Client : at'[d] <= Len(entries) /\ (pc'[d] \in Holding => held'[d] \in Tool)
  BY <1>1, <1>2, <1>3, <1>4, SeekTypes
<1>6. /\ pc'[c] \in {"initAll", "checkInWarmup"}
      /\ \A d \in Client \ {c} : pc'[d] = pc[d] /\ at'[d] = at[d] /\ held'[d] = held[d]
  BY <1>1, <1>2, <1>3, SeekOthers
<1>7. MapTypes' /\ entries' \in Seq(Tool \cup {Gone})
  BY <1>1, <1>2 DEF MapTypes
<1>8. /\ hook' \in [Tool -> {"fresh", "ready", "closed"}] /\ doubled' \subseteq Tool /\ exempt' \subseteq Tool
      /\ exempt \subseteq exempt'
      /\ \A v \in Tool : hook'[v] = "ready" => hook[v] = "ready" \/ (v = t /\ (InUse => v \in exempt'))
  BY <1>1, <1>2, <1>3 DEF EnvTypes
<1>9. EnvTypes'
  BY <1>1, <1>2, <1>5, <1>7, <1>8 DEF EnvTypes
<1>10. OnceInv'
  <2> SUFFICES ASSUME ~raced PROVE OnceInv'
    BY <1>2 DEF OnceInv
  <2>1. /\ doubled = {} /\ \A d \in Client : pc[d] # "initializing"
        /\ \A d \in Client : pc[d] \in WarmStages => d = c
        /\ ~warmedUp
    BY <1>2 DEF EnvInv, OnceInv, WarmStages
  <2>2. /\ hook[t] # "ready"
        /\ \A j \in 1 .. Len(entries) : j >= i /\ entries[j] # Gone => hook[entries[j]] # "ready" /\ entries[j] # t
    BY <1>2, <1>3 DEF EnvInv, OnceInv, t
  <2>3. doubled' = {}
    BY <1>2, <2>1, <2>2
  <2>4. \A d \in Client : pc'[d] # "initializing" /\ (pc'[d] \in WarmStages => d = c)
    BY <1>6, <2>1
  <2>5. \A j \in 1 .. Len(entries) : j >= i /\ entries[j] # Gone => hook'[entries[j]] # "ready"
    <3>1. \A j \in 1 .. Len(entries) : entries[j] # Gone => entries[j] \in Tool
      BY <1>1, ElementOfSeq DEF MapTypes
    <3> QED BY <1>8, <2>2, <3>1
  <2>6. ASSUME pc'[c] = "initAll"
        PROVE  /\ hook'[held'[c]] # "ready"
               /\ \A j \in 1 .. Len(entries) : j > at'[c] /\ entries[j] # Gone =>
                    hook'[entries[j]] # "ready" /\ entries[j] # held'[c]
    <3>1. ~SeekEnds(c, i, "checkInWarmup")
      BY <1>1, <2>6 DEF SeekEnds, EnvTypes
    <3>2. PICK m \in 1 .. Len(entries) : SeekFinds(c, i, "initAll", m)
      BY <1>1, <1>2, <1>3, <3>1, SeekIs
    <3>3. held'[c] = entries[m] /\ at'[c] = m /\ entries[m] # Gone /\ m >= i
      BY <1>1, <3>2, ToolAssumption DEF SeekFinds, EnvTypes
    <3>4. \A j \in 1 .. Len(entries) : j > m => entries[j] # entries[m]
      BY <1>1, <3>3, OnePlace
    <3>5. \A j \in 1 .. Len(entries) : j > m => j >= i
      BY <1>3, <3>3
    <3> QED BY <2>5, <3>3, <3>4, <3>5
  <2>7. pc'[c] \in WarmStages
    BY <1>6 DEF WarmStages
  <2>8. \A d \in Client : pc'[d] = "initAll" => d = c
    BY <2>4 DEF WarmStages
  <2> QED BY <1>2, <2>1, <2>3, <2>4, <2>6, <2>7, <2>8 DEF OnceInv
<1>11. CloseInv'
  <2>1. \A d \in Client : pc'[d] = "cleanAll" => pc[d] = "cleanAll" /\ UNCHANGED <<at[d], held[d]>>
    BY <1>6
  <2> QED BY <1>1, <1>2, <1>7, <1>8, <2>1, CloseStays DEF EnvInv
<1> QED BY <1>9, <1>10, <1>11 DEF EnvInv

(* A shutdown begins. *)
LEMMA ShutDownStays ==
  ASSUME EnvInv, NEW c \in Client, ShutDown(c)
  PROVE  EnvInv'
<1>1. EnvTypes /\ MapTypes
  BY DEF EnvInv, EnvTypes
<1>2. CASE shutdown
  BY <1>1, <1>2, DoneStays DEF ShutDown, EnvTypes
<1>3. CASE ~shutdown
  <2>1. /\ pc[c] = "idle" /\ Seek(c, 1, "cleanAll", "cleanAll")
        /\ exempt' = exempt \cup {held[d] : d \in {e \in Client : pc[e] \in {"initAll", "initializing"}}}
        /\ UNCHANGED <<entries, agents, warmedUp, shutdown, healthState, hook, raced, doubled>>
    BY <1>3 DEF ShutDown
  <2>2. "cleanAll" \in EnvState \ Holding
    BY DEF EnvState, Sweeps, Holding
  <2>3. /\ pc' \in [Client -> EnvState] /\ at' \in [Client -> Nat]
        /\ held' \in [Client -> Tool \cup {NoTool}]
        /\ \A d \in Client : at'[d] <= Len(entries) /\ (pc'[d] \in Holding => held'[d] \in Tool)
    BY <1>1, <2>1, <2>2, SeekTypes
  <2>4. /\ pc'[c] = "cleanAll"
        /\ \A d \in Client \ {c} : pc'[d] = pc[d] /\ at'[d] = at[d] /\ held'[d] = held[d]
    <3>1. pc'[c] \in {"cleanAll", "cleanAll"}
          /\ \A d \in Client \ {c} : pc'[d] = pc[d] /\ at'[d] = at[d] /\ held'[d] = held[d]
      BY <1>1, <2>1, SeekOthers
    <3> QED BY <3>1
  <2>5. MapTypes' /\ entries' \in Seq(Tool \cup {Gone})
    BY <1>1, <2>1 DEF MapTypes
  <2>6. exempt' \subseteq Tool /\ exempt \subseteq exempt'
    BY <1>1, <2>1 DEF EnvTypes, Holding
  <2>7. EnvTypes'
    BY <1>1, <2>1, <2>3, <2>5, <2>6 DEF EnvTypes
  <2>8. OnceInv'
    <3>1. \A d \in Client : /\ pc'[d] = "initializing" => raced'
                            /\ pc'[d] = "initAll" => pc[d] = "initAll" /\ UNCHANGED <<at[d], held[d]>>
                            /\ pc'[d] \in WarmStages <=> pc[d] \in WarmStages
      BY <2>1, <2>4 DEF EnvInv, OnceInv, WarmStages
    <3>2. raced' \in BOOLEAN /\ warmedUp' \in BOOLEAN
      BY <2>7 DEF EnvTypes
    <3> QED BY <1>1, <2>1, <2>5, <3>1, <3>2, OnceStays DEF EnvInv
  <2>9. CloseInv'
    <3>1. \A i \in 1 .. Len(entries) : DealtWith(i) => DealtWith(i)'
      BY <2>1, <2>6 DEF DealtWith
    <3>2. ASSUME NEW d \in Client, NEW i \in 1 .. Len(entries'), pc'[d] = "cleanAll",
                 held'[d] = NoTool \/ i < at'[d] \/ (i = at'[d] /\ entries'[i] # held'[d])
          PROVE  DealtWith(i)'
      <4>1. CASE d # c
        BY <2>1, <2>4, <3>1, <3>2, <4>1 DEF CloseInv, EnvInv
      <4>2. CASE d = c
        <5>1. CASE SeekEnds(c, 1, "cleanAll")
          BY <1>1, <2>1, <5>1 DEF SeekEnds, DealtWith
        <5>2. CASE \E m \in 1 .. Len(entries) : SeekFinds(c, 1, "cleanAll", m)
          <6>1. PICK m \in 1 .. Len(entries) : SeekFinds(c, 1, "cleanAll", m)
            BY <5>2
          <6>2. held'[c] = entries[m] /\ at'[c] = m /\ held'[c] # NoTool
            BY <1>1, <6>1, ToolAssumption DEF SeekFinds, EnvTypes
          <6>3. i < m
            BY <2>1, <3>2, <4>2, <6>2
          <6>4. entries[i] = Gone
            BY <2>1, <6>1, <6>3 DEF SeekFinds
          <6> QED BY <2>1, <6>4 DEF DealtWith
        <5> QED BY <1>1, <2>1, <5>1, <5>2, SeekIs
      <4> QED BY <4>1, <4>2
    <3>3. ~shutdown'
      BY <1>3, <2>1
    <3> QED BY <3>2, <3>3 DEF CloseInv
  <2> QED BY <2>7, <2>8, <2>9 DEF EnvInv
<1> QED BY <1>2, <1>3

(* A cleanup() has settled; then the next one, or the environment is closed. *)
LEMMA CleanStepStays ==
  ASSUME EnvInv, NEW c \in Client, CleanStep(c)
  PROVE  EnvInv'
<1> DEFINE i == at[c] + 1
<1>1. EnvTypes /\ MapTypes /\ Len(entries) \in Nat /\ DOMAIN entries = 1 .. Len(entries)
  BY LenProperties DEF EnvInv, EnvTypes, MapTypes
<1>2. /\ pc[c] = "cleanAll" /\ UNCHANGED <<entries, agents, warmedUp, healthState, raced, doubled, exempt>>
      /\ hook' = IF held[c] = NoTool THEN hook ELSE [hook EXCEPT ![held[c]] = "closed"]
      /\ \/ /\ Swept(c) /\ shutdown' = TRUE /\ at' = [at EXCEPT ![c] = 0]
            /\ held' = [held EXCEPT ![c] = NoTool] /\ pc' = [pc EXCEPT ![c] = "done"]
         \/ ~Swept(c) /\ Seek(c, i, "cleanAll", "done") /\ shutdown' = shutdown
  BY DEF CleanStep, Close, NextPlace, ToPc, ghosts
<1>3. i \in Nat /\ at[c] \in Nat /\ i = at[c] + 1 /\ held[c] \in Tool \cup {NoTool}
  BY <1>1 DEF EnvTypes
<1>4. Rest(i) = {j \in 1 .. Len(entries) : j >= i /\ entries[j] # Gone}
  BY <1>1 DEF Rest
<1>5. Swept(c) <=> held[c] = NoTool \/ Rest(i) = {}
  BY DEF Swept, NextPlace
<1> HIDE DEF i
<1>6. "cleanAll" \in EnvState /\ "done" \in EnvState \ Holding
  BY DEF EnvState, Sweeps, Holding
<1>7. /\ pc' \in [Client -> EnvState] /\ at' \in [Client -> Nat]
      /\ held' \in [Client -> Tool \cup {NoTool}]
      /\ \A d \in Client : at'[d] <= Len(entries) /\ (pc'[d] \in Holding => held'[d] \in Tool)
  <2>1. CASE Swept(c)
    <3>1. /\ at' = [at EXCEPT ![c] = 0] /\ held' = [held EXCEPT ![c] = NoTool]
          /\ pc' = [pc EXCEPT ![c] = "done"]
      BY <1>2, <2>1
    <3>2. pc' \in [Client -> EnvState] /\ at' \in [Client -> Nat] /\ held' \in [Client -> Tool \cup {NoTool}]
      BY <1>1, <1>6, <3>1 DEF EnvTypes
    <3>3. \A d \in Client : at'[d] <= Len(entries)
      BY <1>1, <3>1 DEF EnvTypes
    <3>4. \A d \in Client : pc'[d] \in Holding => held'[d] \in Tool
      BY <1>1, <1>6, <3>1 DEF EnvTypes
    <3> QED BY <3>2, <3>3, <3>4
  <2>2. CASE ~Swept(c)
    BY <1>1, <1>2, <1>3, <1>6, <2>2, SeekTypes
  <2> QED BY <2>1, <2>2
<1>8. /\ pc'[c] \in {"cleanAll", "done"}
      /\ \A d \in Client \ {c} : pc'[d] = pc[d] /\ at'[d] = at[d] /\ held'[d] = held[d]
  <2>1. CASE Swept(c)
    BY <1>1, <1>2, <2>1 DEF EnvTypes
  <2>2. CASE ~Swept(c)
    BY <1>1, <1>2, <1>3, <2>2, SeekOthers
  <2> QED BY <2>1, <2>2
<1>9. MapTypes' /\ entries' \in Seq(Tool \cup {Gone})
  BY <1>1, <1>2 DEF MapTypes
<1>10. /\ hook' \in [Tool -> {"fresh", "ready", "closed"}] /\ shutdown' \in BOOLEAN
       /\ \A t \in Tool : hook'[t] = "ready" => hook[t] = "ready" /\ t # held[c]
  <2>1. held[c] = NoTool => held[c] \notin Tool
    BY ToolAssumption
  <2> QED BY <1>1, <1>2, <1>3, <2>1 DEF EnvTypes
<1>11. EnvTypes'
  BY <1>1, <1>2, <1>7, <1>9, <1>10 DEF EnvTypes
<1>12. OnceInv'
  <2>1. \A d \in Client : /\ pc'[d] = "initializing" => raced'
                          /\ pc'[d] = "initAll" => pc[d] = "initAll" /\ UNCHANGED <<at[d], held[d]>>
                          /\ pc'[d] \in WarmStages <=> pc[d] \in WarmStages
    BY <1>2, <1>8 DEF EnvInv, OnceInv, WarmStages
  <2>2. raced' \in BOOLEAN /\ warmedUp' \in BOOLEAN
    BY <1>11 DEF EnvTypes
  <2> QED BY <1>1, <1>2, <1>9, <1>10, <2>1, <2>2, OnceStays DEF EnvInv
<1>13. CloseInv'
  <2>1. \A j \in 1 .. Len(entries) : entries[j] # Gone => entries[j] \in Tool
    BY <1>1, ElementOfSeq DEF MapTypes
  <2>2. \A j \in 1 .. Len(entries) : DealtWith(j) => DealtWith(j)'
    BY <1>2, <1>10, <2>1 DEF DealtWith
  <2>3. \A j \in 1 .. Len(entries) : entries[j] = Gone \/ entries[j] = held[c] => DealtWith(j)'
    BY <1>2, <1>10, <2>1 DEF DealtWith
  <2>4. \A j \in 1 .. Len(entries) : held[c] = NoTool \/ j <= at[c] => DealtWith(j)'
    <3>1. ASSUME NEW j \in 1 .. Len(entries), held[c] = NoTool \/ j < at[c] PROVE DealtWith(j)'
      BY <1>2, <2>2, <3>1 DEF CloseInv, EnvInv
    <3>2. ASSUME NEW j \in 1 .. Len(entries), j = at[c] PROVE DealtWith(j)'
      BY <1>2, <2>2, <2>3, <3>2 DEF CloseInv, EnvInv
    <3> QED BY <1>3, <3>1, <3>2
  <2>5. ASSUME shutdown', NEW j \in 1 .. Len(entries) PROVE DealtWith(j)'
    <3>1. CASE Swept(c)
      <4>1. held[c] # NoTool /\ j > at[c] => entries[j] = Gone
        BY <1>3, <1>4, <1>5, <3>1
      <4> QED BY <1>3, <2>3, <2>4, <4>1
    <3>2. CASE ~Swept(c)
      BY <1>2, <2>2, <2>5, <3>2 DEF CloseInv, EnvInv
    <3> QED BY <3>1, <3>2
  <2>6. ASSUME NEW d \in Client, NEW j \in 1 .. Len(entries'), pc'[d] = "cleanAll",
               held'[d] = NoTool \/ j < at'[d] \/ (j = at'[d] /\ entries'[j] # held'[d])
        PROVE  DealtWith(j)'
    <3>1. CASE d # c
      BY <1>2, <1>8, <2>2, <2>6, <3>1 DEF CloseInv, EnvInv
    <3>2. CASE d = c
      <4>1. ~Swept(c)
        BY <1>1, <1>2, <2>6, <3>2 DEF EnvTypes
      <4>2. Rest(i) # {} /\ Seek(c, i, "cleanAll", "done")
        BY <1>2, <1>5, <4>1
      <4>3. ~SeekEnds(c, i, "done")
        BY <1>4, <4>2 DEF SeekEnds
      <4>4. PICK m \in 1 .. Len(entries) : SeekFinds(c, i, "cleanAll", m)
        BY <1>1, <1>3, <4>2, <4>3, SeekIs
      <4>5. held'[c] = entries[m] /\ at'[c] = m /\ held'[c] # NoTool
        BY <1>1, <4>4, ToolAssumption DEF SeekFinds, EnvTypes
      <4>6. j < m
        BY <1>2, <2>6, <3>2, <4>5
      <4>7. j > at[c] => entries[j] = Gone
        BY <1>2, <1>3, <4>4, <4>6 DEF SeekFinds
      <4> QED BY <1>2, <1>3, <2>3, <2>4, <4>7
    <3> QED BY <3>1, <3>2
  <2> QED BY <1>2, <2>5, <2>6 DEF CloseInv
<1> QED BY <1>11, <1>12, <1>13 DEF EnvInv

(* The registry, the hooks and the loops are sound at first. *)
LEMMA EnvInitSound ==
  ASSUME NEW tools \in Preset, NEW known \in Known, EnvInit(tools, known)
  PROVE  EnvInv
<1>1. tools \in Seq(Tool) /\ OneToolPerName(tools) /\ known \subseteq AgentId
  BY RuntimeAssumption
<1>2. tools \in Seq(Tool \cup {Gone}) /\ Len(tools) \in Nat
  BY <1>1, LenProperties, IsASeq, ElementOfSeq
<1>3. EnvTypes
  <2>1. MapTypes
    BY <1>1, <1>2 DEF EnvInit, MapTypes
  <2>2. agents \subseteq AgentId /\ warmedUp \in BOOLEAN /\ shutdown \in BOOLEAN /\ raced \in BOOLEAN
        /\ doubled \subseteq Tool /\ exempt \subseteq Tool
    BY <1>1 DEF EnvInit
  <2>3. /\ healthState \in [Tool -> Health] /\ hook \in [Tool -> {"fresh", "ready", "closed"}]
        /\ pc \in [Client -> EnvState] /\ at \in [Client -> Nat] /\ held \in [Client -> Tool \cup {NoTool}]
    BY DEF EnvInit, EnvState, Health
  <2>4. \A c \in Client : at[c] <= Len(entries) /\ pc[c] \notin Holding
    BY <1>2 DEF EnvInit, Holding
  <2> QED BY <2>1, <2>2, <2>3, <2>4 DEF EnvTypes
<1>4. \A i \in 1 .. Len(entries) : entries[i] # Gone => hook[entries[i]] # "ready"
  BY <1>1, <1>2, ElementOfSeq DEF EnvInit
<1>5. OnceInv
  BY <1>4 DEF EnvInit, OnceInv, WarmStages
<1>6. CloseInv
  BY DEF EnvInit, CloseInv
<1> QED BY <1>3, <1>5, <1>6 DEF EnvInv

(* It is all one, if nothing of the environment changes. *)
LEMMA EnvStands ==
  ASSUME EnvInv, UNCHANGED envVars
  PROVE  EnvInv'
<1>1. UNCHANGED <<entries, agents, warmedUp, shutdown, healthState, hook, pc, at, held, raced, doubled, exempt>>
  BY DEF envVars
<1>2. EnvTypes'
  BY <1>1 DEF EnvInv, EnvTypes, MapTypes
<1>3. OnceInv'
  BY <1>1 DEF EnvInv, OnceInv
<1>4. CloseInv'
  BY <1>1 DEF EnvInv, CloseInv, DealtWith
<1> QED BY <1>2, <1>3, <1>4 DEF EnvInv

(* Every call, and every answer it awaits, leaves the environment sound. *)
LEMMA ManageStays ==
  ASSUME EnvInv, op \in Workload, NEW c \in Client, Manage(c)
  PROVE  EnvInv'
<1>1. /\ op[c].kind \in {"register", "autoInit", "unregister"} => op[c].tool \in Tool
      /\ op[c].kind = "registerAgent" => op[c].agent \in AgentId
  BY RuntimeAssumption
<1>2. agents \subseteq AgentId
  BY DEF EnvInv, EnvTypes
<1>3. CASE op[c].kind = "event" /\ ForeignEvent(c)
  BY <1>2, <1>3, DoneStays DEF ForeignEvent, ghosts
<1>4. CASE op[c].kind = "register" /\ RegisterTool(c, op[c].tool)
  <2>1. Register(c, op[c].tool)
    BY <1>4 DEF RegisterTool
  <2> QED BY <1>1, <1>4, <2>1, RegisterStays
<1>5. CASE op[c].kind = "reset" /\ ResetCollector(c)
  BY <1>2, <1>5, DoneStays DEF ResetCollector, ghosts
<1>6. CASE op[c].kind = "autoInit" /\ RegisterInit(c, op[c].tool)
  BY <1>1, <1>6, RegisterInitStays
<1>7. CASE op[c].kind = "unregister" /\ Unregister(c, NameOf[op[c].tool])
  BY <1>7, UnregisterStays
<1>8. CASE op[c].kind = "warmup" /\ WarmUp(c)
  BY <1>8, WarmUpStays
<1>9. CASE op[c].kind = "shutdown" /\ ShutDown(c)
  BY <1>9, ShutDownStays
<1>10. CASE op[c].kind = "health" /\ HealthCheck(c)
  <2>1. /\ pc[c] = "idle" /\ Seek(c, 1, "check", "agents")
        /\ UNCHANGED <<entries, agents, warmedUp, shutdown, healthState, hook, raced, doubled, exempt>>
    BY <1>10 DEF HealthCheck, ghosts
  <2>2. healthState' \in [Tool -> Health]
    BY <2>1 DEF EnvInv, EnvTypes
  <2> QED BY <2>1, <2>2, CheckMoves
<1>11. CASE op[c].kind = "registerAgent" /\ RegisterAgent(c, op[c].agent)
  <2>1. agents' \subseteq AgentId
    BY <1>1, <1>2, <1>11 DEF RegisterAgent
  <2> QED BY <1>11, <2>1, DoneStays DEF RegisterAgent, ghosts
<1>12. CASE op[c].kind = "unregisterAgent" /\ UnregisterAgent(c, op[c].agent)
  <2>1. agents' \subseteq AgentId
    BY <1>2, <1>12 DEF UnregisterAgent
  <2> QED BY <1>12, <2>1, DoneStays DEF UnregisterAgent, ghosts
<1> QED BY <1>3, <1>4, <1>5, <1>6, <1>7, <1>8, <1>9, <1>10, <1>11, <1>12 DEF Manage

(* What was awaited has settled. *)
LEMMA AwaitedStays ==
  ASSUME EnvInv, NEW c \in Client, Awaited(c)
  PROVE  EnvInv'
<1>1. CASE \E ok \in {TRUE, ~HookFails} : InitEnds(c, ok) \/ InitStep(c, ok)
  <2>1. PICK ok \in BOOLEAN : InitEnds(c, ok) \/ InitStep(c, ok)
    BY <1>1, ToolAssumption
  <2> QED BY <2>1, InitEndsStays, InitStepStays
<1>2. CASE \E state \in Health \ {"unknown"} : CheckStep(c, state)
  <2>1. PICK state \in Health : CheckStep(c, state)
    BY <1>2
  <2> DEFINE i == at[c] + 1  after == IF pc[c] = "check" THEN "agents" ELSE "agentsInWarmup"
  <2>2. /\ pc[c] \in {"checkInWarmup", "check"} /\ Seek(c, i, pc[c], after)
        /\ healthState' = IF held[c] = NoTool THEN healthState ELSE [healthState EXCEPT ![held[c]] = state]
        /\ UNCHANGED <<entries, agents, warmedUp, shutdown, hook, raced, doubled, exempt>>
    BY <2>1 DEF CheckStep, NextPlace, ghosts
  <2>3. i \in Nat /\ healthState' \in [Tool -> Health]
    BY <2>2 DEF EnvInv, EnvTypes
  <2>4. PICK loop : loop = pc[c]
    OBVIOUS
  <2>5. \/ pc[c] \in {"idle", "check"} /\ loop = "check" /\ after = "agents"
        \/ pc[c] = "checkInWarmup" /\ loop = "checkInWarmup" /\ after = "agentsInWarmup"
    BY <2>2, <2>4
  <2>6. PICK next : next = after
    OBVIOUS
  <2>7. PICK place \in Nat : place = i
    BY <2>3
  <2> HIDE DEF i, after
  <2>8. Seek(c, place, loop, next)
    BY <2>2, <2>4, <2>6, <2>7
  <2>9. \/ pc[c] \in {"idle", "check"} /\ loop = "check" /\ next = "agents"
        \/ pc[c] = "checkInWarmup" /\ loop = "checkInWarmup" /\ next = "agentsInWarmup"
    BY <2>5, <2>6
  <2> QED BY <2>2, <2>3, <2>8, <2>9, CheckMoves
<1> QED BY <1>1, <1>2, UnregisterEndsStays, CleanStepStays, AgentsCheckedStays DEF Awaited

SoundInv == op \in Workload /\ EnvInv

(* Runs and tool calls leave the environment alone. *)
LEMMA SoundStep ==
  ASSUME SoundInv, [Next]_vars
  PROVE  SoundInv'
<1>1. CASE UNCHANGED vars
  BY <1>1, EnvStands DEF SoundInv, vars
<1>2. CASE Next
  <2>1. PICK c \in Client : \/ Run(c) \/ AgentStep(c) \/ FinishRun(c) \/ ToolStep(c) \/ Timers(c)
                            \/ Manage(c) \/ Awaited(c)
    BY <1>2 DEF Next
  <2>2. CASE Run(c) \/ AgentStep(c) \/ FinishRun(c) \/ ToolStep(c) \/ Timers(c)
    <3>1. UNCHANGED <<envVars, op>>
      BY <2>2 DEF Run, AgentStep, FinishRun, ToolStep, Timers, OnlyRun
    <3> QED BY <3>1, EnvStands DEF SoundInv
  <2>3. CASE Manage(c)
    <3>1. op' = op
      BY <2>3 DEF Manage, OnlyEnv, ForeignEvent, RegisterTool, ResetCollector
    <3> QED BY <2>3, <3>1, ManageStays DEF SoundInv
  <2>4. CASE Awaited(c)
    <3>1. op' = op
      BY <2>4 DEF Awaited, OnlyEnv
    <3> QED BY <2>4, <3>1, AwaitedStays DEF SoundInv
  <2> QED BY <2>1, <2>2, <2>3, <2>4
<1> QED BY <1>1, <1>2

(* A lookup by name finds the tool that has it. *)
LEMMA GetIs ==
  ASSUME MapTypes, NEW t \in Registered
  PROVE  Get(NameOf[t]) = t /\ Has(NameOf[t]) /\ t \in Tool
<1>1. PICK i \in DOMAIN entries : entries[i] = t /\ t # Gone
  BY DEF Registered
<1>2. i \in Places(NameOf[t])
  BY <1>1 DEF Places
<1> QED BY <1>1, <1>2, PlaceIs DEF Get

(* The recommended tool is the first of the fastest that are well. *)
LEMMA RecommendIs ==
  ASSUME EnvTypes, NEW cap
  PROVE  LET well == {t \in ToolsAt(Find(cap)) : Well(t)} IN
         /\ Recommend(cap) = NoTool <=> well = {}
         /\ Recommend(cap) # NoTool =>
              Recommend(cap) \in well /\ \A t \in well : MetaOf[Recommend(cap)].latency <= MetaOf[t].latency
<1> DEFINE candidates == {i \in Find(cap) : Well(entries[i])}
           well == {t \in ToolsAt(Find(cap)) : Well(t)}
<1>1. entries \in Seq(Tool \cup {Gone}) /\ DOMAIN entries = 1 .. Len(entries) /\ Len(entries) \in Nat
  BY LenProperties DEF EnvTypes, MapTypes
<1>2. candidates \subseteq 1 .. Len(entries) /\ \A i \in candidates : entries[i] \in Tool
  BY <1>1, ElementOfSeq DEF Find, Listed
<1>3. well = {entries[i] : i \in candidates}
  BY DEF ToolsAt
<1>4. Recommend(cap) = IF candidates = {} THEN NoTool ELSE entries[Min(Fastest(candidates))]
  BY DEF Recommend
<1> HIDE DEF candidates, well
<1>5. CASE candidates = {}
  BY <1>3, <1>4, <1>5 DEF well
<1>6. CASE candidates # {}
  <2> DEFINE latencies == {MetaOf[entries[i]].latency : i \in candidates}
  <2>1. latencies \subseteq Nat /\ latencies # {}
    BY <1>2, <1>6, MetadataAssumption
  <2>2. PICK least \in latencies : \A x \in latencies : least <= x
    <3> HIDE DEF latencies
    <3> QED BY <2>1, LeastIs
  <2>3. Fastest(candidates) # {} /\ Fastest(candidates) \subseteq candidates
    BY <2>2 DEF Fastest
  <2>4. Fastest(candidates) \subseteq Nat
    <3>1. \A i \in candidates : i \in Nat
      BY <1>1, <1>2
    <3> QED BY <2>3, <3>1
  <2>5. PICK m : m = Min(Fastest(candidates))
    OBVIOUS
  <2>6. m \in Fastest(candidates)
    BY <2>3, <2>4, <2>5, LeastIs
  <2>7. m \in candidates /\ \A j \in candidates : MetaOf[entries[m]].latency <= MetaOf[entries[j]].latency
    BY <2>6 DEF Fastest
  <2>8. Recommend(cap) = entries[m] /\ entries[m] # NoTool
    BY <1>2, <1>4, <1>6, <2>5, <2>7, ToolAssumption
  <2> QED BY <1>3, <1>6, <2>7, <2>8 DEF well
<1> QED BY <1>5, <1>6 DEF well

(* The lookups agree in any state of the right types. *)
LEMMA LookupsAgree ==
  ASSUME EnvTypes
  PROVE  ToolLookupsAgree
<1>1. MapTypes
  BY DEF EnvTypes
<1>2. \A t \in Registered : Get(NameOf[t]) = t /\ Has(NameOf[t]) /\ t \in Tool
  BY <1>1, GetIs
<1>3. ASSUME NEW cap \in Capabilities, NEW p \in Permissions
      PROVE  ToolsAt(FindCompatible({cap}, Permissions \ {p})) = ToolsAt(Find(cap)) \ ToolsAt(FindByPermission(p))
  <2>1. \A i \in Listed : entries[i] \in Registered
    BY DEF Listed, Registered
  <2>2. \A i \in Listed : MetaOf[entries[i]].permissions \subseteq Permissions
    BY <1>2, <2>1 DEF Permissions
  <2>3. \A i \in Listed : MetaOf[entries[i]].permissions \subseteq Permissions \ {p}
                          <=> p \notin MetaOf[entries[i]].permissions
    BY <2>2
  <2>4. \A i \in Listed : {cap} \cap MetaOf[entries[i]].capabilities # {}
                          <=> cap \in MetaOf[entries[i]].capabilities
    OBVIOUS
  <2>5. FindCompatible({cap}, Permissions \ {p}) =
          {i \in Listed : cap \in MetaOf[entries[i]].capabilities /\ p \notin MetaOf[entries[i]].permissions}
    BY <2>3, <2>4 DEF FindCompatible
  <2> QED BY <2>5 DEF ToolsAt, Find, FindByPermission
<1>4. \A t \in Registered, p \in Permissions : HasPermission(NameOf[t], p) <=> p \in MetaOf[t].permissions
  BY <1>2 DEF HasPermission
<1>5. ASSUME NEW t \in Registered
      PROVE  t \in ToolsAt(FindByTag(MetaOf[t].tags)) \cap ToolsAt(FindByCategory(MetaOf[t].category))
  <2>1. PICK i \in Listed : entries[i] = t
    BY DEF Registered, Listed
  <2> QED BY <2>1 DEF ToolsAt, FindByTag, FindByCategory
<1> QED BY <1>2, <1>3, <1>4, <1>5, RecommendIs DEF ToolLookupsAgree

(* So do those of agents. *)
LEMMA AgentsAgree == AgentLookupsAgree
<1>1. ListAgents({}, {}, {}) = agents
  BY DEF ListAgents
<1>2. ASSUME NEW g PROVE FindAgentsByCategory(g) = ListAgents({g}, {}, {})
  BY DEF FindAgentsByCategory, ListAgents
<1>3. ASSUME NEW cap, cap \in Statistics.capabilities
      PROVE  FindAgentsByCapability(cap) = ListAgents({}, {cap}, {}) /\ FindAgentsByCapability(cap) # {}
  <2>1. FindAgentsByCapability(cap) = ListAgents({}, {cap}, {})
    BY DEF FindAgentsByCapability, ListAgents
  <2>2. PICK a \in agents : cap \in AgentMetaOf[a].capabilities
    BY <1>3 DEF Statistics
  <2> QED BY <2>1, <2>2 DEF FindAgentsByCapability
<1>4. \A g \in DOMAIN Statistics.byCategory :
        Statistics.byCategory[g] = Cardinality(FindAgentsByCategory(g))
  BY DEF Statistics
<1> QED BY <1>1, <1>2, <1>3, <1>4 DEF AgentLookupsAgree

(* What the invariant says of the hooks. *)
LEMMA HooksPaired ==
  ASSUME EnvInv
  PROVE  HooksArePaired
<1>1. DOMAIN entries = 1 .. Len(entries)
  BY LenProperties DEF EnvInv, EnvTypes, MapTypes
<1>2. InitializedOnce
  BY DEF EnvInv, OnceInv, InitializedOnce
<1>3. ShutdownClosesAll
  BY <1>1 DEF EnvInv, CloseInv, DealtWith, Registered, ShutdownClosesAll
<1> QED BY <1>2, <1>3 DEF HooksArePaired

(* For any tools and agents, any calls of any number of clients and any    *)
(* order of their steps: between races no tool is initialised twice, a     *)
(* shutdown leaves open only what came after it had begun, and the lookups *)
(* speak of one tool for each name.                                        *)
THEOREM EnvironmentTheorem == SafeSpec => []EnvironmentSound
<1>1. Init => SoundInv
  BY EnvInitSound DEF Init, SoundInv
<1>2. SoundInv /\ [Next]_vars => SoundInv'
  BY SoundStep
<1>3. SoundInv => EnvironmentSound
  <2> SUFFICES ASSUME SoundInv PROVE EnvironmentSound
    OBVIOUS
  <2>1. EnvInv /\ EnvTypes
    BY DEF SoundInv, EnvInv
  <2> QED BY <2>1, HooksPaired, LookupsAgree, AgentsAgree DEF EnvironmentSound
<1> QED BY <1>1, <1>2, <1>3, PTL DEF SafeSpec

-----------------------------------------------------------------------------
(* The types *)

ToolState ==
  [durations : Seq(Nat), success : Nat, failure : Nat, retries : Nat,
   cancelled : Nat, timedOut : Nat, cost : Nat]
AgentState == [durations : Seq(Nat), success : Nat, failure : Nat]
ToolRecord ==
  [event : {"ToolExecuted"}, of : Client, key : ToolName, success : BOOLEAN, duration : Nat,
   retryCount : Nat, cancelled : BOOLEAN, timedOut : BOOLEAN, cost : Nat]
AgentRecord ==
  [event : AgentKinds, of : Client, key : AgentId, success : BOOLEAN, duration : Nat]

MetricTypes ==
  /\ toolStates \in [ToolName -> ToolState] /\ agentStates \in [AgentId -> AgentState]
  /\ toolCostPerCall \in [ToolName -> Nat]
  /\ toolLog \in [ToolName -> Seq(ToolRecord)] /\ agentLog \in [AgentId -> Seq(AgentRecord)]
  /\ \A n \in ToolName : Len(toolStates[n].durations) <= Window

RunTypes ==
  /\ runPc \in [Client -> RunState] /\ agentOf \in [Client -> AgentId \cup {NoAgent}]
  /\ aborted \in [Client -> BOOLEAN] /\ timer \in [Client -> BOOLEAN]
  /\ trace \in [Client -> {"none", "active", "completed", "failed"}]
  /\ verdict \in [Client -> {"none", "ok", "error"}]
  /\ result \in [Client -> Outcome \cup {"none"}]
  /\ \A c \in Client : runPc[c] \in {"tracing", "executing", "finishing"} => agentOf[c] \in AgentId

CallTypes ==
  /\ callPc \in [Client -> CallState] /\ toolName \in [Client -> ToolName \cup {NoTool}]
  /\ attempt \in [Client -> 0 .. MaxRetries] /\ merged \in [Client -> BOOLEAN]
  /\ \A c \in Client : callPc[c] \in {"executing", "backoff"} => toolName[c] \in ToolName

(* A full window drops its oldest duration for the newest. *)
LEMMA PushIs ==
  ASSUME NEW buf \in Seq(Nat), NEW d \in Nat
  PROVE  Push(buf, d) \in Seq(Nat) /\ (Len(buf) <= Window => Len(Push(buf, d)) <= Window)
<1> DEFINE kept == IF Len(buf) >= Window THEN Tail(buf) ELSE buf
<1>1. Window \in Nat /\ Window >= 1 /\ Len(buf) \in Nat
  BY MetricsAssumption, LenProperties
<1>2. kept \in Seq(Nat) /\ Len(kept) \in Nat /\ (Len(buf) <= Window => Len(kept) < Window)
  <2>1. CASE Len(buf) >= Window
    <3>1. buf # << >>
      BY <1>1, <2>1, EmptySeq
    <3>2. Tail(buf) \in Seq(Nat) /\ Len(Tail(buf)) = Len(buf) - 1
      BY <3>1, HeadTailProperties
    <3> QED BY <1>1, <2>1, <3>2
  <2>2. CASE ~(Len(buf) >= Window)
    BY <1>1, <2>2
  <2> QED BY <2>1, <2>2
<1> HIDE DEF kept
<1>3. Append(kept, d) \in Seq(Nat) /\ Len(Append(kept, d)) = Len(kept) + 1
  BY <1>2, AppendProperties
<1>4. Push(buf, d) = Append(kept, d)
  BY DEF Push, kept
<1> QED BY <1>1, <1>2, <1>3, <1>4

(* What an event does to the counters of its tool, one by one. *)
LEMMA ToolCounts ==
  ASSUME NEW s \in ToolState, NEW e \in ToolRecord, toolCostPerCall \in [ToolName -> Nat],
         NEW t, t = CountedTool(s, e)
  PROVE  /\ t \in ToolState /\ t.durations = Push(s.durations, e.duration)
         /\ t.success = s.success + One(e.success) /\ t.failure = s.failure + One(~e.success)
         /\ t.retries = s.retries + e.retryCount /\ t.cost = s.cost + toolCostPerCall[e.key]
         /\ t.cancelled = s.cancelled + One(e.cancelled) /\ t.timedOut = s.timedOut + One(e.timedOut)
<1>1. /\ s.durations \in Seq(Nat) /\ e.duration \in Nat /\ s.success \in Nat /\ s.failure \in Nat
      /\ s.retries \in Nat /\ s.cancelled \in Nat /\ s.timedOut \in Nat /\ s.cost \in Nat
      /\ e.retryCount \in Nat
  BY DEF ToolState, ToolRecord
<1>a. PICK price \in Nat : price = toolCostPerCall[e.key]
  BY DEF ToolRecord
<1>2. PICK won \in Nat, lost \in Nat, gone \in Nat, slow \in Nat :
        won = One(e.success) /\ lost = One(~e.success) /\ gone = One(e.cancelled) /\ slow = One(e.timedOut)
  BY DEF One
<1>3. PICK p \in Seq(Nat) : p = Push(s.durations, e.duration)
  BY <1>1, PushIs
<1>4. PICK u : u = Counted(s, e.success, e.duration)
  OBVIOUS
<1>5. u = [s EXCEPT !.durations = p, !.success = @ + won, !.failure = @ + lost]
  BY <1>2, <1>3, <1>4 DEF Counted
<1>6. PICK wins \in Nat, fails \in Nat : wins = s.success + won /\ fails = s.failure + lost
  <2>1. s.success + won \in Nat
    BY <1>1
  <2>2. s.failure + lost \in Nat
    BY <1>1
  <2> QED BY <2>1, <2>2
<1>7. u = [s EXCEPT !.durations = p, !.success = wins, !.failure = fails]
  BY <1>5, <1>6
<1>8. /\ u \in ToolState /\ u.durations = p /\ u.success = wins /\ u.failure = fails
      /\ u.retries = s.retries /\ u.cost = s.cost
      /\ u.cancelled = s.cancelled /\ u.timedOut = s.timedOut
  BY <1>7 DEF ToolState
<1>9. PICK r \in Nat, x \in Nat, y \in Nat, z \in Nat :
        r = s.retries + e.retryCount /\ x = s.cancelled + gone /\ y = s.timedOut + slow /\ z = s.cost + price
  <2>1. s.retries + e.retryCount \in Nat
    BY <1>1
  <2>2. s.cancelled + gone \in Nat
    BY <1>1
  <2>3. s.timedOut + slow \in Nat
    BY <1>1
  <2>4. s.cost + price \in Nat
    BY <1>1
  <2> QED BY <2>1, <2>2, <2>3, <2>4
<1>10. t = [u EXCEPT !.retries = @ + e.retryCount, !.cancelled = @ + gone,
                     !.timedOut = @ + slow, !.cost = @ + price]
  BY <1>2, <1>4, <1>a DEF CountedTool
<1>11. t = [u EXCEPT !.retries = r, !.cancelled = x, !.timedOut = y, !.cost = z]
  BY <1>8, <1>9, <1>10
<1>12. /\ t \in ToolState /\ t.durations = p /\ t.success = wins /\ t.failure = fails
       /\ t.retries = r /\ t.cancelled = x /\ t.timedOut = y /\ t.cost = z
  BY <1>8, <1>11 DEF ToolState
<1> QED BY <1>2, <1>3, <1>6, <1>9, <1>12, <1>a

(* And to those of its agent. *)
LEMMA AgentCounts ==
  ASSUME NEW s \in AgentState, NEW e \in AgentRecord, NEW t, t = Counted(s, e.success, e.duration)
  PROVE  /\ t \in AgentState /\ t.durations = Push(s.durations, e.duration)
         /\ t.success = s.success + One(e.success) /\ t.failure = s.failure + One(~e.success)
<1>1. /\ s.durations \in Seq(Nat) /\ e.duration \in Nat /\ s.success \in Nat /\ s.failure \in Nat
  BY DEF AgentState, AgentRecord
<1>2. PICK won \in Nat, lost \in Nat : won = One(e.success) /\ lost = One(~e.success)
  BY DEF One
<1>3. PICK p \in Seq(Nat) : p = Push(s.durations, e.duration)
  BY <1>1, PushIs
<1>4. t = [s EXCEPT !.durations = p, !.success = @ + won, !.failure = @ + lost]
  BY <1>2, <1>3 DEF Counted
<1>5. PICK wins \in Nat, fails \in Nat : wins = s.success + won /\ fails = s.failure + lost
  BY <1>1
<1>6. t = [s EXCEPT !.durations = p, !.success = wins, !.failure = fails]
  BY <1>4, <1>5
<1>7. t \in AgentState /\ t.durations = p /\ t.success = wins /\ t.failure = fails
  BY <1>6 DEF AgentState
<1> QED BY <1>2, <1>3, <1>5, <1>7

(* An event of a tool, counted and noted. *)
LEMMA EmitToolTypes ==
  ASSUME MetricTypes, NEW e \in ToolRecord, EmitTool(e)
  PROVE  MetricTypes'
<1> DEFINE n == e.key
<1>1. n \in ToolName
  BY DEF ToolRecord
<1>2. toolStates[n] \in ToolState /\ toolCostPerCall[n] \in Nat /\ toolLog[n] \in Seq(ToolRecord)
  BY <1>1 DEF MetricTypes
<1>3. PICK t : t = CountedTool(toolStates[n], e)
  OBVIOUS
<1>a. t \in ToolState /\ t.durations = Push(toolStates[n].durations, e.duration)
  <2>1. toolCostPerCall \in [ToolName -> Nat]
    BY DEF MetricTypes
  <2> QED BY <1>2, <1>3, <2>1, ToolCounts
<1>4. PICK es \in Seq(ToolRecord) : es = Append(toolLog[n], e)
  BY <1>2, AppendProperties
<1>5. toolStates' = [toolStates EXCEPT ![n] = t] /\ toolLog' = [toolLog EXCEPT ![n] = es]
      /\ UNCHANGED <<agentStates, toolCostPerCall, agentLog>>
  <2>1. toolStates' = [toolStates EXCEPT ![n] = CountedTool(toolStates[n], e)]
    BY DEF EmitTool
  <2>2. toolLog' = [toolLog EXCEPT ![n] = es] /\ UNCHANGED <<agentStates, toolCostPerCall, agentLog>>
    BY <1>4 DEF EmitTool
  <2> QED BY <1>3, <2>1, <2>2
<1>6. Len(t.durations) <= Window
  <2>1. toolStates[n].durations \in Seq(Nat) /\ e.duration \in Nat /\ Len(toolStates[n].durations) <= Window
    BY <1>1, <1>2 DEF MetricTypes, ToolState, ToolRecord
  <2> QED BY <1>a, <2>1, PushIs
<1> HIDE DEF n
<1>7. toolStates' \in [ToolName -> ToolState] /\ toolLog' \in [ToolName -> Seq(ToolRecord)]
  BY <1>a, <1>5 DEF MetricTypes
<1>8. \A m \in ToolName : Len(toolStates'[m].durations) <= Window
  BY <1>5, <1>6 DEF MetricTypes
<1> QED BY <1>5, <1>7, <1>8 DEF MetricTypes

(* An event of an agent, counted and noted. *)
LEMMA EmitAgentTypes ==
  ASSUME MetricTypes, NEW e \in AgentRecord, EmitAgent(e)
  PROVE  MetricTypes'
<1> DEFINE a == e.key
<1>1. a \in AgentId
  BY DEF AgentRecord
<1>2. agentStates[a] \in AgentState /\ agentLog[a] \in Seq(AgentRecord)
  BY <1>1 DEF MetricTypes
<1>3. PICK t \in AgentState : t = Counted(agentStates[a], e.success, e.duration)
  BY <1>2, AgentCounts
<1>4. PICK es \in Seq(AgentRecord) : es = Append(agentLog[a], e)
  BY <1>2, AppendProperties
<1>5. agentStates' = [agentStates EXCEPT ![a] = t] /\ agentLog' = [agentLog EXCEPT ![a] = es]
      /\ UNCHANGED <<toolStates, toolCostPerCall, toolLog>>
  BY <1>3, <1>4 DEF EmitAgent
<1> HIDE DEF a
<1>6. agentStates' \in [AgentId -> AgentState] /\ agentLog' \in [AgentId -> Seq(AgentRecord)]
  BY <1>5 DEF MetricTypes
<1> QED BY <1>5, <1>6 DEF MetricTypes

(* The counters start empty, and are empty again after a reset. *)
LEMMA UnseenTypes ==
  /\ Unseen \in ToolState /\ UnseenAgent \in AgentState
  /\ Len(Unseen.durations) <= Window
  /\ << >> \in Seq(ToolRecord) /\ << >> \in Seq(AgentRecord)
<1>1. << >> \in Seq(Nat) /\ Len(<< >>) = 0
  BY EmptySeq
<1>2. << >> \in Seq(ToolRecord) /\ << >> \in Seq(AgentRecord)
  BY EmptySeq
<1>3. Window \in Nat
  BY MetricsAssumption
<1> QED BY <1>1, <1>2, <1>3 DEF Unseen, UnseenAgent, ToolState, AgentState

(* All that a step may do to the collector. *)
MetricMove ==
  \/ UNCHANGED <<toolStates, agentStates, toolLog, agentLog>> /\ toolCostPerCall' \in [ToolName -> Nat]
  \/ \E e \in ToolRecord : e.cost = toolCostPerCall[e.key] /\ EmitTool(e)
  \/ \E e \in AgentRecord : EmitAgent(e)
  \/ ResetMetrics

(* It keeps the types. *)
LEMMA MoveTypes == MetricTypes /\ MetricMove => MetricTypes'
<1> SUFFICES ASSUME MetricTypes, MetricMove PROVE MetricTypes'
  OBVIOUS
<1>1. CASE UNCHANGED <<toolStates, agentStates, toolLog, agentLog>> /\ toolCostPerCall' \in [ToolName -> Nat]
  BY <1>1 DEF MetricTypes
<1>2. CASE ResetMetrics
  BY <1>2, UnseenTypes DEF ResetMetrics, MetricTypes
<1> QED BY <1>1, <1>2, EmitToolTypes, EmitAgentTypes DEF MetricMove

ScopeTypes == scope \in [Client -> SUBSET Tool]
AllTypes == EnvTypes /\ MetricTypes /\ RunTypes /\ CallTypes /\ ScopeTypes

(* A run begins, or is refused. *)
LEMMA RunTyped ==
  ASSUME AllTypes, NEW c \in Client, Run(c)
  PROVE  MetricMove /\ RunTypes' /\ CallTypes' /\ ScopeTypes'
<1>1. UNCHANGED <<callVars, metricsVars>>
  BY DEF Run, RejectRun, StartRun
<1>2. MetricMove /\ CallTypes'
  BY <1>1 DEF AllTypes, MetricTypes, CallTypes, metricsVars, MetricMove, callVars
<1>3. CASE RejectRun(c) /\ UNCHANGED scope
  <2>1. RunTypes'
    BY <1>3 DEF RejectRun, AllTypes, RunTypes, RunState
  <2> QED BY <1>2, <1>3, <2>1 DEF AllTypes, ScopeTypes
<1>4. CASE ~(RejectRun(c) /\ UNCHANGED scope)
  <2>1. /\ op[c].agent \in agents /\ StartRun(c, op[c].agent)
        /\ scope' = [scope EXCEPT ![c] = Scoped(Required[op[c].agent])]
    BY <1>4 DEF Run
  <2>2. op[c].agent \in AgentId
    BY <2>1 DEF AllTypes, EnvTypes
  <2>3. RunTypes'
    BY <2>1, <2>2 DEF StartRun, AllTypes, RunTypes, RunState
  <2>4. Registered \subseteq Tool
    BY GetIs DEF AllTypes, EnvTypes
  <2>5. Scoped(Required[op[c].agent]) \in SUBSET Tool
    BY <2>4 DEF Scoped
  <2> QED BY <1>2, <2>1, <2>3, <2>5 DEF AllTypes, ScopeTypes
<1> QED BY <1>3, <1>4

(* The record of a call is one of a tool, with the price of that moment. *)
LEMMA RecordTyped ==
  ASSUME AllTypes, NEW c \in Client, NEW n \in ToolName, NEW ok \in BOOLEAN, NEW d \in Nat,
         NEW tries \in Nat, NEW cancel \in BOOLEAN, NEW slow \in BOOLEAN
  PROVE  \E e \in ToolRecord : /\ e = ToolExecuted(c, n, ok, d, tries, cancel, slow)
                              /\ e.cost = toolCostPerCall[e.key]
<1>1. PICK price \in Nat : price = toolCostPerCall[n]
  BY DEF AllTypes, MetricTypes
<1>2. PICK e : e = [event |-> "ToolExecuted", of |-> c, key |-> n, success |-> ok, duration |-> d,
                    retryCount |-> tries, cancelled |-> cancel, timedOut |-> slow, cost |-> price]
  OBVIOUS
<1>3. e \in ToolRecord /\ e.cost = price /\ e.key = n
  BY <1>2 DEF ToolRecord
<1>4. e = ToolExecuted(c, n, ok, d, tries, cancel, slow)
  BY <1>1, <1>2 DEF ToolExecuted
<1> QED BY <1>1, <1>3, <1>4

(* The tools an agent may call. *)
LEMMA AvailableTyped ==
  ASSUME AllTypes, NEW c \in Client, NEW t \in Available(c)
  PROVE  NameOf[t] \in ToolName
<1>1. Registered \subseteq Tool
  BY GetIs DEF AllTypes, EnvTypes
<1>2. t \in Tool
  BY <1>1 DEF Available, AllTypes, ScopeTypes
<1> QED BY <1>2, RuntimeAssumption

(* An attempt begins: the name of the tool is known. *)
LEMMA BeginTyped ==
  ASSUME AllTypes, NEW c \in Client, BeginAttempt(c), UNCHANGED attempt,
         NEW n \in ToolName, toolName' = [toolName EXCEPT ![c] = n]
  PROVE  CallTypes'
<1>1. callPc' = [callPc EXCEPT ![c] = "executing"] /\ merged' = [merged EXCEPT ![c] = aborted[c]]
  BY DEF BeginAttempt, CallTo
<1>2. aborted[c] \in BOOLEAN
  BY DEF AllTypes, RunTypes
<1>3. callPc' \in [Client -> CallState] /\ merged' \in [Client -> BOOLEAN] /\ attempt' \in [Client -> 0 .. MaxRetries]
  BY <1>1, <1>2 DEF AllTypes, CallTypes, CallState
<1>4. toolName' \in [Client -> ToolName \cup {NoTool}]
  BY DEF AllTypes, CallTypes
<1>5. \A d \in Client : callPc'[d] \in {"executing", "backoff"} => toolName'[d] \in ToolName
  BY <1>1 DEF AllTypes, CallTypes
<1> QED BY <1>3, <1>4, <1>5 DEF CallTypes

(* A call ends: its event is counted. *)
LEMMA EndTyped ==
  ASSUME AllTypes, NEW c \in Client, callPc[c] \in {"executing", "backoff"}, NEW ok \in BOOLEAN, NEW d \in Nat,
         NEW tries \in Nat, NEW cancel \in BOOLEAN, NEW slow \in BOOLEAN,
         EndCall(c, ok, d, tries, cancel, slow)
  PROVE  MetricMove /\ CallTypes'
<1>1. toolName[c] \in ToolName
  BY DEF AllTypes, CallTypes
<1>2. PICK n \in ToolName : n = toolName[c]
  BY <1>1
<1>3. PICK e \in ToolRecord : /\ e = ToolExecuted(c, n, ok, d, tries, cancel, slow)
                             /\ e.cost = toolCostPerCall[e.key]
  BY RecordTyped
<1>4. EmitTool(e)
  BY <1>2, <1>3 DEF EndCall
<1>5. MetricMove
  BY <1>3, <1>4 DEF MetricMove
<1>6. /\ callPc' = [callPc EXCEPT ![c] = "done"] /\ merged' = [merged EXCEPT ![c] = FALSE]
      /\ attempt' = [attempt EXCEPT ![c] = 0] /\ toolName' = toolName
  BY DEF EndCall, CallTo
<1>7. attempt' \in [Client -> 0 .. MaxRetries]
  BY <1>6, RunAssumption DEF AllTypes, CallTypes
<1>8. CallTypes'
  BY <1>6, <1>7 DEF AllTypes, CallTypes, CallState
<1> QED BY <1>5, <1>8

(* A signal fires. *)
LEMMA AbortTyped ==
  ASSUME AllTypes, NEW c \in Client, Abort(c), UNCHANGED <<runPc, agentOf, trace, verdict, result>>,
         timer' \in [Client -> BOOLEAN]
  PROVE  RunTypes' /\ CallTypes'
<1>1. /\ aborted' = [aborted EXCEPT ![c] = TRUE]
      /\ merged' = [merged EXCEPT ![c] = @ \/ callPc[c] = "executing"]
      /\ UNCHANGED <<callPc, toolName, attempt, late>>
  BY DEF Abort
<1>2. merged' \in [Client -> BOOLEAN]
  BY <1>1 DEF AllTypes, CallTypes
<1>3. CallTypes'
  BY <1>1, <1>2 DEF AllTypes, CallTypes
<1>4. RunTypes'
  BY <1>1 DEF AllTypes, RunTypes
<1> QED BY <1>3, <1>4

(* A step of an agent. *)
LEMMA AgentTyped ==
  ASSUME AllTypes, NEW c \in Client, AgentStep(c)
  PROVE  MetricMove /\ RunTypes' /\ CallTypes'
<1>1. CASE \E began \in {"none", "active"} : BeginTrace(c, began)
  <2>1. PICK began \in {"none", "active"} : BeginTrace(c, began)
    BY <1>1
  <2>2. RunTypes'
    BY <2>1 DEF BeginTrace, AllTypes, RunTypes, RunState
  <2>3. MetricMove /\ CallTypes'
    BY <2>1 DEF BeginTrace, AllTypes, MetricTypes, CallTypes, metricsVars, MetricMove, callVars
  <2> QED BY <2>2, <2>3
<1>2. CASE (\E success \in Outcome : AgentReturns(c, success)) \/ AgentThrows(c)
  <2>1. PICK how \in {"ok", "error"}, success \in Outcome : Settle(c, how, success)
    BY <1>2 DEF AgentReturns, AgentThrows, Outcome
  <2>2. RunTypes'
    <3>1. /\ runPc[c] = "executing" /\ runPc' = [runPc EXCEPT ![c] = "finishing"]
          /\ timer' = [timer EXCEPT ![c] = FALSE] /\ verdict' = [verdict EXCEPT ![c] = how]
          /\ result' = [result EXCEPT ![c] = success] /\ UNCHANGED <<agentOf, aborted, trace>>
      BY <2>1 DEF Settle
    <3>2. runPc' \in [Client -> RunState] /\ timer' \in [Client -> BOOLEAN]
          /\ verdict' \in [Client -> {"none", "ok", "error"}] /\ result' \in [Client -> Outcome \cup {"none"}]
      BY <3>1 DEF AllTypes, RunTypes, RunState
    <3>3. \A d \in Client : runPc'[d] \in {"tracing", "executing", "finishing"} => agentOf'[d] \in AgentId
      BY <3>1 DEF AllTypes, RunTypes
    <3> QED BY <3>1, <3>2, <3>3 DEF AllTypes, RunTypes
  <2>3. MetricMove /\ CallTypes'
    BY <2>1 DEF Settle, AllTypes, MetricTypes, CallTypes, metricsVars, MetricMove, callVars
  <2> QED BY <2>2, <2>3
<1>3. CASE Cancel(c)
  <2>1. timer' \in [Client -> BOOLEAN] /\ Abort(c) /\ UNCHANGED <<runPc, agentOf, trace, verdict, result>>
    BY <1>3 DEF Cancel, AllTypes, RunTypes
  <2>2. MetricMove
    BY <1>3 DEF Cancel, AllTypes, MetricTypes, metricsVars, MetricMove
  <2> QED BY <2>1, <2>2, AbortTyped
<1>4. CASE CallThrows(c)
  <2>1. CallTypes'
    BY <1>4 DEF CallThrows, CallTo, AllTypes, CallTypes, CallState
  <2>2. MetricMove /\ RunTypes'
    BY <1>4 DEF CallThrows, AllTypes, MetricTypes, RunTypes, metricsVars, MetricMove, runVars
  <2> QED BY <2>1, <2>2
<1>5. CASE runPc[c] = "executing" /\ \E t \in Available(c) : CallTool(c, NameOf[t]) \/ RefuseCall(c, NameOf[t])
  <2>1. PICK n \in ToolName : CallTool(c, n) \/ RefuseCall(c, n)
    BY <1>5, AvailableTyped
  <2>2. RunTypes'
    BY <2>1 DEF CallTool, RefuseCall, AllTypes, RunTypes, runVars
  <2>3. CASE CallTool(c, n)
    <3>1. CallTypes'
      BY <2>3, BeginTyped DEF CallTool
    <3>2. MetricMove
      BY <2>3 DEF CallTool, AllTypes, MetricTypes, metricsVars, MetricMove
    <3> QED BY <2>2, <3>1, <3>2
  <2>4. CASE RefuseCall(c, n)
    <3>a. PICK no \in BOOLEAN, zero \in Nat : no = FALSE /\ zero = 0
      OBVIOUS
    <3>b. PICK e \in ToolRecord : /\ e = ToolExecuted(c, n, no, zero, zero, no, no)
                                 /\ e.cost = toolCostPerCall[e.key]
      BY RecordTyped
    <3>1. e = ToolExecuted(c, n, FALSE, 0, 0, FALSE, FALSE) /\ e.cost = toolCostPerCall[e.key]
      BY <3>a, <3>b
    <3>2. MetricMove
      <4>1. EmitTool(e)
        BY <2>4, <3>1 DEF RefuseCall
      <4> QED BY <3>1, <4>1 DEF MetricMove
    <3>3. CallTypes'
      <4>1. callPc' = [callPc EXCEPT ![c] = "done"] /\ toolName' = [toolName EXCEPT ![c] = n]
            /\ UNCHANGED <<attempt, merged>>
        BY <2>4 DEF RefuseCall, CallTo
      <4> QED BY <4>1 DEF AllTypes, CallTypes, CallState
    <3> QED BY <2>2, <3>2, <3>3
  <2> QED BY <2>1, <2>3, <2>4
<1> QED BY <1>1, <1>2, <1>3, <1>4, <1>5 DEF AgentStep

(* A run ends. *)
LEMMA FinishTyped ==
  ASSUME AllTypes, NEW c \in Client, FinishRun(c)
  PROVE  MetricMove /\ RunTypes' /\ CallTypes'
<1>1. PICK saved \in Saves, d \in RunDuration : Finish(c, saved, d)
  BY DEF FinishRun
<1>2. d \in Nat
  BY RuntimeAssumption, MetricsAssumption
<1>3. runPc[c] = "finishing" /\ agentOf[c] \in AgentId
  BY <1>1 DEF Finish, AllTypes, RunTypes
<1>4. PICK e \in AgentRecord : e = AgentEvent(c, FinishEvent(c), agentOf[c], d)
  <2>1. FinishEvent(c) \in AgentKinds
    BY DEF FinishEvent, AgentKinds
  <2>2. PICK kind \in AgentKinds, a \in AgentId : kind = FinishEvent(c) /\ a = agentOf[c]
    BY <1>3, <2>1
  <2>3. AgentEvent(c, kind, a, d) \in AgentRecord
    BY <1>2 DEF AgentEvent, AgentRecord
  <2> QED BY <2>2, <2>3
<1>5. MetricMove
  <2>1. EmitAgent(e)
    BY <1>1, <1>4 DEF Finish
  <2> QED BY <2>1 DEF MetricMove
<1>6. CallTypes'
  BY <1>1 DEF Finish, AllTypes, CallTypes, callVars
<1>7. /\ runPc' = [runPc EXCEPT ![c] = "done"] /\ verdict' = [verdict EXCEPT ![c] = "none"]
      /\ UNCHANGED <<agentOf, aborted, timer, result>>
      /\ trace' = [trace EXCEPT ![c] = IF trace[c] # "none" /\ saved THEN FinishStatus(c) ELSE trace[c]]
  BY <1>1 DEF Finish
<1>8. trace' \in [Client -> {"none", "active", "completed", "failed"}]
  <2>1. FinishStatus(c) \in {"none", "active", "completed", "failed"}
    BY DEF FinishStatus
  <2> QED BY <1>7, <2>1 DEF AllTypes, RunTypes
<1>9. RunTypes'
  BY <1>7, <1>8 DEF AllTypes, RunTypes, RunState
<1> QED BY <1>5, <1>6, <1>9

(* A tool returns or throws. *)
LEMMA ToolTyped ==
  ASSUME AllTypes, NEW c \in Client, ToolStep(c)
  PROVE  MetricMove /\ RunTypes' /\ CallTypes'
<1>1. PICK d \in RunDuration : (\E ok \in BOOLEAN : ToolReturns(c, ok, d))
                               \/ \E err \in {"AbortError", "Error"} : ToolThrows(c, err, d)
  BY DEF ToolStep
<1>2. d \in Nat
  BY RuntimeAssumption, MetricsAssumption
<1>3. attempt[c] \in Nat /\ merged[c] \in BOOLEAN /\ (attempt[c] + 1) \in Nat
  <2>1. attempt[c] \in 0 .. MaxRetries /\ merged[c] \in BOOLEAN
    BY DEF AllTypes, CallTypes
  <2> QED BY <2>1
<1>4. CASE \E ok \in BOOLEAN : ToolReturns(c, ok, d)
  <2>1. PICK ok \in BOOLEAN : ToolReturns(c, ok, d)
    BY <1>4
  <2>2. callPc[c] \in {"executing", "backoff"} /\ EndCall(c, ok, d, attempt[c], FALSE, FALSE)
    BY <2>1 DEF ToolReturns
  <2>3. MetricMove /\ CallTypes'
    BY <1>2, <1>3, <2>2, EndTyped
  <2>4. RunTypes'
    BY <2>2 DEF EndCall, AllTypes, RunTypes, runVars
  <2> QED BY <2>3, <2>4
<1>5. CASE \E err \in {"AbortError", "Error"} : ToolThrows(c, err, d)
  <2>1. PICK err \in {"AbortError", "Error"} : ToolThrows(c, err, d)
    BY <1>5
  <2>2. callPc[c] \in {"executing", "backoff"}
    BY <2>1 DEF ToolThrows
  <2>3. RunTypes'
    BY <2>1 DEF ToolThrows, EndCall, AllTypes, RunTypes, runVars
  <2>4. CASE Cancelled(c, err)
    <3>1. EndCall(c, FALSE, d, attempt[c], TRUE, merged[c] /\ err = "AbortError")
      BY <2>1, <2>4 DEF ToolThrows
    <3>2. PICK slow \in BOOLEAN : slow = (merged[c] /\ err = "AbortError")
      OBVIOUS
    <3>3. EndCall(c, FALSE, d, attempt[c], TRUE, slow)
      BY <3>1, <3>2
    <3>4. MetricMove /\ CallTypes'
      BY <1>2, <1>3, <2>2, <3>3, EndTyped
    <3> QED BY <2>3, <3>4
  <2>5. CASE ~Cancelled(c, err) /\ attempt[c] >= MaxRetries
    <3>1. EndCall(c, FALSE, d, attempt[c] + 1, FALSE, FALSE)
      BY <2>1, <2>5 DEF ToolThrows
    <3>2. MetricMove /\ CallTypes'
      BY <1>2, <1>3, <2>2, <3>1, EndTyped
    <3> QED BY <2>3, <3>2
  <2>6. CASE ~Cancelled(c, err) /\ ~(attempt[c] >= MaxRetries)
    <3>1. /\ callPc' = [callPc EXCEPT ![c] = "backoff"] /\ attempt' = [attempt EXCEPT ![c] = attempt[c] + 1]
          /\ UNCHANGED <<toolName, merged, metricsVars>>
      BY <2>1, <2>6 DEF ToolThrows, CallTo
    <3>2. attempt[c] + 1 \in 0 .. MaxRetries
      BY <1>3, <2>6, RunAssumption
    <3>3. attempt' \in [Client -> 0 .. MaxRetries]
      BY <3>1, <3>2 DEF AllTypes, CallTypes
    <3>4. CallTypes'
      BY <2>2, <3>1, <3>3 DEF AllTypes, CallTypes, CallState
    <3>5. MetricMove
      BY <3>1 DEF AllTypes, MetricTypes, metricsVars, MetricMove
    <3> QED BY <2>3, <3>4, <3>5
  <2> QED BY <2>4, <2>5, <2>6
<1> QED BY <1>1, <1>4, <1>5

(* A timer fires. *)
LEMMA TimersTyped ==
  ASSUME AllTypes, NEW c \in Client, Timers(c)
  PROVE  MetricMove /\ RunTypes' /\ CallTypes'
<1>1. MetricMove
  <2>1. UNCHANGED metricsVars
    BY DEF Timers, Timeout, AttemptTimeout, Retry
  <2> QED BY <2>1 DEF AllTypes, MetricTypes, metricsVars, MetricMove
<1>2. CASE Timeout(c)
  <2>1. timer' = [timer EXCEPT ![c] = FALSE] /\ Abort(c) /\ UNCHANGED <<runPc, agentOf, trace, verdict, result>>
    BY <1>2 DEF Timeout
  <2>2. timer' \in [Client -> BOOLEAN]
    BY <2>1 DEF AllTypes, RunTypes
  <2> QED BY <1>1, <2>1, <2>2, AbortTyped
<1>3. CASE AttemptTimeout(c)
  <2>1. CallTypes'
    BY <1>3 DEF AttemptTimeout, AllTypes, CallTypes
  <2>2. RunTypes'
    BY <1>3 DEF AttemptTimeout, AllTypes, RunTypes, runVars
  <2> QED BY <1>1, <2>1, <2>2
<1>4. CASE Retry(c)
  <2>1. callPc[c] = "backoff" /\ BeginAttempt(c) /\ UNCHANGED <<toolName, attempt, runVars>>
    BY <1>4 DEF Retry
  <2>2. PICK n \in ToolName : n = toolName[c]
    BY <2>1 DEF AllTypes, CallTypes
  <2>3. toolName' = [toolName EXCEPT ![c] = n]
    BY <2>1, <2>2 DEF AllTypes, CallTypes
  <2>4. CallTypes'
    BY <2>1, <2>3, BeginTyped
  <2>5. RunTypes'
    BY <2>1 DEF AllTypes, RunTypes, runVars
  <2> QED BY <1>1, <2>4, <2>5
<1> QED BY <1>2, <1>3, <1>4 DEF Timers

(* The calls that concern the collector. *)
LEMMA ManageTyped ==
  ASSUME AllTypes, NEW c \in Client, op \in Workload, Manage(c)
  PROVE  MetricMove /\ UNCHANGED <<runVars, callVars, scope>>
<1>1. op[c].kind = "register" => op[c].tool \in Tool
  BY RuntimeAssumption
<1>2. CASE op[c].kind = "event" /\ ForeignEvent(c)
  <2>1. UNCHANGED <<runVars, callVars, scope>>
    BY <1>2 DEF ForeignEvent
  <2>2. PICK d \in Duration :
           \/ \E n \in ToolName, ok \in BOOLEAN : EmitTool(ToolExecuted(c, n, ok, d, 0, FALSE, FALSE))
           \/ \E a \in AgentId, kind \in AgentKinds : EmitAgent(AgentEvent(c, kind, a, d))
    BY <1>2 DEF ForeignEvent
  <2>3. d \in Nat
    BY MetricsAssumption
  <2>4. CASE \E n \in ToolName, ok \in BOOLEAN : EmitTool(ToolExecuted(c, n, ok, d, 0, FALSE, FALSE))
    <3>1. PICK n \in ToolName, ok \in BOOLEAN : EmitTool(ToolExecuted(c, n, ok, d, 0, FALSE, FALSE))
      BY <2>4
    <3>a. PICK no \in BOOLEAN, zero \in Nat : no = FALSE /\ zero = 0
      OBVIOUS
    <3>b. PICK e \in ToolRecord : /\ e = ToolExecuted(c, n, ok, d, zero, no, no)
                                 /\ e.cost = toolCostPerCall[e.key]
      BY <2>3, RecordTyped
    <3>2. e = ToolExecuted(c, n, ok, d, 0, FALSE, FALSE) /\ e.cost = toolCostPerCall[e.key]
      BY <3>a, <3>b
    <3>3. EmitTool(e)
      BY <3>1, <3>2
    <3> QED BY <2>1, <3>2, <3>3 DEF MetricMove
  <2>5. CASE \E a \in AgentId, kind \in AgentKinds : EmitAgent(AgentEvent(c, kind, a, d))
    <3>1. PICK a \in AgentId, kind \in AgentKinds : EmitAgent(AgentEvent(c, kind, a, d))
      BY <2>5
    <3>2. AgentEvent(c, kind, a, d) \in AgentRecord
      BY <2>3 DEF AgentEvent, AgentRecord
    <3>3. PICK e \in AgentRecord : EmitAgent(e)
      BY <3>1, <3>2
    <3> QED BY <2>1, <3>3 DEF MetricMove
  <2> QED BY <2>2, <2>4, <2>5
<1>3. CASE op[c].kind = "register" /\ RegisterTool(c, op[c].tool)
  <2>1. NameOf[op[c].tool] \in ToolName
    BY <1>1, <1>3, RuntimeAssumption
  <2>2. PICK n \in ToolName : n = NameOf[op[c].tool]
    BY <2>1
  <2>3. /\ toolCostPerCall' = [toolCostPerCall EXCEPT ![n] = CostOf[n]]
        /\ UNCHANGED <<toolStates, agentStates, toolLog, agentLog, runVars, callVars, scope>>
    BY <1>3, <2>2 DEF RegisterTool, RegisterToolCost
  <2>4. toolCostPerCall' \in [ToolName -> Nat]
    BY <2>3, MetricsAssumption DEF AllTypes, MetricTypes
  <2> QED BY <2>3, <2>4 DEF MetricMove
<1>4. CASE op[c].kind = "reset" /\ ResetCollector(c)
  <2>1. ResetMetrics /\ UNCHANGED <<runVars, callVars, scope>>
    BY <1>4 DEF ResetCollector
  <2> QED BY <2>1 DEF MetricMove
<1>5. CASE OnlyEnv
  BY <1>5 DEF OnlyEnv, AllTypes, MetricTypes, metricsVars, MetricMove
<1> QED BY <1>2, <1>3, <1>4, <1>5 DEF Manage

TypeInv == AllTypes /\ SoundInv

(* The initial state. *)
LEMMA TypesInit == Init => TypeInv
<1> SUFFICES ASSUME Init PROVE TypeInv
  OBVIOUS
<1>1. PICK tools \in Preset, known \in Known :
        EnvInit(tools, known) /\ MetricsInit({NameOf[tools[i]] : i \in DOMAIN tools})
  BY DEF Init
<1>2. SoundInv
  BY <1>1, EnvInitSound DEF Init, SoundInv
<1>3. PICK names : MetricsInit(names)
  BY <1>1
<1>4. MetricTypes
  <2>1. toolCostPerCall \in [ToolName -> Nat]
    BY <1>3, MetricsAssumption DEF MetricsInit
  <2> QED BY <1>3, <2>1, UnseenTypes DEF MetricsInit, MetricTypes
<1>5. RunTypes
  BY DEF Init, RunInit, RunTypes, RunState, Outcome
<1>6. CallTypes
  BY RunAssumption DEF Init, RunInit, CallTypes, CallState
<1>7. ScopeTypes
  BY DEF Init, ScopeTypes
<1> QED BY <1>2, <1>4, <1>5, <1>6, <1>7 DEF TypeInv, AllTypes, SoundInv, EnvInv

(* Every step moves the collector as it may, and keeps the other types. *)
LEMMA StepMoves ==
  ASSUME TypeInv, [Next]_vars
  PROVE  MetricMove /\ RunTypes' /\ CallTypes' /\ ScopeTypes'
<1>1. ASSUME UNCHANGED <<metricsVars, runVars, callVars, scope>>
      PROVE  MetricMove /\ RunTypes' /\ CallTypes' /\ ScopeTypes'
  <2>1. MetricMove
    BY <1>1 DEF TypeInv, AllTypes, MetricTypes, metricsVars, MetricMove
  <2>2. RunTypes'
    BY <1>1 DEF TypeInv, AllTypes, RunTypes, runVars
  <2>3. CallTypes'
    BY <1>1 DEF TypeInv, AllTypes, CallTypes, callVars
  <2>4. ScopeTypes'
    BY <1>1 DEF TypeInv, AllTypes, ScopeTypes
  <2> QED BY <2>1, <2>2, <2>3, <2>4
<1>2. CASE UNCHANGED vars
  BY <1>1, <1>2 DEF vars
<1>3. CASE Next
  <2>1. PICK c \in Client : \/ Run(c) \/ AgentStep(c) \/ FinishRun(c) \/ ToolStep(c) \/ Timers(c)
                            \/ Manage(c) \/ Awaited(c)
    BY <1>3 DEF Next
  <2>2. CASE Run(c)
    BY <2>2, RunTyped DEF TypeInv
  <2>3. CASE AgentStep(c) \/ FinishRun(c) \/ ToolStep(c) \/ Timers(c)
    <3>1. ScopeTypes'
      BY <2>3 DEF AgentStep, FinishRun, ToolStep, Timers, OnlyRun, TypeInv, AllTypes, ScopeTypes
    <3> QED BY <2>3, <3>1, AgentTyped, FinishTyped, ToolTyped, TimersTyped DEF TypeInv
  <2>4. CASE Manage(c)
    <3>1. MetricMove /\ UNCHANGED <<runVars, callVars, scope>>
      BY <2>4, ManageTyped DEF TypeInv, SoundInv
    <3>2. RunTypes' /\ CallTypes' /\ ScopeTypes'
      BY <3>1 DEF TypeInv, AllTypes, RunTypes, CallTypes, ScopeTypes, runVars, callVars
    <3> QED BY <3>1, <3>2
  <2>5. CASE Awaited(c)
    BY <1>1, <2>5 DEF Awaited, OnlyEnv
  <2> QED BY <2>1, <2>2, <2>3, <2>4, <2>5
<1> QED BY <1>2, <1>3

(* Every step keeps the types. *)
LEMMA TypesStep ==
  ASSUME TypeInv, [Next]_vars
  PROVE  TypeInv'
<1>1. SoundInv' /\ EnvTypes'
  BY SoundStep DEF TypeInv, SoundInv, EnvInv
<1>2. MetricMove /\ RunTypes' /\ CallTypes' /\ ScopeTypes'
  BY StepMoves
<1>3. MetricTypes'
  BY <1>2, MoveTypes DEF TypeInv, AllTypes
<1> QED BY <1>1, <1>2, <1>3 DEF TypeInv, AllTypes

(* What the run calls type correctness. *)
LEMMA TypesAre == TypeInv => TypeOK
<1> SUFFICES ASSUME TypeInv PROVE TypeOK
  OBVIOUS
<1>1. Len(entries) \in Nat /\ entries \in Seq(Tool \cup {Gone})
  BY LenProperties DEF TypeInv, AllTypes, EnvTypes, MapTypes
<1>2. at \in [Client -> 0 .. Len(entries)]
  <2>1. at \in [Client -> Nat] /\ \A c \in Client : at[c] <= Len(entries)
    BY DEF TypeInv, AllTypes, EnvTypes
  <2>2. \A c \in Client : at[c] \in 0 .. Len(entries)
    BY <1>1, <2>1
  <2> QED BY <2>1, <2>2
<1>3. /\ pc \in [Client -> EnvState] /\ agents \subseteq AgentId /\ held \in [Client -> Tool \cup {NoTool}]
      /\ warmedUp \in BOOLEAN /\ shutdown \in BOOLEAN /\ healthState \in [Tool -> Health]
      /\ hook \in [Tool -> {"fresh", "ready", "closed"}]
  BY DEF TypeInv, AllTypes, EnvTypes
<1> QED BY <1>1, <1>2, <1>3 DEF TypeInv, AllTypes, RunTypes, CallTypes, MetricTypes, ScopeTypes, TypeOK

(* The runtime's variables keep their types: no retry counter passes its   *)
(* limit, no window its size, and no iterator the end of the Map.          *)
THEOREM RuntimeTypesTheorem == SafeSpec => []TypeOK
<1>1. TypeInv /\ [Next]_vars => TypeInv'
  BY TypesStep
<1> QED BY <1>1, TypesInit, TypesAre, PTL DEF SafeSpec

-----------------------------------------------------------------------------
(* One story *)

(* What one more record adds to the events of a client. *)
Adds(log, more, e, c) ==
  /\ e.of # c => EventsOf(c, more) = EventsOf(c, log)
  /\ e.of = c => EventsOf(c, more) = EventsOf(c, log) \cup {Len(log) + 1}
  /\ more[Len(log) + 1] = e /\ Len(log) + 1 \in DOMAIN more
  /\ \A i \in DOMAIN log : i \in DOMAIN more /\ more[i] = log[i]

(* It adds its place to those of its client, and to nobody else's. *)
LEMMA EventsAppend ==
  ASSUME NEW S, NEW log \in Seq(S), NEW e \in S, NEW c
  PROVE  Adds(log, Append(log, e), e, c)
<1> DEFINE more == Append(log, e)
<1>1. /\ more \in Seq(S) /\ Len(log) \in Nat /\ Len(more) = Len(log) + 1 /\ DOMAIN log = 1 .. Len(log)
      /\ more[Len(log) + 1] = e /\ \A i \in 1 .. Len(log) : more[i] = log[i]
  BY AppendProperties, LenProperties
<1>2. DOMAIN more = 1 .. Len(log) + 1
  BY <1>1, LenProperties
<1> HIDE DEF more
<1>3. \A i : i \in 1 .. Len(log) + 1 <=> i \in 1 .. Len(log) \/ i = Len(log) + 1
  BY <1>1
<1>4. EventsOf(c, more) = {i \in 1 .. Len(log) + 1 : more[i].of = c}
  BY <1>2 DEF EventsOf
<1>5. EventsOf(c, log) = {i \in 1 .. Len(log) : log[i].of = c}
  BY <1>1 DEF EventsOf
<1>6. e.of # c => EventsOf(c, more) = EventsOf(c, log)
  BY <1>1, <1>3, <1>4, <1>5
<1>7. e.of = c => EventsOf(c, more) = EventsOf(c, log) \cup {Len(log) + 1}
  BY <1>1, <1>3, <1>4, <1>5
<1>8. \A i \in DOMAIN log : i \in DOMAIN more /\ more[i] = log[i]
  BY <1>1, <1>2, <1>3
<1>9. Len(log) + 1 \in DOMAIN more
  BY <1>2, <1>3
<1> QED BY <1>1, <1>6, <1>7, <1>8, <1>9 DEF more, Adds

(* What a step leaves of what was told of a client. *)
RunToldAlike(c) ==
  \A a \in AgentId :
    /\ EventsOf(c, agentLog'[a]) = EventsOf(c, agentLog[a])
    /\ \A i \in DOMAIN agentLog[a] : i \in DOMAIN agentLog'[a] /\ agentLog'[a][i] = agentLog[a][i]
CallToldAlike(c) == \A n \in ToolName : EventsOf(c, toolLog'[n]) = EventsOf(c, toolLog[n])
ToldAlike(c) == RunToldAlike(c) /\ CallToldAlike(c)

(* An event of a tool, in the logs. *)
LEMMA ToolTold ==
  ASSUME MetricTypes, NEW e \in ToolRecord, EmitTool(e), NEW c
  PROVE  /\ RunToldAlike(c)
         /\ \A n \in ToolName :
              /\ (n # e.key \/ e.of # c) => EventsOf(c, toolLog'[n]) = EventsOf(c, toolLog[n])
              /\ (n = e.key /\ e.of = c) =>
                   EventsOf(c, toolLog'[n]) = EventsOf(c, toolLog[n]) \cup {Len(toolLog[n]) + 1}
<1>1. RunToldAlike(c)
  BY DEF EmitTool, RunToldAlike
<1>2. ASSUME NEW n \in ToolName
      PROVE  /\ (n # e.key \/ e.of # c) => EventsOf(c, toolLog'[n]) = EventsOf(c, toolLog[n])
             /\ (n = e.key /\ e.of = c) =>
                  EventsOf(c, toolLog'[n]) = EventsOf(c, toolLog[n]) \cup {Len(toolLog[n]) + 1}
  <2>1. toolLog[n] \in Seq(ToolRecord) /\ toolLog' = [toolLog EXCEPT ![e.key] = Append(toolLog[e.key], e)]
    BY DEF MetricTypes, EmitTool
  <2>2. toolLog'[n] = IF n = e.key THEN Append(toolLog[n], e) ELSE toolLog[n]
    BY <2>1 DEF MetricTypes
  <2>3. Adds(toolLog[n], Append(toolLog[n], e), e, c)
    BY <2>1, EventsAppend
  <2> QED BY <2>2, <2>3 DEF Adds
<1> QED BY <1>1, <1>2

(* An event of an agent, in the logs. *)
LEMMA AgentTold ==
  ASSUME MetricTypes, NEW e \in AgentRecord, EmitAgent(e), NEW c
  PROVE  /\ CallToldAlike(c) /\ (e.of # c => RunToldAlike(c))
         /\ LET log == agentLog[e.key]  more == agentLog'[e.key] IN
              e.of = c => /\ EventsOf(c, more) = EventsOf(c, log) \cup {Len(log) + 1}
                          /\ Len(log) + 1 \in DOMAIN more /\ more[Len(log) + 1] = e
<1>1. CallToldAlike(c)
  BY DEF EmitAgent, CallToldAlike
<1>2. e.key \in AgentId /\ agentLog' = [agentLog EXCEPT ![e.key] = Append(agentLog[e.key], e)]
  BY DEF EmitAgent, AgentRecord
<1>3. ASSUME NEW a \in AgentId
      PROVE  agentLog'[a] = IF a = e.key THEN Append(agentLog[a], e) ELSE agentLog[a]
  BY <1>2 DEF MetricTypes
<1>4. ASSUME NEW a \in AgentId
      PROVE  Adds(agentLog[a], Append(agentLog[a], e), e, c)
  <2>1. agentLog[a] \in Seq(AgentRecord)
    BY DEF MetricTypes
  <2> QED BY <2>1, EventsAppend
<1>5. ASSUME e.of # c, NEW a \in AgentId
      PROVE  /\ EventsOf(c, agentLog'[a]) = EventsOf(c, agentLog[a])
             /\ \A i \in DOMAIN agentLog[a] : i \in DOMAIN agentLog'[a] /\ agentLog'[a][i] = agentLog[a][i]
  <2>1. CASE a = e.key
    <3>1. Adds(agentLog[a], agentLog'[a], e, c)
      BY <1>3, <1>4, <2>1
    <3> QED BY <1>5, <3>1 DEF Adds
  <2>2. CASE a # e.key
    BY <1>3, <2>2
  <2> QED BY <2>1, <2>2
<1>6. e.of # c => RunToldAlike(c)
  BY <1>5 DEF RunToldAlike
<1>7. Adds(agentLog[e.key], agentLog'[e.key], e, c)
  BY <1>2, <1>3, <1>4
<1>8. e.of = c => /\ EventsOf(c, agentLog'[e.key]) = EventsOf(c, agentLog[e.key]) \cup {Len(agentLog[e.key]) + 1}
                  /\ Len(agentLog[e.key]) + 1 \in DOMAIN agentLog'[e.key]
                  /\ agentLog'[e.key][Len(agentLog[e.key]) + 1] = e
  BY <1>7 DEF Adds
<1> QED BY <1>1, <1>6, <1>8

(* What is told of a run, and of a tool call. *)
Told(c) ==
  \E i \in DOMAIN agentLog[agentOf[c]] : LET e == agentLog[agentOf[c]][i] IN
    /\ EventsOf(c, agentLog[agentOf[c]]) = {i}
    /\ trace[c] = "completed" => e.event = "AgentCompleted"
    /\ trace[c] = "failed" => e.event = "AgentFailed"
    /\ e.event = "AgentFailed" => result[c] = "no"
RunStory(c) ==
  /\ runPc[c] = "done" => agentOf[c] \in AgentId /\ Told(c)
  /\ runPc[c] # "done" => (trace[c] \in {"none", "active"} /\
                           \A a \in AgentId : EventsOf(c, agentLog[a]) = {})
  /\ runPc[c] = "finishing" => (verdict[c] # "ok" => result[c] = "no")
CallStory(c) ==
  \A n \in ToolName :
    /\ callPc[c] = "done" /\ n = toolName[c] => \E i : EventsOf(c, toolLog[n]) = {i}
    /\ ~(callPc[c] = "done" /\ n = toolName[c]) => EventsOf(c, toolLog[n]) = {}

RunAlike(c) ==
  /\ runPc'[c] = runPc[c] /\ agentOf'[c] = agentOf[c] /\ trace'[c] = trace[c]
  /\ verdict'[c] = verdict[c] /\ result'[c] = result[c] /\ RunToldAlike(c)
CallAlike(c) ==
  /\ callPc'[c] = "done" <=> callPc[c] = "done"
  /\ callPc[c] = "done" => toolName'[c] = toolName[c]
  /\ CallToldAlike(c)

(* A step that leaves a run alone keeps its story. *)
LEMMA RunStoryStands ==
  ASSUME NEW c, RunStory(c), RunAlike(c)
  PROVE  RunStory(c)'
<1>1. CASE runPc[c] = "done"
  <2>1. agentOf[c] \in AgentId /\ Told(c)
    BY <1>1 DEF RunStory
  <2>2. PICK a \in AgentId : a = agentOf[c]
    BY <2>1
  <2>3. PICK i \in DOMAIN agentLog[a] :
          /\ EventsOf(c, agentLog[a]) = {i}
          /\ trace[c] = "completed" => agentLog[a][i].event = "AgentCompleted"
          /\ trace[c] = "failed" => agentLog[a][i].event = "AgentFailed"
          /\ agentLog[a][i].event = "AgentFailed" => result[c] = "no"
    BY <2>1, <2>2 DEF Told
  <2>4. i \in DOMAIN agentLog'[a] /\ agentLog'[a][i] = agentLog[a][i] /\ EventsOf(c, agentLog'[a]) = {i}
    BY <2>3 DEF RunAlike, RunToldAlike
  <2>5. agentOf'[c] = a /\ trace'[c] = trace[c] /\ result'[c] = result[c] /\ runPc'[c] = "done"
    BY <1>1, <2>2 DEF RunAlike
  <2>6. Told(c)'
    BY <2>3, <2>4, <2>5 DEF Told
  <2> QED BY <2>5, <2>6 DEF RunStory
<1>2. CASE runPc[c] # "done"
  BY <1>2 DEF RunStory, RunAlike, RunToldAlike
<1> QED BY <1>1, <1>2

(* And one that leaves a call alone. *)
LEMMA CallStoryStands ==
  ASSUME NEW c, CallStory(c), CallAlike(c)
  PROVE  CallStory(c)'
  BY DEF CallStory, CallAlike, CallToldAlike

Alike(c) == RunAlike(c) /\ CallAlike(c)

(* Without an event nothing new is told. *)
LEMMA NothingTold ==
  ASSUME UNCHANGED <<toolLog, agentLog>>, NEW c
  PROVE  ToldAlike(c)
  BY DEF ToldAlike, RunToldAlike, CallToldAlike

(* The events of a client are its own. *)
LEMMA OthersAlike ==
  ASSUME AllTypes, op \in Workload, NEW d \in Client,
         \A b \in Client : op[b].kind # "reset",
         Run(d) \/ AgentStep(d) \/ FinishRun(d) \/ ToolStep(d) \/ Timers(d) \/ Manage(d) \/ Awaited(d),
         NEW c \in Client, c # d
  PROVE  Alike(c)
<1> SUFFICES ASSUME TRUE
             PROVE  /\ UNCHANGED <<runPc[c], agentOf[c], trace[c], verdict[c], result[c], callPc[c], toolName[c]>>
                    /\ ToldAlike(c)
  BY DEF Alike, RunAlike, CallAlike, ToldAlike
<1> DEFINE Kept == UNCHANGED <<runPc[c], agentOf[c], trace[c], verdict[c], result[c], callPc[c], toolName[c]>>
<1>t. RunTypes /\ CallTypes /\ MetricTypes
  BY DEF AllTypes
<1>1. CASE Run(d)
  <2>1. Kept
    BY <1>1, <1>t DEF Run, RejectRun, StartRun, RunTypes, callVars
  <2>2. UNCHANGED <<toolLog, agentLog>>
    BY <1>1 DEF Run, RejectRun, StartRun, metricsVars
  <2> QED BY <2>1, <2>2, NothingTold
<1>2. CASE AgentStep(d)
  <2>1. CASE (\E began \in {"none", "active"} : BeginTrace(d, began)) \/ Cancel(d) \/ CallThrows(d)
             \/ (\E success \in Outcome : AgentReturns(d, success)) \/ AgentThrows(d)
    <3>1. UNCHANGED <<toolLog, agentLog>>
      BY <2>1 DEF BeginTrace, Cancel, CallThrows, AgentReturns, AgentThrows, Settle, metricsVars
    <3>2. Kept
      BY <2>1, <1>t DEF BeginTrace, Cancel, Abort, CallThrows, CallTo, AgentReturns, AgentThrows, Settle, RunTypes,
                        CallTypes, callVars, runVars
    <3> QED BY <3>1, <3>2, NothingTold
  <2>2. CASE \E t \in Available(d) : CallTool(d, NameOf[t]) \/ RefuseCall(d, NameOf[t])
    <3>1. PICK n \in ToolName : CallTool(d, n) \/ RefuseCall(d, n)
      BY <2>2, AvailableTyped
    <3>2. Kept
      BY <3>1, <1>t DEF CallTool, RefuseCall, BeginAttempt, CallTo, RunTypes, CallTypes, runVars
    <3>3. CASE CallTool(d, n)
      BY <3>2, <3>3, NothingTold DEF CallTool, metricsVars
    <3>4. CASE RefuseCall(d, n)
      <4>a. PICK no \in BOOLEAN, zero \in Nat : no = FALSE /\ zero = 0
        OBVIOUS
      <4>b. PICK e \in ToolRecord : e = ToolExecuted(d, n, no, zero, zero, no, no)
        BY RecordTyped
      <4>1. e = ToolExecuted(d, n, FALSE, 0, 0, FALSE, FALSE)
        BY <4>a, <4>b
      <4>2. EmitTool(e) /\ e.of # c
        BY <3>4, <4>1 DEF RefuseCall, ToolExecuted
      <4> QED BY <1>t, <3>2, <4>2, ToolTold DEF ToldAlike, CallToldAlike
    <3> QED BY <3>1, <3>3, <3>4
  <2> QED BY <1>2, <2>1, <2>2 DEF AgentStep
<1>3. CASE FinishRun(d)
  <2>1. PICK saved \in Saves, t \in RunDuration : Finish(d, saved, t)
    BY <1>3 DEF FinishRun
  <2>2. Kept
    BY <2>1, <1>t DEF Finish, RunTypes, callVars
  <2>3. FinishEvent(d) \in AgentKinds /\ agentOf[d] \in AgentId /\ t \in Nat
    BY <1>t, <2>1, RuntimeAssumption, MetricsAssumption DEF Finish, FinishEvent, AgentKinds, RunTypes
  <2>4. PICK kind \in AgentKinds, a \in AgentId : kind = FinishEvent(d) /\ a = agentOf[d]
    BY <2>3
  <2>5. PICK e : e = AgentEvent(d, kind, a, t)
    OBVIOUS
  <2>6. e \in AgentRecord /\ e.of # c
    BY <2>3, <2>5 DEF AgentEvent, AgentRecord
  <2>7. EmitAgent(e)
    BY <2>1, <2>4, <2>5 DEF Finish
  <2> QED BY <1>t, <2>2, <2>6, <2>7, AgentTold DEF ToldAlike
<1>4. CASE ToolStep(d)
  <2>1. PICK t \in RunDuration : (\E ok \in BOOLEAN : ToolReturns(d, ok, t))
                                 \/ \E err \in {"AbortError", "Error"} : ToolThrows(d, err, t)
    BY <1>4 DEF ToolStep
  <2>2. Kept
    BY <2>1, <1>t DEF ToolReturns, ToolThrows, EndCall, CallTo, CallTypes, runVars
  <2>3. CASE UNCHANGED metricsVars
    BY <2>2, <2>3, NothingTold DEF metricsVars
  <2>4. CASE ~UNCHANGED metricsVars
    <3>1. PICK ok \in BOOLEAN, tries \in {attempt[d], attempt[d] + 1}, cancel \in BOOLEAN, slow \in BOOLEAN :
            EndCall(d, ok, t, tries, cancel, slow)
      BY <2>1, <2>4 DEF ToolReturns, ToolThrows
    <3>2. tries \in Nat /\ t \in Nat /\ toolName[d] \in ToolName
      <4>1. attempt[d] \in 0 .. MaxRetries
        BY <1>t DEF CallTypes
      <4>2. callPc[d] = "executing"
        BY <2>1 DEF ToolReturns, ToolThrows
      <4>3. attempt[d] \in Nat /\ attempt[d] + 1 \in Nat
        BY <4>1, RunAssumption
      <4>4. t \in Nat
        BY RuntimeAssumption, MetricsAssumption
      <4>5. toolName[d] \in ToolName
        BY <1>t, <4>2 DEF CallTypes
      <4> QED BY <4>3, <4>4, <4>5
    <3>3. PICK n \in ToolName : n = toolName[d]
      BY <3>2
    <3>4. PICK e : e = ToolExecuted(d, n, ok, t, tries, cancel, slow)
      OBVIOUS
    <3>5. e \in ToolRecord
      BY <3>2, <3>4, RecordTyped
    <3>6. EmitTool(e) /\ e.of # c
      BY <3>1, <3>3, <3>4 DEF EndCall, ToolExecuted
    <3> QED BY <1>t, <2>2, <3>5, <3>6, ToolTold DEF ToldAlike, CallToldAlike
  <2> QED BY <2>3, <2>4
<1>5. CASE Timers(d)
  <2>1. UNCHANGED <<toolLog, agentLog>>
    BY <1>5 DEF Timers, Timeout, AttemptTimeout, Retry, metricsVars
  <2>2. Kept
    BY <1>5, <1>t DEF Timers, Timeout, AttemptTimeout, Retry, Abort, BeginAttempt, CallTo, CallTypes, runVars
  <2> QED BY <2>1, <2>2, NothingTold
<1>6. CASE Manage(d)
  <2>1. UNCHANGED <<runVars, callVars>>
    BY <1>6, ManageTyped
  <2>2. Kept
    BY <2>1 DEF runVars, callVars
  <2>3. CASE op[d].kind = "event" /\ ForeignEvent(d)
    <3>1. PICK t \in Duration :
             \/ \E n \in ToolName, ok \in BOOLEAN : EmitTool(ToolExecuted(d, n, ok, t, 0, FALSE, FALSE))
             \/ \E a \in AgentId, kind \in AgentKinds : EmitAgent(AgentEvent(d, kind, a, t))
      BY <2>3 DEF ForeignEvent
    <3>2. t \in Nat
      BY MetricsAssumption
    <3>3. CASE \E n \in ToolName, ok \in BOOLEAN : EmitTool(ToolExecuted(d, n, ok, t, 0, FALSE, FALSE))
      <4>1. PICK n \in ToolName, ok \in BOOLEAN : EmitTool(ToolExecuted(d, n, ok, t, 0, FALSE, FALSE))
        BY <3>3
      <4>a. PICK no \in BOOLEAN, zero \in Nat : no = FALSE /\ zero = 0
        OBVIOUS
      <4>3. PICK e \in ToolRecord : e = ToolExecuted(d, n, ok, t, zero, no, no)
        BY <3>2, RecordTyped
      <4>2. e = ToolExecuted(d, n, ok, t, 0, FALSE, FALSE)
        BY <4>a, <4>3
      <4>4. EmitTool(e) /\ e.of # c
        BY <4>1, <4>2 DEF ToolExecuted
      <4> QED BY <1>t, <2>2, <4>3, <4>4, ToolTold DEF ToldAlike, CallToldAlike
    <3>4. CASE \E a \in AgentId, kind \in AgentKinds : EmitAgent(AgentEvent(d, kind, a, t))
      <4>1. PICK a \in AgentId, kind \in AgentKinds : EmitAgent(AgentEvent(d, kind, a, t))
        BY <3>4
      <4>2. PICK e : e = AgentEvent(d, kind, a, t)
        OBVIOUS
      <4>3. e \in AgentRecord /\ e.of # c
        BY <3>2, <4>2 DEF AgentEvent, AgentRecord
      <4>4. EmitAgent(e)
        BY <4>1, <4>2
      <4> QED BY <1>t, <2>2, <4>3, <4>4, AgentTold DEF ToldAlike
    <3> QED BY <3>1, <3>3, <3>4
  <2>4. CASE ~(op[d].kind = "event" /\ ForeignEvent(d))
    <3>1. UNCHANGED <<toolLog, agentLog>>
      BY <1>6, <2>4 DEF Manage, OnlyEnv, RegisterTool, metricsVars
    <3> QED BY <2>2, <3>1, NothingTold
  <2> QED BY <2>3, <2>4
<1>7. CASE Awaited(d)
  <2>1. UNCHANGED <<toolLog, agentLog>> /\ Kept
    BY <1>7 DEF Awaited, OnlyEnv, metricsVars, runVars, callVars
  <2> QED BY <2>1, NothingTold
<1> QED BY <1>1, <1>2, <1>3, <1>4, <1>5, <1>6, <1>7

(* The event of a tool call that ends is its first and only one. *)
LEMMA CallIsTold ==
  ASSUME AllTypes, NEW c \in Client, CallStory(c), callPc[c] # "done", NEW n \in ToolName, NEW e \in ToolRecord,
         e.of = c, e.key = n, EmitTool(e), callPc'[c] = "done", toolName'[c] = n
  PROVE  CallStory(c)'
<1>1. \A m \in ToolName : EventsOf(c, toolLog[m]) = {}
  BY DEF CallStory
<1>2. MetricTypes
  BY DEF AllTypes
<1>3. \A m \in ToolName :
        /\ (m # e.key \/ e.of # c) => EventsOf(c, toolLog'[m]) = EventsOf(c, toolLog[m])
        /\ (m = e.key /\ e.of = c) =>
             EventsOf(c, toolLog'[m]) = EventsOf(c, toolLog[m]) \cup {Len(toolLog[m]) + 1}
  BY <1>2, ToolTold
<1>4. ASSUME NEW m \in ToolName
      PROVE  /\ m = n => \E i : EventsOf(c, toolLog'[m]) = {i}
             /\ m # n => EventsOf(c, toolLog'[m]) = {}
  BY <1>1, <1>3
<1> QED BY <1>4 DEF CallStory

(* A step of the runtime that concerns neither a run nor its call. *)
LEMMA NothingHappens ==
  ASSUME NEW c, UNCHANGED <<runPc[c], agentOf[c], trace[c], verdict[c], result[c], callPc[c], toolName[c]>>,
         UNCHANGED <<toolLog, agentLog>>
  PROVE  Alike(c)
  BY NothingTold DEF Alike, RunAlike, CallAlike, ToldAlike

(* Each step of a run tells its part of the story. *)
LEMMA OwnStory ==
  ASSUME AllTypes, op \in Workload, NEW c \in Client, op[c].kind = "run", RunStory(c), CallStory(c),
         Run(c) \/ AgentStep(c) \/ FinishRun(c) \/ ToolStep(c) \/ Timers(c) \/ Manage(c) \/ Awaited(c)
  PROVE  RunStory(c)' /\ CallStory(c)'
<1>t. RunTypes /\ CallTypes /\ MetricTypes
  BY DEF AllTypes
<1>1. CASE Run(c)
  <2>1. /\ runPc[c] = "idle" /\ runPc'[c] \in {"rejected", "tracing"}
        /\ UNCHANGED <<trace, verdict, result, callVars, metricsVars>>
    BY <1>1, <1>t DEF Run, RejectRun, StartRun, RunTypes
  <2>2. CallAlike(c) /\ RunToldAlike(c)
    BY <2>1, NothingTold DEF ToldAlike, CallAlike, callVars, metricsVars
  <2>3. RunStory(c)'
    BY <2>1, <2>2 DEF RunStory, RunToldAlike
  <2> QED BY <2>2, <2>3, CallStoryStands
<1>2. CASE AgentStep(c)
  <2>1. CASE \E began \in {"none", "active"} : BeginTrace(c, began)
    <3>1. /\ runPc[c] = "tracing" /\ runPc'[c] = "executing" /\ trace'[c] \in {"none", "active"}
          /\ UNCHANGED <<verdict, result, callVars, metricsVars>>
      BY <2>1, <1>t DEF BeginTrace, RunTypes
    <3>2. CallAlike(c) /\ RunToldAlike(c)
      BY <3>1, NothingTold DEF ToldAlike, CallAlike, callVars, metricsVars
    <3>3. RunStory(c)'
      BY <3>1, <3>2 DEF RunStory, RunToldAlike
    <3> QED BY <3>2, <3>3, CallStoryStands
  <2>2. CASE (\E success \in Outcome : AgentReturns(c, success)) \/ AgentThrows(c)
    <3>1. PICK how \in {"ok", "error"}, success \in Outcome :
            Settle(c, how, success) /\ (how # "ok" => success = "no")
      BY <2>2 DEF AgentReturns, AgentThrows, Outcome
    <3>2. /\ runPc[c] = "executing" /\ runPc'[c] = "finishing" /\ verdict'[c] = how /\ result'[c] = success
          /\ UNCHANGED <<trace, callVars, metricsVars>>
      BY <3>1, <1>t DEF Settle, RunTypes
    <3>3. CallAlike(c) /\ RunToldAlike(c)
      BY <3>2, NothingTold DEF ToldAlike, CallAlike, callVars, metricsVars
    <3>4. RunStory(c)'
      BY <3>1, <3>2, <3>3 DEF RunStory, RunToldAlike
    <3> QED BY <3>3, <3>4, CallStoryStands
  <2>3. CASE Cancel(c)
    <3>1. Alike(c)
      BY <2>3, NothingHappens DEF Cancel, Abort, metricsVars
    <3> QED BY <3>1, RunStoryStands, CallStoryStands DEF Alike
  <2>4. CASE CallThrows(c) \/ \E t \in Available(c) : CallTool(c, NameOf[t])
    <3>1. /\ callPc[c] = "idle" /\ callPc'[c] \in {"rejected", "executing"}
          /\ UNCHANGED <<runVars, metricsVars>>
      BY <2>4, <1>t DEF CallThrows, CallTool, BeginAttempt, CallTo, CallTypes
    <3>2. CallAlike(c) /\ RunAlike(c)
      BY <3>1, NothingTold DEF ToldAlike, CallAlike, RunAlike, runVars, metricsVars
    <3> QED BY <3>2, RunStoryStands, CallStoryStands
  <2>5. CASE \E t \in Available(c) : RefuseCall(c, NameOf[t])
    <3>1. PICK n \in ToolName : RefuseCall(c, n)
      BY <2>5, AvailableTyped
    <3>2. PICK e \in ToolRecord : e = ToolExecuted(c, n, FALSE, 0, 0, FALSE, FALSE)
      BY RecordTyped
    <3>3. EmitTool(e) /\ e.of = c /\ e.key = n
      BY <3>1, <3>2 DEF RefuseCall, ToolExecuted
    <3>4. callPc[c] # "done" /\ callPc'[c] = "done" /\ toolName'[c] = n /\ UNCHANGED runVars
      BY <3>1, <1>t DEF RefuseCall, CallTo, CallTypes
    <3>5. CallStory(c)'
      BY <3>3, <3>4, CallIsTold
    <3>6. RunAlike(c)
      BY <1>t, <3>3, <3>4, ToolTold DEF RunAlike, runVars
    <3> QED BY <3>5, <3>6, RunStoryStands
  <2> QED BY <1>2, <2>1, <2>2, <2>3, <2>4, <2>5 DEF AgentStep
<1>3. CASE FinishRun(c)
  <2>1. PICK saved \in Saves, t \in RunDuration : Finish(c, saved, t)
    BY <1>3 DEF FinishRun
  <2>2. FinishEvent(c) \in AgentKinds /\ agentOf[c] \in AgentId /\ t \in Nat
    BY <1>t, <2>1, RuntimeAssumption, MetricsAssumption DEF Finish, FinishEvent, AgentKinds, RunTypes
  <2>3. PICK kind \in AgentKinds, a \in AgentId : kind = FinishEvent(c) /\ a = agentOf[c]
    BY <2>2
  <2>4. PICK e : e = AgentEvent(c, kind, a, t)
    OBVIOUS
  <2>5. e \in AgentRecord /\ e.of = c /\ e.key = a /\ e.event = kind
    BY <2>2, <2>4 DEF AgentEvent, AgentRecord
  <2>6. EmitAgent(e)
    BY <2>1, <2>3, <2>4 DEF Finish
  <2>7. CallToldAlike(c)
    BY <1>t, <2>5, <2>6, AgentTold
  <2>8. /\ EventsOf(c, agentLog'[a]) = EventsOf(c, agentLog[a]) \cup {Len(agentLog[a]) + 1}
        /\ Len(agentLog[a]) + 1 \in DOMAIN agentLog'[a] /\ agentLog'[a][Len(agentLog[a]) + 1] = e
    BY <1>t, <2>5, <2>6, AgentTold
  <2>9. /\ runPc[c] = "finishing" /\ runPc'[c] = "done" /\ agentOf'[c] = a /\ result'[c] = result[c]
        /\ trace'[c] = IF trace[c] # "none" /\ saved THEN FinishStatus(c) ELSE trace[c]
        /\ UNCHANGED callVars
    BY <2>1, <2>3, <1>t DEF Finish, RunTypes
  <2>10. CallStory(c)'
    BY <2>7, <2>9, CallStoryStands DEF CallAlike, callVars
  <2>11. EventsOf(c, agentLog[a]) = {} /\ trace[c] \in {"none", "active"} /\ (verdict[c] # "ok" => result[c] = "no")
    BY <2>9 DEF RunStory
  <2>12. PICK i \in DOMAIN agentLog'[a] : EventsOf(c, agentLog'[a]) = {i} /\ agentLog'[a][i] = e
    BY <2>8, <2>11
  <2>13. /\ trace'[c] = "completed" => verdict[c] = "ok"
         /\ trace'[c] = "failed" => verdict[c] # "ok"
    BY <2>9, <2>11 DEF FinishStatus
  <2>14. /\ e.event = "AgentCompleted" <=> verdict[c] = "ok"
         /\ e.event = "AgentFailed" <=> verdict[c] # "ok"
    BY <2>3, <2>5 DEF FinishEvent
  <2>15. Told(c)'
    BY <2>9, <2>11, <2>12, <2>13, <2>14 DEF Told
  <2>16. RunStory(c)'
    BY <2>9, <2>15 DEF RunStory
  <2> QED BY <2>10, <2>16
<1>4. CASE ToolStep(c)
  <2>1. PICK t \in RunDuration : (\E ok \in BOOLEAN : ToolReturns(c, ok, t))
                                 \/ \E err \in {"AbortError", "Error"} : ToolThrows(c, err, t)
    BY <1>4 DEF ToolStep
  <2>2. callPc[c] = "executing" /\ toolName[c] \in ToolName
    BY <2>1, <1>t DEF ToolReturns, ToolThrows, CallTypes
  <2>3. CASE \E ok \in BOOLEAN, tries \in {attempt[c], attempt[c] + 1}, cancel \in BOOLEAN, slow \in BOOLEAN :
               EndCall(c, ok, t, tries, cancel, slow)
    <3>1. PICK ok \in BOOLEAN, tries \in {attempt[c], attempt[c] + 1}, cancel \in BOOLEAN, slow \in BOOLEAN :
            EndCall(c, ok, t, tries, cancel, slow)
      BY <2>3
    <3>2. tries \in Nat /\ t \in Nat
      <4>1. attempt[c] \in 0 .. MaxRetries
        BY <1>t DEF CallTypes
      <4>2. attempt[c] \in Nat /\ attempt[c] + 1 \in Nat
        BY <4>1, RunAssumption
      <4> QED BY <4>2, RuntimeAssumption, MetricsAssumption
    <3>3. PICK n \in ToolName : n = toolName[c]
      BY <2>2
    <3>4. PICK e : e = ToolExecuted(c, n, ok, t, tries, cancel, slow)
      OBVIOUS
    <3>5. e \in ToolRecord
      BY <3>2, <3>4, RecordTyped
    <3>6. EmitTool(e) /\ e.of = c /\ e.key = n
      BY <3>1, <3>3, <3>4 DEF EndCall, ToolExecuted
    <3>7. callPc[c] # "done" /\ callPc'[c] = "done" /\ toolName'[c] = n /\ UNCHANGED runVars
      BY <2>2, <3>1, <3>3, <1>t DEF EndCall, CallTo, CallTypes
    <3>8. CallStory(c)'
      BY <3>5, <3>6, <3>7, CallIsTold
    <3>9. RunAlike(c)
      BY <1>t, <3>5, <3>6, <3>7, ToolTold DEF RunAlike, runVars
    <3> QED BY <3>8, <3>9, RunStoryStands
  <2>4. CASE ~ \E ok \in BOOLEAN, tries \in {attempt[c], attempt[c] + 1}, cancel \in BOOLEAN, slow \in BOOLEAN :
                 EndCall(c, ok, t, tries, cancel, slow)
    <3>1. callPc' = [callPc EXCEPT ![c] = "backoff"] /\ UNCHANGED <<runVars, metricsVars>>
      BY <2>1, <2>4 DEF ToolReturns, ToolThrows, CallTo
    <3>2. callPc'[c] = "backoff"
      BY <1>t, <3>1 DEF CallTypes
    <3>3. CallAlike(c) /\ RunAlike(c)
      BY <2>2, <3>1, <3>2, NothingTold DEF ToldAlike, CallAlike, RunAlike, runVars, metricsVars
    <3> QED BY <3>3, RunStoryStands, CallStoryStands
  <2> QED BY <2>3, <2>4
<1>5. CASE Timers(c)
  <2>1. UNCHANGED <<toolLog, agentLog>> /\ UNCHANGED <<runPc, agentOf, trace, verdict, result, toolName>>
    BY <1>5 DEF Timers, Timeout, AttemptTimeout, Retry, Abort, metricsVars, runVars
  <2>2. callPc'[c] = callPc[c] \/ (callPc[c] = "backoff" /\ callPc'[c] = "executing")
    BY <1>5, <1>t DEF Timers, Timeout, AttemptTimeout, Retry, Abort, BeginAttempt, CallTo, CallTypes
  <2>3. CallAlike(c) /\ RunAlike(c)
    BY <2>1, <2>2, NothingTold DEF ToldAlike, CallAlike, RunAlike
  <2> QED BY <2>3, RunStoryStands, CallStoryStands
<1>6. CASE Manage(c)
  BY <1>6 DEF Manage
<1>7. CASE Awaited(c)
  <2>1. Alike(c)
    BY <1>7, NothingHappens DEF Awaited, OnlyEnv, metricsVars, runVars, callVars
  <2> QED BY <2>1, RunStoryStands, CallStoryStands DEF Alike
<1> QED BY <1>1, <1>2, <1>3, <1>4, <1>5, <1>6, <1>7

NoResets == \A c \in Client : op[c].kind # "reset"
StoryInv ==
  /\ TypeInv
  /\ NoResets => \A c \in Client : op[c].kind = "run" => RunStory(c) /\ CallStory(c)

(* At first there is nothing to tell. *)
LEMMA StoryInit == Init => StoryInv
<1> SUFFICES ASSUME Init PROVE StoryInv
  OBVIOUS
<1>1. PICK names : MetricsInit(names)
  BY DEF Init
<1>2. \A a \in AgentId, c \in Client : EventsOf(c, agentLog[a]) = {}
  BY <1>1 DEF MetricsInit, EventsOf
<1>3. \A n \in ToolName, c \in Client : EventsOf(c, toolLog[n]) = {}
  BY <1>1 DEF MetricsInit, EventsOf
<1>4. \A c \in Client : runPc[c] = "idle" /\ trace[c] = "none" /\ callPc[c] = "idle"
  BY DEF Init, RunInit
<1>5. \A c \in Client : RunStory(c) /\ CallStory(c)
  BY <1>2, <1>3, <1>4 DEF RunStory, CallStory
<1> QED BY <1>5, TypesInit DEF StoryInv

(* Every step tells its part, and nothing else. *)
LEMMA StoryStep ==
  ASSUME StoryInv, [Next]_vars
  PROVE  StoryInv'
<1>1. TypeInv' /\ AllTypes /\ op \in Workload
  BY TypesStep DEF StoryInv, TypeInv, SoundInv
<1>2. op' = op
  BY DEF Next, vars, Run, AgentStep, FinishRun, ToolStep, Timers, OnlyRun, Manage, Awaited, OnlyEnv,
         ForeignEvent, RegisterTool, ResetCollector
<1> SUFFICES ASSUME NoResets, NEW c \in Client, op[c].kind = "run" PROVE RunStory(c)' /\ CallStory(c)'
  BY <1>1, <1>2 DEF StoryInv, NoResets
<1>3. RunStory(c) /\ CallStory(c)
  BY DEF StoryInv
<1>4. CASE UNCHANGED vars
  <2>1. Alike(c)
    BY <1>4, NothingHappens DEF vars, metricsVars, runVars, callVars
  <2> QED BY <1>3, <2>1, RunStoryStands, CallStoryStands DEF Alike
<1>5. CASE Next
  <2>1. PICK d \in Client : \/ Run(d) \/ AgentStep(d) \/ FinishRun(d) \/ ToolStep(d) \/ Timers(d)
                            \/ Manage(d) \/ Awaited(d)
    BY <1>5 DEF Next
  <2>2. CASE c = d
    BY <1>1, <1>3, <2>1, <2>2, OwnStory
  <2>3. CASE c # d
    <3>1. Alike(c)
      BY <1>1, <2>1, <2>3, OthersAlike DEF NoResets
    <3> QED BY <1>3, <3>1, RunStoryStands, CallStoryStands DEF Alike
  <2> QED BY <2>2, <2>3
<1> QED BY <1>4, <1>5

(* What the invariant says is one story. *)
LEMMA StoryTold == StoryInv => OneStory
<1> SUFFICES ASSUME StoryInv, NoResets, NEW c \in Client, op[c].kind = "run"
             PROVE  /\ runPc[c] = "done" => Told(c)
                    /\ \A n \in ToolName :
                         Cardinality(EventsOf(c, toolLog[n])) = One(callPc[c] = "done" /\ n = toolName[c])
  BY DEF OneStory, NoResets, Told
<1>1. RunStory(c) /\ CallStory(c)
  BY DEF StoryInv
<1>2. ASSUME NEW n \in ToolName
      PROVE  Cardinality(EventsOf(c, toolLog[n])) = One(callPc[c] = "done" /\ n = toolName[c])
  <2>1. CASE callPc[c] = "done" /\ n = toolName[c]
    <3>1. PICK i : EventsOf(c, toolLog[n]) = {i}
      BY <1>1, <2>1 DEF CallStory
    <3>2. Cardinality({i}) = 1
      BY FS_Singleton
    <3> QED BY <2>1, <3>1, <3>2 DEF One
  <2>2. CASE ~(callPc[c] = "done" /\ n = toolName[c])
    <3>1. EventsOf(c, toolLog[n]) = {}
      BY <1>1, <2>2 DEF CallStory
    <3>2. Cardinality({}) = 0
      BY FS_EmptySet
    <3> QED BY <2>2, <3>1, <3>2 DEF One
  <2> QED BY <2>1, <2>2
<1> QED BY <1>1, <1>2 DEF RunStory

(* Whatever the agents, tools, timers and other clients do, a run that is  *)
(* over and a tool call that is over have each emitted one event, which    *)
(* says what the trace and the result say.                                 *)
THEOREM OneStoryTheorem == SafeSpec => []OneStory
<1>1. StoryInv /\ [Next]_vars => StoryInv'
  BY StoryStep
<1> QED BY <1>1, StoryInit, StoryTold, PTL DEF SafeSpec
-----------------------------------------------------------------------------
(* What the collector computes from a list *)

(* A sum is what its recursive function says of each index. *)
LEMMA SumSteps ==
  ASSUME NEW s \in Seq(Nat)
  PROVE  \E F : /\ SumUp(s) = F[Len(s)] /\ F[0] = 0
                /\ \A i \in 1 .. Len(s) : F[i] = F[i - 1] + s[i]
<1> DEFINE Pass(G, m) == [i \in 0 .. m |-> IF i = 0 THEN 0 ELSE G[i - 1] + s[i]]
           S == {m \in Nat : \E G : G = Pass(G, m)}
<1>1. 0 \in S
  <2>1. [i \in 0 .. 0 |-> 0] = Pass([i \in 0 .. 0 |-> 0], 0)
    OBVIOUS
  <2> QED BY <2>1
<1>2. ASSUME NEW m \in Nat, m \in S PROVE m + 1 \in S
  <2>1. PICK G : G = Pass(G, m)
    BY <1>2
  <2> DEFINE last == G[m] + s[m + 1]
             H == [i \in 0 .. m + 1 |-> IF i = m + 1 THEN last ELSE G[i]]
  <2>2. \A i \in 0 .. m : H[i] = G[i]
    OBVIOUS
  <2>3. ASSUME NEW i \in 0 .. m + 1 PROVE H[i] = Pass(H, m + 1)[i]
    <3>1. CASE i = m + 1
      <4>1. H[i] = last /\ i - 1 = m /\ i # 0 /\ H[i - 1] = G[m]
        BY <1>2, <2>2, <3>1
      <4> QED BY <3>1, <4>1
    <3>2. CASE i = 0
      <4>1. H[i] = G[0] /\ G[0] = Pass(G, m)[0]
        BY <1>2, <2>1, <2>2, <3>2
      <4> QED BY <3>2, <4>1
    <3>3. CASE i \in 1 .. m
      <4>0. i \in 0 .. m /\ i - 1 \in 0 .. m /\ i # 0 /\ i # m + 1
        BY <1>2, <3>3
      <4>1. H[i] = G[i] /\ H[i - 1] = G[i - 1] /\ G[i] = Pass(G, m)[i]
        <5> HIDE DEF H, Pass
        <5> QED BY <2>1, <2>2, <4>0
      <4>2. G[i] = G[i - 1] + s[i]
        BY <3>3, <4>1
      <4> HIDE DEF H
      <4> QED BY <4>0, <4>1, <4>2
    <3>4. i = m + 1 \/ i = 0 \/ i \in 1 .. m
      BY <1>2
    <3> HIDE DEF H, Pass
    <3> QED BY <3>1, <3>2, <3>3, <3>4
  <2>4. H = Pass(H, m + 1)
    BY <2>3
  <2>5. m + 1 \in Nat
    BY <1>2
  <2> HIDE DEF H, Pass
  <2> QED BY <2>4, <2>5
<1>3. Nat \subseteq S
  <2> HIDE DEF S
  <2> QED BY <1>1, <1>2, SetInduction
<1> DEFINE F == CHOOSE G : G = Pass(G, Len(s))
<1>5. F = Pass(F, Len(s))
  <2>1. Len(s) \in Nat
    BY LenProperties
  <2>2. Len(s) \in S
    <3> HIDE DEF S
    <3> QED BY <1>3, <2>1
  <2>3. \E G : G = Pass(G, Len(s))
    BY <2>2
  <2> HIDE DEF Pass
  <2> QED BY <2>3
<1>6. SumUp(s) = F[Len(s)]
  BY DEF SumUp
<1> HIDE DEF F
<1>7. F[0] = 0
  <2>1. 0 \in 0 .. Len(s)
    BY LenProperties
  <2>2. F[0] = Pass(F, Len(s))[0]
    <3> HIDE DEF Pass
    <3> QED BY <1>5
  <2> QED BY <2>1, <2>2
<1>8. ASSUME NEW i \in 1 .. Len(s) PROVE F[i] = F[i - 1] + s[i]
  <2>1. i # 0 /\ i \in 0 .. Len(s)
    BY LenProperties
  <2>2. F[i] = Pass(F, Len(s))[i]
    <3> HIDE DEF Pass
    <3> QED BY <1>5
  <2> QED BY <2>1, <2>2
<1> QED BY <1>6, <1>7, <1>8

(* Two functions with the same first value and the same steps agree. *)
LEMMA SameSteps ==
  ASSUME NEW F, NEW G, NEW s, NEW n \in Nat, F[0] = G[0],
         \A i \in 1 .. n : F[i] = F[i - 1] + s[i], \A i \in 1 .. n : G[i] = G[i - 1] + s[i]
  PROVE  F[n] = G[n]
<1> DEFINE S == {m \in Nat : m <= n => F[m] = G[m]}
<1>1. 0 \in S
  OBVIOUS
<1>2. ASSUME NEW m \in Nat, m \in S PROVE m + 1 \in S
  <2>1. CASE m + 1 <= n
    <3>1. m + 1 \in 1 .. n /\ (m + 1) - 1 = m /\ m <= n
      BY <2>1
    <3>2. F[m + 1] = F[m] + s[m + 1] /\ G[m + 1] = G[m] + s[m + 1]
      BY <3>1
    <3> QED BY <1>2, <3>1, <3>2
  <2> QED BY <2>1
<1>3. Nat \subseteq S
  <2> HIDE DEF S
  <2> QED BY <1>1, <1>2, SetInduction
<1> QED BY <1>3

(* A sum of numbers is a number, and grows by what is appended. *)
LEMMA SumAppend ==
  ASSUME NEW s \in Seq(Nat), NEW v \in Nat
  PROVE  SumUp(Append(s, v)) = SumUp(s) + v
<1> DEFINE a == Append(s, v)
           n == Len(s)
<1>1. n \in Nat /\ a \in Seq(Nat) /\ Len(a) = n + 1 /\ a[n + 1] = v /\ \A i \in 1 .. n : a[i] = s[i]
  BY LenProperties, AppendProperties
<1>2. PICK F : SumUp(s) = F[n] /\ F[0] = 0 /\ \A i \in 1 .. n : F[i] = F[i - 1] + s[i]
  BY SumSteps
<1> HIDE DEF a, n
<1>3. PICK G : SumUp(a) = G[Len(a)] /\ G[0] = 0 /\ \A i \in 1 .. Len(a) : G[i] = G[i - 1] + a[i]
  BY <1>1, SumSteps
<1>4. G[n + 1] = G[n] + a[n + 1]
  <2>1. n + 1 \in 1 .. Len(a) /\ (n + 1) - 1 = n
    BY <1>1
  <2> QED BY <1>3, <2>1
<1>5. \A i \in 1 .. n : G[i] = G[i - 1] + s[i]
  <2>1. \A i \in 1 .. n : i \in 1 .. Len(a)
    BY <1>1
  <2> QED BY <1>1, <1>3, <2>1
<1>6. F[n] = G[n]
  <2>1. F[0] = G[0] /\ n \in Nat
    BY <1>1, <1>2, <1>3
  <2>2. \A i \in 1 .. n : F[i] = F[i - 1] + s[i]
    BY <1>2
  <2> QED BY ONLY <1>5, <2>1, <2>2, SameSteps
<1> QED BY <1>1, <1>2, <1>3, <1>4, <1>6 DEF a

(* A sum is a number, and not above its length times a bound of its terms. *)
LEMMA SumBound ==
  ASSUME NEW s \in Seq(Nat), NEW d \in Nat, \A i \in 1 .. Len(s) : s[i] <= d
  PROVE  SumUp(s) \in Nat /\ SumUp(s) <= Len(s) * d
<1> DEFINE n == Len(s)
<1>1. n \in Nat
  BY LenProperties
<1>2. PICK F : SumUp(s) = F[n] /\ F[0] = 0 /\ \A i \in 1 .. n : F[i] = F[i - 1] + s[i]
  BY SumSteps
<1>3. \A i \in 1 .. n : s[i] \in Nat /\ s[i] <= d
  BY ElementOfSeq
<1> HIDE DEF n
<1> DEFINE S == {m \in Nat : m <= n => F[m] \in Nat /\ F[m] <= m * d}
<1>4. 0 \in S
  <2>1. 0 * d = 0
    OBVIOUS
  <2> QED BY <1>2, <2>1
<1>5. ASSUME NEW m \in Nat, m \in S PROVE m + 1 \in S
  <2>1. CASE m + 1 <= n
    <3>1. m + 1 \in 1 .. n /\ (m + 1) - 1 = m /\ m <= n
      BY <1>1, <2>1
    <3>2. F[m] \in Nat /\ F[m] <= m * d
      BY <1>5, <3>1
    <3>3. F[m + 1] = F[m] + s[m + 1]
      BY <1>2, <3>1
    <3>4. s[m + 1] \in Nat /\ s[m + 1] <= d
      BY <1>3, <3>1
    <3>5. m * d \in Nat /\ (m + 1) * d = m * d + d
      OBVIOUS
    <3>6. PICK x \in Nat, y \in Nat, z \in Nat : x = F[m] /\ y = s[m + 1] /\ z = m * d
      BY <3>2, <3>4, <3>5
    <3>7. F[m + 1] \in Nat /\ F[m + 1] <= (m + 1) * d
      <4>a. x \in Nat /\ y \in Nat /\ z \in Nat /\ d \in Nat /\ x <= z /\ y <= d
        BY <3>2, <3>4, <3>6
      <4>1. x + y \in Nat /\ x + y <= z + d
        BY ONLY <4>a
      <4> QED BY <3>3, <3>5, <3>6, <4>1
    <3> QED BY <3>7
  <2> QED BY <2>1
<1>6. Nat \subseteq S
  <2> HIDE DEF S
  <2> QED BY <1>4, <1>5, SetInduction
<1>7. F[n] \in Nat /\ F[n] <= n * d
  <2>1. n \in S
    <3> HIDE DEF S
    <3> QED BY <1>1, <1>6
  <2> QED BY <1>1, <2>1
<1> QED BY <1>2, <1>7 DEF n

(* A list of numbers that is not empty has a greatest. *)
LEMMA GreatestIs ==
  ASSUME NEW s \in Seq(Nat), s # << >>
  PROVE  \E i \in 1 .. Len(s) : \A j \in 1 .. Len(s) : s[j] <= s[i]
<1> DEFINE n == Len(s)
           S == {m \in Nat : m + 1 <= n => \E i \in 1 .. m + 1 : \A j \in 1 .. m + 1 : s[j] <= s[i]}
<1>1. n \in Nat /\ n >= 1
  BY LenProperties, EmptySeq
<1>2. \A i \in 1 .. n : s[i] \in Nat
  BY ElementOfSeq
<1> HIDE DEF n
<1>3. 0 \in S
  <2>1. 1 \in 1 .. n /\ s[1] <= s[1]
    BY <1>1, <1>2
  <2>2. \A j \in 1 .. 0 + 1 : j = 1
    OBVIOUS
  <2> QED BY <2>1, <2>2
<1>4. ASSUME NEW m \in Nat, m \in S PROVE m + 1 \in S
  <2>1. CASE (m + 1) + 1 <= n
    <3>1. PICK i \in 1 .. m + 1 : \A j \in 1 .. m + 1 : s[j] <= s[i]
      BY <1>1, <1>4, <2>1
    <3> DEFINE k == (m + 1) + 1
    <3>2. k \in 1 .. n /\ i \in 1 .. n /\ i \in 1 .. k /\ \A j \in 1 .. k : j \in 1 .. n /\ (j = k \/ j \in 1 .. m + 1)
      BY <1>1, <2>1
    <3> HIDE DEF k
    <3>3. CASE s[k] <= s[i]
      <4>1. \A j \in 1 .. k : s[j] <= s[i]
        BY <3>1, <3>2, <3>3
      <4> QED BY <3>2, <4>1 DEF k
    <3>4. CASE ~(s[k] <= s[i])
      <4>1. \A j \in 1 .. k : s[j] <= s[k]
        <5> SUFFICES ASSUME NEW j \in 1 .. k PROVE s[j] <= s[k]
          OBVIOUS
        <5>1. s[j] \in Nat /\ s[k] \in Nat /\ s[i] \in Nat /\ (j = k \/ s[j] <= s[i])
          BY <1>2, <3>1, <3>2
        <5> QED BY <3>4, <5>1
      <4>2. k \in 1 .. k
        BY <3>2
      <4> QED BY <4>1, <4>2 DEF k
    <3> QED BY <3>3, <3>4
  <2> QED BY <2>1
<1>5. Nat \subseteq S
  <2> HIDE DEF S
  <2> QED BY <1>3, <1>4, SetInduction
<1>6. n - 1 \in Nat /\ n - 1 \in S /\ (n - 1) + 1 = n
  <2>1. n - 1 \in Nat /\ (n - 1) + 1 = n
    BY <1>1
  <2> HIDE DEF S
  <2> QED BY <1>5, <2>1
<1>7. \E i \in 1 .. n : \A j \in 1 .. n : s[j] <= s[i]
  BY <1>1, <1>6
<1> QED BY <1>7 DEF n

(* How many durations of a window do not exceed d. *)
NotAbove(buf, d) == {i \in DOMAIN buf : buf[i] <= d}

(* Their number is one of 0 to the length of the window. *)
LEMMA NotAboveIs ==
  ASSUME NEW buf \in Seq(Nat), NEW d
  PROVE  Cardinality(NotAbove(buf, d)) \in 0 .. Len(buf)
<1>1. Len(buf) \in Nat /\ DOMAIN buf = 1 .. Len(buf)
  BY LenProperties
<1>2. PICK n \in Nat : n = Len(buf)
  BY <1>1
<1>3. IsFiniteSet(1 .. n) /\ Cardinality(1 .. n) = n
  BY FS_Interval
<1>4. NotAbove(buf, d) \in SUBSET (1 .. n)
  BY <1>1, <1>2 DEF NotAbove
<1>5. PICK T \in SUBSET (1 .. n) : T = NotAbove(buf, d)
  BY <1>4
<1>6. IsFiniteSet(T) /\ Cardinality(T) <= Cardinality(1 .. n)
  BY <1>3, FS_Subset
<1>7. Cardinality(T) \in Nat
  BY <1>6, FS_CardinalityType
<1>8. Cardinality(T) \in 0 .. n
  BY <1>3, <1>6, <1>7
<1> QED BY <1>2, <1>5, <1>8

(* The rank of a duration: one of the window, and in the order of ranks. *)
LEMMA RankIs ==
  ASSUME NEW buf \in Seq(Nat), NEW k \in 1 .. Len(buf)
  PROVE  /\ AtRank(buf, k) \in Range(buf) /\ AtRank(buf, k) \in Nat
         /\ \A l \in 1 .. Len(buf) : k <= l => AtRank(buf, k) <= AtRank(buf, l)
<1> DEFINE C(j) == {d \in Range(buf) : Cardinality(NotAbove(buf, d)) >= j}
           n == Len(buf)
<1>1. n \in Nat /\ DOMAIN buf = 1 .. n /\ n >= 1 /\ buf # << >>
  BY LenProperties, EmptySeq
<1>2. Range(buf) \subseteq Nat
  BY <1>1, ElementOfSeq DEF Range
<1>3. ASSUME NEW j \in 1 .. n PROVE C(j) # {} /\ C(j) \subseteq Nat /\ C(j) \subseteq Range(buf)
  <2>1. PICK i \in 1 .. n : \A h \in 1 .. n : buf[h] <= buf[i]
    BY <1>1, GreatestIs
  <2>2. NotAbove(buf, buf[i]) = 1 .. n
    BY <1>1, <2>1 DEF NotAbove
  <2>3. Cardinality(1 .. n) = n
    <3>1. PICK m \in Nat : m = n /\ m >= 1
      BY <1>1
    <3>2. Cardinality(1 .. m) = m
      BY FS_Interval
    <3> QED BY <3>1, <3>2
  <2>4. buf[i] \in Range(buf)
    BY <1>1 DEF Range
  <2>5. Cardinality(NotAbove(buf, buf[i])) >= j
    <3>1. j <= n
      BY <1>3
    <3> HIDE DEF n
    <3> QED BY <1>1, <2>2, <2>3, <3>1
  <2> QED BY <1>2, <2>4, <2>5
<1>4. ASSUME NEW j PROVE AtRank(buf, j) = Min(C(j))
  BY DEF AtRank, NotAbove
<1>5. ASSUME NEW j \in 1 .. n
      PROVE  AtRank(buf, j) \in C(j) /\ \A x \in C(j) : AtRank(buf, j) <= x
  <2>1. PICK S : S = C(j)
    OBVIOUS
  <2>2. S \subseteq Nat /\ S # {}
    BY <1>3, <1>5, <2>1
  <2>3. Min(S) \in S /\ \A x \in S : Min(S) <= x
    BY <2>2, LeastIs
  <2> HIDE DEF C
  <2> QED BY <1>4, <2>1, <2>3
<1>6. AtRank(buf, k) \in Range(buf) /\ AtRank(buf, k) \in Nat
  BY <1>3, <1>5
<1>7. ASSUME NEW l \in 1 .. n, k <= l PROVE AtRank(buf, k) <= AtRank(buf, l)
  <2>1. AtRank(buf, l) \in Range(buf) /\ Cardinality(NotAbove(buf, AtRank(buf, l))) >= l
    BY <1>5, <1>7
  <2>2. Cardinality(NotAbove(buf, AtRank(buf, l))) \in 0 .. n
    BY NotAboveIs
  <2>3. Cardinality(NotAbove(buf, AtRank(buf, l))) >= k
    <3>1. PICK m \in Nat : m = Cardinality(NotAbove(buf, AtRank(buf, l)))
      BY <2>2
    <3>2. k \in Nat /\ l \in Nat
      BY <1>1, <1>7
    <3> QED BY <1>7, <2>1, <3>1, <3>2
  <2>4. AtRank(buf, l) \in C(k)
    BY <2>1, <2>3
  <2> HIDE DEF C
  <2> QED BY <1>5, <2>4
<1> QED BY <1>6, <1>7

(* The percentiles of a window are durations of it, in order. *)
LEMMA PercentilesAre ==
  ASSUME NEW buf \in Seq(Nat), buf # << >>
  PROVE  /\ {Percentile(buf, 95), Percentile(buf, 99)} \subseteq Range(buf)
         /\ Percentile(buf, 95) \in Nat /\ Percentile(buf, 99) \in Nat
         /\ Percentile(buf, 95) <= Percentile(buf, 99)
<1>1. PICK n \in Nat : n = Len(buf) /\ n >= 1
  BY LenProperties, EmptySeq
<1>2. PICK k \in 1 .. n : k = (95 * n + 99) \div 100
  <2>1. (95 * n + 99) \div 100 \in 1 .. n
    BY <1>1
  <2> QED BY <2>1
<1>3. PICK l \in 1 .. n : l = (99 * n + 99) \div 100
  <2>1. (99 * n + 99) \div 100 \in 1 .. n
    BY <1>1
  <2> QED BY <2>1
<1>4. k <= l
  BY <1>1, <1>2, <1>3
<1>5. ~(k < 1) /\ ~(l < 1)
  OBVIOUS
<1>6. Percentile(buf, 95) = AtRank(buf, k)
  BY <1>1, <1>2, <1>5 DEF Percentile
<1>7. Percentile(buf, 99) = AtRank(buf, l)
  BY <1>1, <1>3, <1>5 DEF Percentile
<1>8. AtRank(buf, k) \in Range(buf) /\ AtRank(buf, k) \in Nat /\ AtRank(buf, k) <= AtRank(buf, l)
  BY <1>1, <1>4, RankIs
<1>9. AtRank(buf, l) \in Range(buf) /\ AtRank(buf, l) \in Nat
  BY <1>1, RankIs
<1> QED BY <1>6, <1>7, <1>8, <1>9

(* The mean of a window does not exceed its greatest duration. *)
LEMMA MeanIs ==
  ASSUME NEW buf \in Seq(Nat), buf # << >>
  PROVE  \E d \in Range(buf) : Percentile(buf, 99) <= d /\ SumUp(buf) <= Len(buf) * d
<1>1. DOMAIN buf = 1 .. Len(buf)
  BY LenProperties
<1>2. PICK i \in 1 .. Len(buf) : \A j \in 1 .. Len(buf) : buf[j] <= buf[i]
  BY GreatestIs
<1>3. PICK d \in Nat : d = buf[i]
  BY ElementOfSeq
<1>4. d \in Range(buf) /\ \A x \in Range(buf) : x <= d
  BY <1>1, <1>2, <1>3 DEF Range
<1>5. Percentile(buf, 99) <= d
  BY <1>4, PercentilesAre
<1>6. SumUp(buf) <= Len(buf) * d
  BY <1>2, <1>3, SumBound
<1> QED BY <1>4, <1>5, <1>6

(* One more value: counted when it is the one looked for. *)
LEMMA HowManyAppend ==
  ASSUME NEW S, NEW s \in Seq(S), NEW v \in S, NEW w
  PROVE  /\ HowMany(s, w) \in Nat
         /\ HowMany(Append(s, v), w) = HowMany(s, w) + One(v = w)
<1> DEFINE a == Append(s, v)
           Held(r, n) == {i \in 1 .. n : r[i] = w}
<1>1. PICK n \in Nat : n = Len(s) /\ DOMAIN s = 1 .. n
  BY LenProperties
<1>2. a \in Seq(S) /\ Len(a) = n + 1 /\ a[n + 1] = v /\ \A i \in 1 .. n : a[i] = s[i]
  BY <1>1, AppendProperties
<1>3. DOMAIN a = 1 .. n + 1
  BY <1>2, LenProperties
<1>4. HowMany(s, w) = Cardinality(Held(s, n)) /\ HowMany(a, w) = Cardinality(Held(a, n + 1))
  BY <1>1, <1>3 DEF HowMany
<1> HIDE DEF a
<1>5. PICK T \in SUBSET (1 .. n) : T = Held(s, n)
  OBVIOUS
<1>6. IsFiniteSet(T) /\ Cardinality(T) \in Nat
  <2>1. IsFiniteSet(1 .. n)
    BY FS_Interval
  <2>2. IsFiniteSet(T)
    BY <2>1, FS_Subset
  <2> QED BY <2>2, FS_CardinalityType
<1>7. \A i \in 1 .. n + 1 : i = n + 1 \/ i \in 1 .. n
  OBVIOUS
<1>8. n + 1 \notin T /\ \A i \in 1 .. n : i # n + 1 /\ i \in 1 .. n + 1
  OBVIOUS
<1>9. CASE v = w
  <2>1. Held(a, n + 1) = T \cup {n + 1}
    BY <1>2, <1>5, <1>7, <1>8, <1>9
  <2>2. Cardinality(T \cup {n + 1}) = Cardinality(T) + 1
    BY <1>6, <1>8, FS_AddElement
  <2>3. One(v = w) = 1
    BY <1>9 DEF One
  <2> HIDE DEF Held
  <2> QED BY <1>4, <1>5, <1>6, <2>1, <2>2, <2>3 DEF a
<1>10. CASE v # w
  <2>1. Held(a, n + 1) = T
    BY <1>2, <1>5, <1>7, <1>8, <1>10
  <2>3. One(v = w) = 0
    BY <1>10 DEF One
  <2> HIDE DEF Held
  <2> QED BY <1>4, <1>5, <1>6, <2>1, <2>3 DEF a
<1> QED BY <1>9, <1>10

(* A field of a list of events. *)
LEMMA FieldIs ==
  ASSUME NEW R, NEW es \in Seq(R), NEW f, NEW T, \A r \in R : r[f] \in T
  PROVE  Field(es, f) \in Seq(T)
<1>1. PICK n \in Nat : n = Len(es) /\ DOMAIN es = 1 .. n
  BY LenProperties
<1>2. \A i \in 1 .. n : es[i] \in R
  BY <1>1, ElementOfSeq
<1>3. \A i \in 1 .. n : es[i][f] \in T
  BY <1>2
<1> QED BY <1>1, <1>3 DEF Field

(* The same, one event longer. *)
LEMMA FieldGrows ==
  ASSUME NEW R, NEW es \in Seq(R), NEW e \in R, NEW f
  PROVE  Field(Append(es, e), f) = Append(Field(es, f), e[f])
<1> DEFINE a == Append(es, e)
           T == {r[f] : r \in R}
<1>1. PICK n \in Nat : n = Len(es) /\ DOMAIN es = 1 .. n
  BY LenProperties
<1>2. a \in Seq(R) /\ Len(a) = n + 1 /\ a[n + 1] = e /\ \A i \in 1 .. n : a[i] = es[i]
  BY <1>1, AppendProperties
<1>3. DOMAIN a = 1 .. n + 1
  BY <1>2, LenProperties
<1>4. PICK s : s = Field(es, f)
  OBVIOUS
<1>5. PICK u : u = Field(a, f)
  OBVIOUS
<1>6. PICK v \in T : v = e[f]
  OBVIOUS
<1>7. \A r \in R : r[f] \in T
  OBVIOUS
<1> HIDE DEF a, T
<1>8. s \in Seq(T) /\ Len(s) = n /\ \A i \in 1 .. n : s[i] = es[i][f]
  <2>1. s \in Seq(T)
    BY <1>4, <1>7, FieldIs
  <2>2. s = [i \in 1 .. n |-> es[i][f]]
    BY <1>1, <1>4 DEF Field
  <2> QED BY <2>1, <2>2, LenProperties
<1>9. u \in Seq(T) /\ Len(u) = n + 1 /\ \A i \in 1 .. n + 1 : u[i] = a[i][f]
  <2>1. u \in Seq(T)
    BY <1>2, <1>5, <1>7, FieldIs
  <2>2. u = [i \in 1 .. n + 1 |-> a[i][f]]
    BY <1>3, <1>5 DEF Field
  <2> QED BY <2>1, <2>2, LenProperties
<1>10. /\ Append(s, v) \in Seq(T) /\ Len(Append(s, v)) = n + 1
       /\ Append(s, v)[n + 1] = v /\ \A i \in 1 .. n : Append(s, v)[i] = s[i]
  BY <1>8, AppendProperties
<1>11. \A i \in 1 .. n + 1 : u[i] = Append(s, v)[i]
  <2> SUFFICES ASSUME NEW i \in 1 .. n + 1 PROVE u[i] = Append(s, v)[i]
    OBVIOUS
  <2>1. CASE i = n + 1
    BY <1>2, <1>6, <1>9, <1>10, <2>1
  <2>2. CASE i \in 1 .. n
    <3>1. u[i] = a[i][f] /\ a[i] = es[i]
      BY <1>2, <1>9, <2>2
    <3>2. Append(s, v)[i] = s[i] /\ s[i] = es[i][f]
      BY <1>8, <1>10, <2>2
    <3> QED BY <3>1, <3>2
  <2>3. i = n + 1 \/ i \in 1 .. n
    OBVIOUS
  <2> QED BY <2>1, <2>2, <2>3
<1>12. u = Append(s, v)
  BY <1>9, <1>10, <1>11, SeqEqual
<1> QED BY <1>4, <1>5, <1>6, <1>12 DEF a

(* What the last of a list are. *)
LEMMA LastOfIs ==
  ASSUME NEW s \in Seq(Nat), NEW m \in Nat, NEW k \in Nat,
         IF Len(s) > m THEN k = m ELSE k = Len(s)
  PROVE  /\ LastOf(s, m) \in Seq(Nat) /\ Len(LastOf(s, m)) = k /\ k <= Len(s)
         /\ \A p \in 1 .. k : LastOf(s, m)[p] = s[Len(s) - k + p]
<1> DEFINE l == LastOf(s, m)
<1>1. PICK n \in Nat : n = Len(s) /\ DOMAIN s = 1 .. n
  BY LenProperties
<1>2. k <= n /\ k = (IF n > m THEN m ELSE n)
  BY <1>1
<1>a. n - k + 1 \in 1 .. n + 1 /\ n - (n - k + 1) + 1 = k /\ n - k + 1 \in Int
  <2>1. k <= n /\ n \in Nat /\ k \in Nat
    BY <1>2
  <2> QED BY ONLY <2>1
<1>3. PICK from \in Int : from = n - k + 1 /\ from \in 1 .. n + 1 /\ n - from + 1 = k
  BY <1>a
<1>4. from = IF n > m THEN n - m + 1 ELSE 1
  BY <1>2, <1>3
<1>5. l = SubSeq(s, from, n)
  BY <1>1, <1>4 DEF LastOf
<1>6. \A i \in from .. n : s[i] \in Nat
  <2>1. \A i \in 1 .. n : s[i] \in Nat
    BY <1>1, ElementOfSeq
  <2>2. \A i \in from .. n : i \in 1 .. n
    BY <1>3
  <2> QED BY <2>1, <2>2
<1> HIDE DEF l
<1>7. /\ l \in Seq(Nat) /\ Len(l) = (IF from <= n THEN n - from + 1 ELSE 0)
      /\ \A p \in 1 .. n - from + 1 : l[p] = s[from + p - 1]
  BY <1>5, <1>6, SubSeqProperties
<1>8. Len(l) = k
  BY <1>2, <1>3, <1>7
<1>9. \A p \in 1 .. k : l[p] = s[n - k + p]
  <2> SUFFICES ASSUME NEW p \in 1 .. k PROVE l[p] = s[n - k + p]
    OBVIOUS
  <2>1. from + p - 1 = n - k + p
    <3>1. n \in Int /\ k \in Int /\ p \in Int /\ from = n - k + 1
      BY <1>3
    <3> QED BY ONLY <3>1
  <2>2. p \in 1 .. n - from + 1
    BY <1>3
  <2> QED BY <1>7, <2>1, <2>2
<1> QED BY <1>1, <1>2, <1>7, <1>8, <1>9 DEF l

(* To push a value is to keep the last of one value more. *)
LEMMA PushKeepsLast ==
  ASSUME NEW s \in Seq(Nat), NEW v \in Nat
  PROVE  Push(LastOf(s, Window), v) = LastOf(Append(s, v), Window)
<1> DEFINE b == Append(s, v)
           l == LastOf(s, Window)
           r == LastOf(b, Window)
           kept == IF Len(l) >= Window THEN Tail(l) ELSE l
<1>1. PICK m \in Nat : m = Window /\ m >= 1
  BY MetricsAssumption
<1>2. PICK n \in Nat : n = Len(s)
  BY LenProperties
<1>3. b \in Seq(Nat) /\ Len(b) = n + 1 /\ b[n + 1] = v /\ \A i \in 1 .. n : b[i] = s[i]
  BY <1>2, AppendProperties
<1>4. PICK k \in Nat : k = (IF n > m THEN m ELSE n) /\ k <= n /\ k <= m
  BY <1>2
<1>5. PICK h \in Nat : h = (IF n + 1 > m THEN m ELSE n + 1) /\ h >= 1 /\ h <= n + 1
  BY <1>1
<1>6. l \in Seq(Nat) /\ Len(l) = k /\ \A p \in 1 .. k : l[p] = s[n - k + p]
  <2>1. IF Len(s) > m THEN k = m ELSE k = Len(s)
    BY <1>2, <1>4
  <2>2. /\ LastOf(s, m) \in Seq(Nat) /\ Len(LastOf(s, m)) = k
        /\ \A p \in 1 .. k : LastOf(s, m)[p] = s[Len(s) - k + p]
    BY <2>1, LastOfIs
  <2> QED BY <1>1, <1>2, <2>2
<1> HIDE DEF b, l
<1>7. r \in Seq(Nat) /\ Len(r) = h /\ \A p \in 1 .. h : r[p] = b[n + 1 - h + p]
  <2>1. IF Len(b) > m THEN h = m ELSE h = Len(b)
    BY <1>3, <1>5
  <2>2. /\ LastOf(b, m) \in Seq(Nat) /\ Len(LastOf(b, m)) = h
        /\ \A p \in 1 .. h : LastOf(b, m)[p] = b[Len(b) - h + p]
    BY <1>3, <2>1, LastOfIs
  <2> QED BY <1>1, <1>3, <2>2 DEF r
<1> HIDE DEF r
<1>8. kept \in Seq(Nat) /\ Len(kept) = h - 1 /\ \A p \in 1 .. h - 1 : kept[p] = s[n + 1 - h + p]
  <2>1. CASE k >= m
    <3>1. k = m /\ h = m /\ l # << >>
      BY <1>1, <1>4, <1>5, <1>6, <2>1, EmptySeq
    <3>2. Tail(l) \in Seq(Nat) /\ Len(Tail(l)) = k - 1 /\ \A p \in 1 .. k - 1 : Tail(l)[p] = l[p + 1]
      BY <1>6, <3>1, HeadTailProperties
    <3>3. kept = Tail(l)
      BY <1>1, <1>6, <2>1
    <3>4. \A p \in 1 .. h - 1 : p + 1 \in 1 .. k /\ p \in 1 .. k - 1 /\ n - k + (p + 1) = n + 1 - h + p
      BY <3>1
    <3>5. \A p \in 1 .. h - 1 : Tail(l)[p] = s[n + 1 - h + p]
      BY <1>6, <3>2, <3>4
    <3> HIDE DEF kept
    <3> QED BY <3>1, <3>2, <3>3, <3>5
  <2>2. CASE ~(k >= m)
    <3>1. k = n /\ h = n + 1 /\ k = h - 1
      BY <1>1, <1>4, <1>5, <2>2
    <3>2. kept = l
      BY <1>1, <1>6, <2>2
    <3>3. \A p \in 1 .. h - 1 : p \in 1 .. k /\ n - k + p = n + 1 - h + p
      BY <3>1
    <3>4. \A p \in 1 .. h - 1 : l[p] = s[n + 1 - h + p]
      BY <1>6, <3>3
    <3> HIDE DEF kept
    <3> QED BY <1>6, <3>1, <3>2, <3>4
  <2> QED BY <2>1, <2>2
<1>9. Push(l, v) = Append(kept, v)
  BY DEF Push
<1> HIDE DEF kept
<1>10. PICK a : a = Append(kept, v)
  OBVIOUS
<1>11. /\ a \in Seq(Nat) /\ Len(a) = h /\ a[h] = v
       /\ \A p \in 1 .. h - 1 : a[p] = kept[p]
  <2>1. /\ a \in Seq(Nat) /\ Len(a) = Len(kept) + 1 /\ a[Len(kept) + 1] = v
        /\ \A p \in 1 .. Len(kept) : a[p] = kept[p]
    BY <1>8, <1>10, AppendProperties
  <2>2. Len(kept) + 1 = h
    BY <1>5, <1>8
  <2> QED BY <1>8, <2>1, <2>2
<1>12. \A p \in 1 .. h : a[p] = r[p]
  <2> SUFFICES ASSUME NEW p \in 1 .. h PROVE a[p] = r[p]
    OBVIOUS
  <2>1. CASE p = h
    <3>1. n + 1 - h + p = n + 1
      BY <1>5, <2>1
    <3> QED BY <1>3, <1>7, <1>11, <2>1, <3>1
  <2>2. CASE p # h
    <3>1. p \in 1 .. h - 1 /\ n + 1 - h + p \in 1 .. n
      BY <1>5, <2>2
    <3>2. r[p] = b[n + 1 - h + p] /\ b[n + 1 - h + p] = s[n + 1 - h + p]
      BY <1>3, <1>7, <3>1
    <3>3. a[p] = kept[p] /\ kept[p] = s[n + 1 - h + p]
      BY <1>8, <1>11, <3>1
    <3> QED BY <3>2, <3>3
  <2> QED BY <2>1, <2>2
<1>13. a = r
  BY <1>7, <1>11, <1>12, SeqEqual
<1> QED BY <1>9, <1>10, <1>13 DEF l, r, b

(* The first of a ranking stands above everything that is ranked. *)
LEMMA FirstLeads ==
  ASSUME NEW rank, IsFiniteSet(AllToolSnapshots), NEW t \in AllToolSnapshots, NEW q \in Ranked(1, rank),
         \A x \in AllToolSnapshots : rank[x] \in Nat
  PROVE  q[1] \in AllToolSnapshots /\ rank[q[1]] >= rank[t]
<1> DEFINE S == AllToolSnapshots
<1>1. PICK n \in Nat : n = Cardinality(S)
  BY FS_CardinalityType
<1>2. PICK s : /\ s \in SetToSeqs(S) /\ \A i, j \in DOMAIN s : i < j => rank[s[i]] >= rank[s[j]]
               /\ q = SubSeq(s, 1, IF 1 < Len(s) THEN 1 ELSE Len(s))
  BY DEF Ranked
<1>3. s \in [1 .. n -> S] /\ \A i, j \in 1 .. n : i # j => s[i] # s[j]
  BY <1>1, <1>2 DEF SetToSeqs
<1>a. t \in S
  OBVIOUS
<1> HIDE DEF S
<1>4. s \in Surjection(1 .. n, S)
  <2>1. s \in Injection(1 .. n, S)
    BY <1>3 DEF Injection, IsInjective
  <2>2. Cardinality(1 .. n) = Cardinality(S)
    BY <1>1, FS_Interval
  <2>3. IsFiniteSet(S)
    BY DEF S
  <2> QED BY <2>1, <2>2, <2>3, FS_Injection
<1>5. PICK j \in 1 .. n : s[j] = t
  BY <1>4, <1>a DEF Surjection
<1>6. s \in Seq(S) /\ Len(s) = n /\ n >= 1 /\ DOMAIN s = 1 .. n
  <2>1. s \in Seq(S) /\ DOMAIN s = 1 .. n
    BY <1>3
  <2>2. n >= 1
    BY <1>5
  <2> QED BY <2>1, <2>2, LenProperties
<1>7. q = SubSeq(s, 1, 1)
  <2>1. (IF 1 < Len(s) THEN 1 ELSE Len(s)) = 1
    BY <1>6
  <2> QED BY <1>2, <2>1
<1>8. q[1] = s[1]
  <2>1. \A i \in 1 .. 1 : s[i] \in S
    BY <1>3, <1>6
  <2>2. \A i \in 1 .. 1 - 1 + 1 : SubSeq(s, 1, 1)[i] = s[1 + i - 1]
    BY <2>1, SubSeqProperties
  <2>3. 1 \in 1 .. 1 - 1 + 1 /\ 1 + 1 - 1 = 1
    OBVIOUS
  <2> QED BY <1>7, <2>2, <2>3
<1>9. s[1] \in S /\ rank[s[1]] \in Nat
  BY <1>3, <1>6 DEF S
<1>10. rank[s[1]] >= rank[s[j]]
  <2>1. CASE j = 1
    BY <1>9, <2>1
  <2>2. CASE j # 1
    <3>1. 1 < j /\ 1 \in DOMAIN s /\ j \in DOMAIN s
      BY <1>6, <2>2
    <3> QED BY <1>2, <3>1
  <2> QED BY <2>1, <2>2
<1> QED BY <1>5, <1>8, <1>9, <1>10 DEF S

-----------------------------------------------------------------------------
(* The collector *)

(* A window holds no more durations than events were counted, and some     *)
(* when any was.                                                           *)
WindowHolds(state) ==
  Len(state.durations) <= Total(state) /\ (Total(state) > 0 => state.durations # << >>)

CollectorInv ==
  /\ StatesAgree
  /\ \A n \in ToolName : WindowHolds(toolStates[n])
  /\ IsFiniteSet(AllToolSnapshots)

(* An event makes a window one longer at most, and not empty. *)
LEMMA PushGrows ==
  ASSUME NEW buf \in Seq(Nat), NEW d \in Nat
  PROVE  Len(Push(buf, d)) <= Len(buf) + 1 /\ Push(buf, d) # << >>
<1> DEFINE kept == IF Len(buf) >= Window THEN Tail(buf) ELSE buf
<1>1. Window \in Nat /\ Window >= 1 /\ Len(buf) \in Nat
  BY MetricsAssumption, LenProperties
<1>2. kept \in Seq(Nat) /\ Len(kept) \in Nat /\ Len(kept) <= Len(buf)
  <2>1. CASE Len(buf) >= Window
    <3>1. buf # << >>
      BY <1>1, <2>1, EmptySeq
    <3>2. Tail(buf) \in Seq(Nat) /\ Len(Tail(buf)) = Len(buf) - 1
      BY <3>1, HeadTailProperties
    <3> QED BY <1>1, <2>1, <3>2
  <2>2. CASE ~(Len(buf) >= Window)
    BY <1>1, <2>2
  <2> QED BY <2>1, <2>2
<1> HIDE DEF kept
<1>3. Len(Append(kept, d)) = Len(kept) + 1
  BY <1>2, AppendProperties
<1>a. Append(kept, d) # << >>
  <2>1. Len(Append(kept, d)) # 0
    BY <1>2, <1>3
  <2> QED BY <2>1, EmptySeq
<1>4. Push(buf, d) = Append(kept, d)
  BY DEF Push, kept
<1> QED BY <1>1, <1>2, <1>3, <1>4, <1>a

(* An event is a success or a failure. *)
LEMMA OneOrOther ==
  ASSUME NEW b \in BOOLEAN
  PROVE  One(b) = One(b = TRUE) /\ One(~b) = One(b = FALSE) /\ One(b) + One(~b) = 1
         /\ One(b) \in Nat /\ One(~b) \in Nat
<1>1. CASE b
  BY <1>1 DEF One
<1>2. CASE ~b
  BY <1>2 DEF One
<1> QED BY <1>1, <1>2

(* What an event does to the duration and outcome counted, told by the     *)
(* list it joins.                                                          *)
LEMMA StateGrows ==
  ASSUME NEW R, NEW es \in Seq(R), NEW e \in R,
         \A r \in R : r["duration"] \in Nat /\ r["success"] \in BOOLEAN,
         NEW s, NEW t, StateIsOf(s, es),
         t.durations = Push(s.durations, e.duration),
         t.success = s.success + One(e.success), t.failure = s.failure + One(~e.success)
  PROVE  StateIsOf(t, Append(es, e))
<1>1. PICK d \in Nat, ok \in BOOLEAN : d = e["duration"] /\ ok = e["success"]
  OBVIOUS
<1>2. d = e.duration /\ ok = e.success
  BY <1>1
<1>3. /\ Field(es, "duration") \in Seq(Nat)
      /\ Field(Append(es, e), "duration") = Append(Field(es, "duration"), d)
  <2>1. \A r \in R : r["duration"] \in Nat
    OBVIOUS
  <2> QED BY <1>1, <2>1, FieldIs, FieldGrows
<1>4. /\ Field(es, "success") \in Seq(BOOLEAN)
      /\ Field(Append(es, e), "success") = Append(Field(es, "success"), ok)
  <2>1. \A r \in R : r["success"] \in BOOLEAN
    OBVIOUS
  <2> QED BY <1>1, <2>1, FieldIs, FieldGrows
<1>5. t.durations = LastOf(Field(Append(es, e), "duration"), Window)
  <2>1. Push(LastOf(Field(es, "duration"), Window), d) = LastOf(Append(Field(es, "duration"), d), Window)
    BY <1>3, PushKeepsLast
  <2> QED BY <1>2, <1>3, <2>1 DEF StateIsOf
<1>6. ASSUME NEW v \in BOOLEAN
      PROVE  HowMany(Field(Append(es, e), "success"), v) = HowMany(Field(es, "success"), v) + One(ok = v)
  <2>1. PICK s0 \in Seq(BOOLEAN) : s0 = Field(es, "success")
    BY <1>4
  <2>2. HowMany(Append(s0, ok), v) = HowMany(s0, v) + One(ok = v)
    BY HowManyAppend
  <2> QED BY <1>4, <2>1, <2>2
<1>7. t.success = HowMany(Field(Append(es, e), "success"), TRUE)
  BY <1>2, <1>6, OneOrOther DEF StateIsOf
<1>8. t.failure = HowMany(Field(Append(es, e), "success"), FALSE)
  BY <1>2, <1>6, OneOrOther DEF StateIsOf
<1> QED BY <1>5, <1>7, <1>8 DEF StateIsOf

(* And to the counters of a tool. *)
LEMMA ToolGrows ==
  ASSUME NEW es \in Seq(ToolRecord), NEW e \in ToolRecord, NEW s \in ToolState, ToolIsOf(s, es),
         toolCostPerCall \in [ToolName -> Nat], e.cost = toolCostPerCall[e.key],
         NEW t, t = CountedTool(s, e), WindowHolds(s)
  PROVE  ToolIsOf(t, Append(es, e)) /\ WindowHolds(t)
<1>1. /\ t.durations = Push(s.durations, e.duration)
      /\ t.success = s.success + One(e.success) /\ t.failure = s.failure + One(~e.success)
  BY ToolCounts
<1>2. /\ t.retries = s.retries + e.retryCount /\ t.cost = s.cost + e.cost
      /\ t.cancelled = s.cancelled + One(e.cancelled) /\ t.timedOut = s.timedOut + One(e.timedOut)
  BY ToolCounts
<1>3. \A r \in ToolRecord :
        /\ r["duration"] \in Nat /\ r["success"] \in BOOLEAN /\ r["retryCount"] \in Nat
        /\ r["cost"] \in Nat /\ r["cancelled"] \in BOOLEAN /\ r["timedOut"] \in BOOLEAN
  BY DEF ToolRecord
<1>4. StateIsOf(t, Append(es, e))
  <2>1. StateIsOf(s, es) /\ \A r \in ToolRecord : r["duration"] \in Nat /\ r["success"] \in BOOLEAN
    BY <1>3 DEF ToolIsOf
  <2> QED BY <1>1, <2>1, StateGrows
<1>5. ASSUME NEW f \in {"retryCount", "cost"}
      PROVE  SumUp(Field(Append(es, e), f)) = SumUp(Field(es, f)) + e[f]
  <2>1. \A r \in ToolRecord : r[f] \in Nat
    BY <1>3
  <2>2. Field(es, f) \in Seq(Nat) /\ Field(Append(es, e), f) = Append(Field(es, f), e[f])
    BY <2>1, FieldIs, FieldGrows
  <2> QED BY <2>1, <2>2, SumAppend
<1>6. ASSUME NEW f \in {"cancelled", "timedOut"}
      PROVE  HowMany(Field(Append(es, e), f), TRUE) = HowMany(Field(es, f), TRUE) + One(e[f] = TRUE)
  <2>1. \A r \in ToolRecord : r[f] \in BOOLEAN
    BY <1>3
  <2>2. Field(es, f) \in Seq(BOOLEAN) /\ Field(Append(es, e), f) = Append(Field(es, f), e[f])
    BY <2>1, FieldIs, FieldGrows
  <2>3. PICK q \in Seq(BOOLEAN), b \in BOOLEAN : q = Field(es, f) /\ b = e[f]
    BY <2>1, <2>2
  <2>4. PICK yes \in BOOLEAN : yes = TRUE
    OBVIOUS
  <2>5. HowMany(Append(q, b), yes) = HowMany(q, yes) + One(b = yes)
    BY HowManyAppend
  <2> QED BY <2>2, <2>3, <2>4, <2>5
<1>7. t.retries = SumUp(Field(Append(es, e), "retryCount"))
  BY <1>2, <1>5 DEF ToolIsOf
<1>8. t.cost = SumUp(Field(Append(es, e), "cost"))
  BY <1>2, <1>5 DEF ToolIsOf
<1>9. One(e.cancelled) = One(e["cancelled"] = TRUE) /\ One(e.timedOut) = One(e["timedOut"] = TRUE)
  <2>1. PICK b \in BOOLEAN, x \in BOOLEAN : b = e.cancelled /\ x = e.timedOut
    BY DEF ToolRecord
  <2> QED BY <2>1, OneOrOther
<1>10. t.cancelled = HowMany(Field(Append(es, e), "cancelled"), TRUE)
  BY <1>2, <1>6, <1>9 DEF ToolIsOf
<1>11. t.timedOut = HowMany(Field(Append(es, e), "timedOut"), TRUE)
  BY <1>2, <1>6, <1>9 DEF ToolIsOf
<1>12. WindowHolds(t)
  <2>1. PICK x \in Nat, y \in Nat, buf \in Seq(Nat), ok \in BOOLEAN, d \in Nat :
          x = s.success /\ y = s.failure /\ buf = s.durations /\ ok = e.success /\ d = e.duration
    BY DEF ToolState, ToolRecord
  <2>2. PICK u \in Nat, v \in Nat : u = One(ok) /\ v = One(~ok) /\ u + v = 1
    BY OneOrOther
  <2>3. Total(s) = x + y /\ Total(t) = (x + u) + (y + v)
    BY <1>1, <2>1, <2>2 DEF Total
  <2>4. Total(t) = Total(s) + 1 /\ Total(s) \in Nat
    <3>1. x \in Nat /\ y \in Nat /\ u \in Nat /\ v \in Nat /\ u + v = 1
      BY <2>2
    <3>2. (x + u) + (y + v) = (x + y) + 1 /\ x + y \in Nat
      BY ONLY <3>1
    <3> QED BY <2>3, <3>2
  <2>5. Len(t.durations) <= Len(buf) + 1 /\ t.durations # << >> /\ Len(t.durations) \in Nat
    <3>1. PICK p \in Seq(Nat) : p = Push(buf, d)
      BY PushIs
    <3>2. Len(p) <= Len(buf) + 1 /\ p # << >> /\ Len(p) \in Nat
      BY <3>1, PushGrows, LenProperties
    <3> QED BY <1>1, <2>1, <3>1, <3>2
  <2>6. Len(buf) <= Total(s) /\ Len(buf) \in Nat
    BY <2>1, LenProperties DEF WindowHolds
  <2> QED BY <2>4, <2>5, <2>6 DEF WindowHolds
<1> QED BY <1>4, <1>7, <1>8, <1>10, <1>11, <1>12 DEF ToolIsOf

(* A list without events. *)
LEMMA NothingCounted == ToolIsOf(Unseen, << >>) /\ StateIsOf(UnseenAgent, << >>)
<1>1. << >> \in Seq(Nat) /\ Len(<< >>) = 0
  BY EmptySeq
<1>2. \A f : Field(<< >>, f) = << >>
  BY DEF Field
<1>3. LastOf(<< >>, Window) = << >>
  <2>1. Window \in Nat
    BY MetricsAssumption
  <2>2. LastOf(<< >>, Window) = SubSeq(<< >>, 1, 0)
    BY <1>1, <2>1 DEF LastOf
  <2> QED BY <2>2, SubSeqEmpty
<1>4. SumUp(<< >>) = 0
  <2>1. \E F : SumUp(<< >>) = F[Len(<< >>)] /\ F[0] = 0
    BY <1>1, SumSteps
  <2> QED BY <1>1, <2>1
<1>5. \A v : HowMany(<< >>, v) = 0
  <2> SUFFICES ASSUME NEW v PROVE HowMany(<< >>, v) = 0
    OBVIOUS
  <2>1. {i \in DOMAIN << >> : << >>[i] = v} = {}
    OBVIOUS
  <2> QED BY <2>1, FS_EmptySet DEF HowMany
<1> QED BY <1>2, <1>3, <1>4, <1>5 DEF ToolIsOf, StateIsOf, Unseen, UnseenAgent

(* Every move of the collector keeps its story and that of the events      *)
(* the same.                                                               *)
LEMMA MoveCounts ==
  ASSUME MetricTypes, CollectorInv, MetricMove
  PROVE  CollectorInv'
<1>1. CASE UNCHANGED <<toolStates, agentStates, toolLog, agentLog>>
  <2>1. StatesAgree'
    BY <1>1 DEF CollectorInv, StatesAgree, ToolIsOf, StateIsOf
  <2>2. AllToolSnapshots' = AllToolSnapshots
    BY <1>1 DEF AllToolSnapshots, Total
  <2>3. \A n \in ToolName : WindowHolds(toolStates'[n])
    BY <1>1 DEF CollectorInv
  <2> QED BY <2>1, <2>2, <2>3 DEF CollectorInv
<1>2. CASE ResetMetrics
  <2>1. StatesAgree'
    BY <1>2, NothingCounted DEF ResetMetrics, StatesAgree
  <2>2. AllToolSnapshots' = {}
    BY <1>2 DEF ResetMetrics, AllToolSnapshots, Total, Unseen
  <2>3. WindowHolds(Unseen)
    <3>1. Len(<< >>) = 0
      BY EmptySeq
    <3> QED BY <3>1 DEF WindowHolds, Total, Unseen
  <2>4. \A n \in ToolName : WindowHolds(toolStates'[n])
    BY <1>2, <2>3 DEF ResetMetrics
  <2>5. IsFiniteSet(AllToolSnapshots')
    BY <2>2, FS_EmptySet
  <2> QED BY <2>1, <2>4, <2>5 DEF CollectorInv
<1>3. ASSUME NEW e \in AgentRecord, EmitAgent(e) PROVE CollectorInv'
  <2>1. PICK a \in AgentId : a = e.key
    BY DEF AgentRecord
  <2>2. PICK s \in AgentState, es \in Seq(AgentRecord) : s = agentStates[a] /\ es = agentLog[a]
    BY DEF MetricTypes
  <2>3. StateIsOf(s, es)
    BY <2>2 DEF CollectorInv, StatesAgree
  <2>4. PICK t : t = Counted(s, e.success, e.duration)
    OBVIOUS
  <2>5. StateIsOf(t, Append(es, e))
    <3>1. /\ t.durations = Push(s.durations, e.duration)
          /\ t.success = s.success + One(e.success) /\ t.failure = s.failure + One(~e.success)
      BY <2>4, AgentCounts
    <3>2. \A r \in AgentRecord : r["duration"] \in Nat /\ r["success"] \in BOOLEAN
      BY DEF AgentRecord
    <3> QED BY <2>3, <3>1, <3>2, StateGrows
  <2>6. agentStates' = [agentStates EXCEPT ![a] = t] /\ agentLog' = [agentLog EXCEPT ![a] = Append(es, e)]
        /\ UNCHANGED <<toolStates, toolLog>>
    BY <1>3, <2>1, <2>2, <2>4 DEF EmitAgent
  <2>7. \A b \in AgentId : StateIsOf(agentStates'[b], agentLog'[b])
    <3> SUFFICES ASSUME NEW b \in AgentId PROVE StateIsOf(agentStates'[b], agentLog'[b])
      OBVIOUS
    <3>1. CASE b = a
      <4>1. agentStates'[a] = t /\ agentLog'[a] = Append(es, e)
        BY <2>6 DEF MetricTypes
      <4> QED BY <2>5, <3>1, <4>1
    <3>2. CASE b # a
      <4>1. agentStates'[b] = agentStates[b] /\ agentLog'[b] = agentLog[b]
        BY <2>6, <3>2 DEF MetricTypes
      <4> QED BY <4>1 DEF CollectorInv, StatesAgree
    <3> QED BY <3>1, <3>2
  <2>8. StatesAgree'
    BY <2>6, <2>7 DEF CollectorInv, StatesAgree
  <2>9. AllToolSnapshots' = AllToolSnapshots
    BY <2>6 DEF AllToolSnapshots, Total
  <2> QED BY <2>6, <2>8, <2>9 DEF CollectorInv
<1>4. ASSUME NEW e \in ToolRecord, e.cost = toolCostPerCall[e.key], EmitTool(e) PROVE CollectorInv'
  <2>1. PICK n \in ToolName : n = e.key
    BY DEF ToolRecord
  <2>2. PICK s \in ToolState, es \in Seq(ToolRecord) : s = toolStates[n] /\ es = toolLog[n]
    BY DEF MetricTypes
  <2>3. ToolIsOf(s, es) /\ WindowHolds(s)
    BY <2>2 DEF CollectorInv, StatesAgree
  <2>4. PICK t : t = CountedTool(s, e)
    OBVIOUS
  <2>5. ToolIsOf(t, Append(es, e)) /\ WindowHolds(t)
    <3>1. toolCostPerCall \in [ToolName -> Nat]
      BY DEF MetricTypes
    <3> QED BY <1>4, <2>3, <2>4, <3>1, ToolGrows
  <2>6. toolStates' = [toolStates EXCEPT ![n] = t] /\ toolLog' = [toolLog EXCEPT ![n] = Append(es, e)]
        /\ UNCHANGED <<agentStates, agentLog>>
    <3>1. toolStates' = [toolStates EXCEPT ![n] = CountedTool(toolStates[n], e)]
      BY <1>4, <2>1 DEF EmitTool
    <3>2. toolLog' = [toolLog EXCEPT ![n] = Append(toolLog[n], e)] /\ UNCHANGED <<agentStates, agentLog>>
      BY <1>4, <2>1 DEF EmitTool
    <3> QED BY <2>2, <2>4, <3>1, <3>2
  <2>7. toolStates'[n] = t /\ toolLog'[n] = Append(es, e)
    BY <2>6 DEF MetricTypes
  <2>8. ASSUME NEW m \in ToolName, m # n
        PROVE  toolStates'[m] = toolStates[m] /\ toolLog'[m] = toolLog[m]
    BY <2>6, <2>8 DEF MetricTypes
  <2>9. \A m \in ToolName : ToolIsOf(toolStates'[m], toolLog'[m]) /\ WindowHolds(toolStates'[m])
    <3> SUFFICES ASSUME NEW m \in ToolName
                 PROVE  ToolIsOf(toolStates'[m], toolLog'[m]) /\ WindowHolds(toolStates'[m])
      OBVIOUS
    <3>1. CASE m = n
      BY <2>5, <2>7, <3>1
    <3>2. CASE m # n
      BY <2>8, <3>2 DEF CollectorInv, StatesAgree
    <3> QED BY <3>1, <3>2
  <2>10. StatesAgree'
    BY <2>6, <2>9 DEF CollectorInv, StatesAgree
  <2>11. IsFiniteSet(AllToolSnapshots')
    <3>1. AllToolSnapshots' \subseteq AllToolSnapshots \cup {n}
      <4> SUFFICES ASSUME NEW m \in ToolName, Total(toolStates'[m]) > 0, m # n
                   PROVE  m \in AllToolSnapshots
        BY DEF AllToolSnapshots
      <4>1. Total(toolStates[m]) > 0
        BY <2>8
      <4> QED BY <4>1 DEF AllToolSnapshots
    <3>2. IsFiniteSet(AllToolSnapshots \cup {n})
      BY FS_AddElement DEF CollectorInv
    <3> QED BY <3>1, <3>2, FS_Subset
  <2> QED BY <2>9, <2>10, <2>11 DEF CollectorInv
<1> QED BY <1>1, <1>2, <1>3, <1>4 DEF MetricMove

(* The counters start empty. *)
LEMMA CollectorStarts ==
  ASSUME NEW names, MetricsInit(names)
  PROVE  CollectorInv
<1>1. StatesAgree
  BY NothingCounted DEF MetricsInit, StatesAgree
<1>2. AllToolSnapshots = {}
  BY DEF MetricsInit, AllToolSnapshots, Total, Unseen
<1>3. WindowHolds(Unseen)
  <2>1. Len(<< >>) = 0
    BY EmptySeq
  <2> QED BY <2>1 DEF WindowHolds, Total, Unseen
<1>4. \A n \in ToolName : WindowHolds(toolStates[n])
  BY <1>3 DEF MetricsInit
<1> QED BY <1>1, <1>2, <1>4, FS_EmptySet DEF CollectorInv

(* The queries agree with the counters. *)
LEMMA QueriesAre ==
  ASSUME MetricTypes, CollectorInv
  PROVE  QueriesAgree
<1> DEFINE U == AllToolSnapshots
<1>1. ASSUME NEW n \in U
      PROVE  \E s \in ToolState : /\ s = toolStates[n] /\ n \in ToolName /\ Total(s) > 0
                                  /\ s.durations \in Seq(Nat) /\ s.durations # << >> /\ WindowHolds(s)
  <2>1. n \in ToolName /\ Total(toolStates[n]) > 0
    BY <1>1 DEF AllToolSnapshots
  <2>2. toolStates[n] \in ToolState /\ WindowHolds(toolStates[n])
    BY <2>1 DEF MetricTypes, CollectorInv
  <2> QED BY <2>1, <2>2 DEF ToolState, WindowHolds
<1>2. ASSUME NEW n \in U
      PROVE  /\ ToolSnapshot(n).p95 \in Nat /\ ToolSnapshot(n).executionCount \in Nat
             /\ ToolSnapshot(n).p95 = Percentile(toolStates[n].durations, 95)
             /\ ToolSnapshot(n).executionCount = Total(toolStates[n])
  <2>1. PICK s \in ToolState : s = toolStates[n] /\ s.durations \in Seq(Nat) /\ s.durations # << >>
    BY <1>1, <1>2
  <2>2. Percentile(s.durations, 95) \in Nat
    BY <2>1, PercentilesAre
  <2>3. Total(s) \in Nat
    BY DEF Total, ToolState
  <2> QED BY <2>1, <2>2, <2>3 DEF ToolSnapshot, BuildSnapshot
<1> SUFFICES ASSUME NEW n \in U, NEW v, v = ToolSnapshot(n)
             PROVE  /\ {v.p95, v.p99} \subseteq Range(toolStates[n].durations)
                    /\ v.p95 <= v.p99
                    /\ v.avg[2] \in 1 .. v.executionCount
                    /\ \E d \in Range(toolStates[n].durations) : v.p99 <= d /\ v.avg[1] <= v.avg[2] * d
                    /\ n \in FailingTools(100) <=> v.failureCount > 0
                    /\ \A q \in SlowestTools(1) : ToolSnapshot(q[1]).p95 >= v.p95
                    /\ \A q \in MostUsedTools(1) : ToolSnapshot(q[1]).executionCount >= v.executionCount
  BY DEF QueriesAgree
<1>3. PICK s \in ToolState, buf \in Seq(Nat) :
        /\ s = toolStates[n] /\ n \in ToolName /\ Total(s) > 0 /\ buf = s.durations /\ buf # << >> /\ WindowHolds(s)
  BY <1>1
<1>4. /\ v.executionCount = Total(s) /\ v.failureCount = s.failure
      /\ v.avg[1] = SumUp(buf) /\ v.avg[2] = Len(buf)
      /\ v.p95 = Percentile(buf, 95) /\ v.p99 = Percentile(buf, 99)
  BY <1>3 DEF ToolSnapshot, BuildSnapshot
<1>5. {v.p95, v.p99} \subseteq Range(toolStates[n].durations) /\ v.p95 <= v.p99
  BY <1>3, <1>4, PercentilesAre
<1>6. v.avg[2] \in 1 .. v.executionCount
  <2>1. Len(buf) \in Nat /\ Len(buf) # 0
    BY <1>3, LenProperties, EmptySeq
  <2>2. Total(s) \in Nat
    BY DEF Total, ToolState
  <2>3. Len(buf) <= Total(s)
    BY <1>3 DEF WindowHolds
  <2> QED BY <1>4, <2>1, <2>2, <2>3
<1>7. \E d \in Range(toolStates[n].durations) : v.p99 <= d /\ v.avg[1] <= v.avg[2] * d
  BY <1>3, <1>4, MeanIs
<1>8. n \in FailingTools(100) <=> v.failureCount > 0
  <2>1. n \in FailingTools(100) <=> 100 * s.success < 100 * Total(s)
    BY <1>3 DEF FailingTools
  <2>2. PICK x \in Nat, y \in Nat : x = s.success /\ y = s.failure
    BY DEF ToolState
  <2>3. Total(s) = x + y
    BY <2>2 DEF Total
  <2>4. 100 * x < 100 * (x + y) <=> y > 0
    OBVIOUS
  <2> QED BY <1>4, <2>1, <2>2, <2>3, <2>4
<1>9. ASSUME NEW q \in SlowestTools(1) PROVE ToolSnapshot(q[1]).p95 >= v.p95
  <2>1. PICK rank : rank = [t \in U |-> ToolSnapshot(t).p95]
    OBVIOUS
  <2>2. q \in Ranked(1, rank)
    BY <1>9, <2>1 DEF SlowestTools
  <2>3. \A x \in AllToolSnapshots : rank[x] \in Nat /\ rank[x] = ToolSnapshot(x).p95
    BY <1>2, <2>1
  <2>4. IsFiniteSet(AllToolSnapshots) /\ n \in AllToolSnapshots
    BY DEF CollectorInv
  <2>5. q[1] \in AllToolSnapshots /\ rank[q[1]] >= rank[n]
    BY <2>2, <2>3, <2>4, FirstLeads
  <2> QED BY <2>3, <2>4, <2>5
<1>10. ASSUME NEW q \in MostUsedTools(1) PROVE ToolSnapshot(q[1]).executionCount >= v.executionCount
  <2>1. PICK rank : rank = [t \in U |-> ToolSnapshot(t).executionCount]
    OBVIOUS
  <2>2. q \in Ranked(1, rank)
    BY <1>10, <2>1 DEF MostUsedTools
  <2>3. \A x \in AllToolSnapshots : rank[x] \in Nat /\ rank[x] = ToolSnapshot(x).executionCount
    BY <1>2, <2>1
  <2>4. IsFiniteSet(AllToolSnapshots) /\ n \in AllToolSnapshots
    BY DEF CollectorInv
  <2>5. q[1] \in AllToolSnapshots /\ rank[q[1]] >= rank[n]
    BY <2>2, <2>3, <2>4, FirstLeads
  <2> QED BY <2>3, <2>4, <2>5
<1> QED BY <1>5, <1>6, <1>7, <1>8, <1>9, <1>10

(* After any sequence of events, of this runtime and of others on its bus, *)
(* and of resets, the collector's counters and windows are those of the    *)
(* events since the last reset, and its queries agree with them            *)
(* (RuntimeMetricsCollector.ts).                                           *)
THEOREM CollectorTheorem == SafeSpec => []CollectorExact
<1>1. Init => TypeInv /\ CollectorInv
  <2> SUFFICES ASSUME Init PROVE TypeInv /\ CollectorInv
    OBVIOUS
  <2>1. PICK names : MetricsInit(names)
    BY DEF Init
  <2> QED BY <2>1, TypesInit, CollectorStarts
<1>2. TypeInv /\ CollectorInv /\ [Next]_vars => TypeInv' /\ CollectorInv'
  <2> SUFFICES ASSUME TypeInv, CollectorInv, [Next]_vars PROVE TypeInv' /\ CollectorInv'
    OBVIOUS
  <2>1. MetricTypes /\ MetricMove
    BY StepMoves DEF TypeInv, AllTypes
  <2> QED BY <2>1, TypesStep, MoveCounts
<1>3. TypeInv /\ CollectorInv => CollectorExact
  <2> SUFFICES ASSUME TypeInv, CollectorInv PROVE CollectorExact
    OBVIOUS
  <2>1. MetricTypes
    BY DEF TypeInv, AllTypes
  <2>2. QueriesAgree
    BY <2>1, QueriesAre
  <2> QED BY <2>2 DEF CollectorExact, CollectorInv
<1> QED BY <1>1, <1>2, <1>3, PTL DEF SafeSpec
=============================================================================
