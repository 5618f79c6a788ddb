----------------------------- MODULE CacheStack -----------------------------
(***************************************************************************)
(* LruMemoryProvider over a CacheProvider (src/core/memory/LruMemoryProvider.ts, *)
(* src/memory/MemoryProviders.ts), one key.  Every operation awaits the    *)
(* provider below and then changes the cache.  MemoryCacheProvider answers *)
(* in a microtask, so that what follows the awaits runs in the order of    *)
(* the calls; another provider answers when it likes.                      *)
(***************************************************************************)
EXTENDS ServiceCalls

CONSTANTS Empty, Value

VARIABLES
  below,     \* the entry of the provider below: [value, timed]
  lru,       \* the entry of the LRU
  inOrder,   \* whether the provider below answers in the order of the calls
  fetched,   \* what each client has read from below, or is to write
  order,     \* the clients that await the provider, by time of call
  answered,  \* what each get has returned
  mixed,     \* history: a write overlapped with another operation, out of order
  outlived   \* history: the LRU's entry is a copy without a ttl of one that expired

cacheVars == <<below, lru, inOrder, fetched, order, answered, mixed, outlived>>

Nothing == [value |-> Empty, timed |-> FALSE]
Entry == [value : Value, timed : BOOLEAN] \cup {Nothing}
Writers == {"set", "delete", "clear"}

CacheInit ==
  /\ below \in Entry
  /\ lru \in {below, Nothing}
  /\ inOrder \in BOOLEAN
  /\ fetched = [c \in Client |-> Nothing]
  /\ order = <<>>
  /\ answered = [c \in Client |-> Empty]
  /\ mixed = FALSE /\ outlived = FALSE

(* A call that goes to the provider below, which acts when it is called:   *)
(* the answer takes time.  (A slower provider may also act later; then the *)
(* call counts as begun when it acts.)                                     *)
Await(c) ==
  /\ order' = Append(order, c)
  /\ mixed' = \/ mixed
               \/ /\ ~inOrder
                  /\ \E d \in Range(order) : {op[c].kind, op[d].kind} \cap Writers # {}
  /\ ToPc(c, "awaiting")

Get(c) ==
  /\ Starts(c, "get")
  /\ IF lru.value # Empty
     THEN /\ answered' = [answered EXCEPT ![c] = lru.value]
          /\ ToPc(c, "done")
          /\ UNCHANGED <<fetched, order, mixed>>
     ELSE /\ fetched' = [fetched EXCEPT ![c] = below]
          /\ Await(c)
          /\ UNCHANGED answered
  /\ UNCHANGED <<below, lru, inOrder, outlived>>

Set(c) ==
  /\ Starts(c, "set")
  /\ below' = op[c].entry
  /\ fetched' = [fetched EXCEPT ![c] = op[c].entry]
  /\ Await(c)
  /\ UNCHANGED <<lru, inOrder, answered, outlived>>

(* delete() and clear(). *)
Erase(c) ==
  /\ Starts(c, "delete") \/ Starts(c, "clear")
  /\ below' = Nothing
  /\ Await(c)
  /\ UNCHANGED <<lru, inOrder, fetched, answered, outlived>>

(* Mutant of CachedBy: a set does not touch the LRU. *)
CachedByGet(c) == IF op[c].kind = "get" THEN [fetched[c] EXCEPT !.timed = FALSE] ELSE lru

(* What the LRU holds when the call is over: a get caches what it found,   *)
(* for good: it does not know the entry's ttl.                             *)
CachedBy(c) ==
  CASE op[c].kind = "get" /\ fetched[c] = Nothing -> lru
    [] op[c].kind = "get" /\ fetched[c] # Nothing -> [fetched[c] EXCEPT !.timed = FALSE]
    [] op[c].kind = "set" -> fetched[c]
    [] op[c].kind \in {"delete", "clear"} -> Nothing

Outlives(c) ==
  IF op[c].kind # "get" THEN FALSE
  ELSE IF fetched[c] = Nothing THEN outlived
  ELSE fetched[c].timed /\ below # fetched[c]

Resume(c) ==
  /\ Goes(c, "awaiting", "done")
  /\ \E i \in DOMAIN order :
       order[i] = c /\ (inOrder => i = 1) /\ order' = RemoveAt(order, i)
  /\ lru' = CachedBy(c)
  /\ outlived' = Outlives(c)
  /\ answered' = [answered EXCEPT ![c] = fetched[c].value]
  /\ fetched' = [fetched EXCEPT ![c] = Nothing]
  /\ UNCHANGED <<below, inOrder, mixed>>

(* An entry with a ttl expires; one of the LRU may also make room for      *)
(* another key's.                                                          *)
Expire ==
  /\ below.timed /\ below' = Nothing
  /\ outlived' = (outlived \/ (lru.value # Empty /\ ~lru.timed))
  /\ UNCHANGED <<callVars, lru, inOrder, fetched, order, answered, mixed>>
Evict ==
  /\ lru.value # Empty /\ lru' = Nothing /\ outlived' = FALSE
  /\ UNCHANGED <<callVars, below, inOrder, fetched, order, answered, mixed>>

CacheNext ==
  \/ \E c \in Client : Get(c) \/ Set(c) \/ Erase(c) \/ Resume(c)
  \/ Expire \/ Evict

-----------------------------------------------------------------------------
(* When no operation is under way the LRU does not contradict the provider *)
(* below: it has the same value, or none, or one with a ttl of its own     *)
(* whose original has just expired.  Two things break it: an answer that   *)
(* comes out of order over a write (LruMemoryProvider.ts:27), and a get    *)
(* that caches an entry with a ttl as one without.                         *)
CacheIsFresh ==
  order = <<>> /\ ~mixed /\ ~outlived =>
    \/ lru.value \in {Empty, below.value}
    \/ lru.timed /\ below = Nothing
=============================================================================
