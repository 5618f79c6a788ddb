-------------------------- MODULE PromiseMutexProof --------------------------
(***************************************************************************)
(* The promise mutex keeps its contract for any set of calls: one function *)
(* at a time, first in first out, and every step of it is a step of        *)
(* FifoMutex or none.                                                      *)
(*                                                                         *)
(* The argument: the chain of prev pointers is the order of arrival (the   *)
(* ticket grows by one along it), and promises settle along the chain, so  *)
(* the settled ones are an initial segment.  A call that was let in found  *)
(* its predecessor's promise settled, hence all earlier ones; a settled    *)
(* promise means a resolved hold, and only leaving resolves a hold.        *)
(***************************************************************************)
EXTENDS PromiseMutex, TLAPS

(* A call has a ticket from the moment it asks, and no two have the same.  *)
TicketsInv ==
  /\ \A c \in Call : status[c] = "idle" <=> ticket[c] = 0
  /\ \A c \in Call : ticket[c] <= arrivals
  /\ \A a, b \in Call : ticket[a] = ticket[b] /\ ticket[a] # 0 => a = b

(* The prev pointers link the calls in the order of their tickets.         *)
ChainInv ==
  /\ tail = NoCall => arrivals = 0
  /\ tail # NoCall => ticket[tail] = arrivals /\ arrivals # 0
  /\ \A c \in Call : prev[c] # NoCall => /\ ticket[prev[c]] # 0
                                        /\ ticket[c] = ticket[prev[c]] + 1
  /\ \A c \in Call : status[c] # "idle" /\ prev[c] = NoCall => ticket[c] = 1

(* A promise settles after its call has left and after all earlier ones.   *)
SettledInv ==
  /\ \A c \in Call : hold[c] => status[c] \in Left
  /\ \A c \in Call : settled[c] => hold[c]
  /\ \A a, b \in Call :
       settled[a] /\ status[b] # "idle" /\ ticket[b] <= ticket[a] => settled[b]

(* Nobody was let in before the promise it awaits had settled.             *)
EnteredInv ==
  \A c \in Call : status[c] \in {"inside"} \cup Left => PrevSettled(c)

IInv == TypeOK /\ TicketsInv /\ ChainInv /\ SettledInv /\ EnteredInv

-----------------------------------------------------------------------------
(* At the start nobody has asked, and the queue is empty.                 *)
LEMMA InitIInv == Init => IInv
  BY NoCallAssumption
  DEF Init, IInv, TypeOK, TicketsInv, ChainInv, SettledInv, EnteredInv,
      PrevSettled, Status, Left

(* A call that queues comes last: its predecessor is the old tail.         *)
LEMMA EnqueueIInv ==
  ASSUME IInv, NEW c \in Call, Enqueue(c),
         outer' \in [Call -> Call \cup {NoCall}]
  PROVE  IInv'
<1> USE NoCallAssumption
<1> USE DEF IInv
<1>1. TypeOK'
  <2>1. status' \in [Call -> Status]
    BY DEF TypeOK, Enqueue, Status
  <2>2. prev' \in [Call -> Call \cup {NoCall}] /\ tail' \in Call \cup {NoCall}
    BY DEF TypeOK, Enqueue
  <2>3. ticket' \in [Call -> Nat] /\ arrivals' \in Nat
    BY DEF TypeOK, Enqueue
  <2>4. hold' \in [Call -> BOOLEAN] /\ settled' \in [Call -> BOOLEAN]
    BY DEF TypeOK, Enqueue
  <2> QED
    BY <2>1, <2>2, <2>3, <2>4 DEF TypeOK
<1>2. /\ status[c] = "idle" /\ ticket[c] = 0
      /\ ticket'[c] = arrivals + 1 /\ status'[c] = "waiting" /\ prev'[c] = tail
      /\ \A b \in Call \ {c} : /\ ticket'[b] = ticket[b]
                               /\ status'[b] = status[b]
                               /\ prev'[b] = prev[b]
      /\ tail # c
  <2>1. status[c] = "idle" /\ ticket[c] = 0
    BY DEF Enqueue, TicketsInv
  <2>2. prev'[c] = tail /\ status'[c] = "waiting" /\ ticket'[c] = arrivals + 1
    BY DEF TypeOK, Enqueue
  <2>3. \A b \in Call \ {c} : /\ ticket'[b] = ticket[b]
                              /\ status'[b] = status[b]
                              /\ prev'[b] = prev[b]
    BY DEF TypeOK, Enqueue
  <2>4. tail # c
    <3>1. CASE tail = NoCall
      BY <3>1
    <3>2. CASE tail # NoCall
      BY <2>1, <3>2 DEF ChainInv
    <3> QED
      BY <3>1, <3>2
  <2> QED
    BY <2>1, <2>2, <2>3, <2>4
<1>3. TicketsInv'
  BY <1>2, <1>1 DEF IInv, TypeOK, TicketsInv, Enqueue
<1>4. ChainInv'
  <2>1. \A b \in Call : prev[b] # NoCall => prev[b] # c
    BY <1>2 DEF IInv, TypeOK, TicketsInv, ChainInv
  <2>2. \A b \in Call : prev'[b] # NoCall => /\ ticket'[prev'[b]] # 0
                                            /\ ticket'[b] = ticket'[prev'[b]] + 1
    BY <1>2, <2>1 DEF IInv, TypeOK, ChainInv
  <2> QED
    BY <1>2, <2>2 DEF IInv, TypeOK, TicketsInv, ChainInv, Enqueue
<1>5. SettledInv'
  <2>1. ~settled[c] /\ ~hold[c]
    BY <1>2 DEF IInv, SettledInv, Left
  <2>2. hold' = hold /\ settled' = settled
    BY DEF Enqueue
  <2>3. \A a \in Call : settled[a] => ticket[a] <= arrivals
    BY DEF IInv, TicketsInv
  <2> QED
    BY <1>2, <2>1, <2>2, <2>3 DEF IInv, TypeOK, SettledInv
<1>6. EnteredInv'
  BY <1>2 DEF IInv, TypeOK, EnteredInv, PrevSettled, Enqueue, Left
<1> QED
  BY <1>1, <1>3, <1>4, <1>5, <1>6 DEF IInv

(* A call is let in only when the promise it awaits has settled.           *)
LEMMA EnterIInv == ASSUME IInv, NEW c \in Call, Enter(c) PROVE IInv'
  BY DEF IInv, TypeOK, TicketsInv, ChainInv, SettledInv, EnteredInv,
         PrevSettled, Enter, Status, Left

(* Leaving resolves the call's own hold and settles nothing.               *)
LEMMA LeaveIInv ==
  ASSUME IInv, NEW c \in Call, NEW how \in Left, Leave(c, how) PROVE IInv'
  BY DEF IInv, TypeOK, TicketsInv, ChainInv, SettledInv, EnteredInv,
         PrevSettled, Leave, Status, Left

(* A promise that settles is the first that had not: what is settled stays *)
(* an initial segment of the queue.                                        *)
LEMMA SettleIInv == ASSUME IInv, NEW c \in Call, Settle(c) PROVE IInv'
<1> USE NoCallAssumption
<1>1. TypeOK' /\ TicketsInv' /\ ChainInv'
  BY DEF IInv, TypeOK, TicketsInv, ChainInv, Settle
<1>2. ASSUME NEW b \in Call, status[b] # "idle", ticket[b] <= ticket[c], b # c
      PROVE  settled[b]
  <2>1. ticket[b] < ticket[c] /\ ticket[b] >= 1
    BY <1>2 DEF IInv, TypeOK, TicketsInv, Settle
  <2>2. prev[c] \in Call /\ settled[prev[c]] /\ ticket[c] = ticket[prev[c]] + 1
    BY <2>1 DEF IInv, TypeOK, ChainInv, PrevSettled, Settle
  <2> QED
    BY <1>2, <2>1, <2>2 DEF IInv, TypeOK, SettledInv
<1>3. SettledInv'
  BY <1>2 DEF IInv, TypeOK, SettledInv, Settle
<1>4. EnteredInv'
  BY DEF IInv, TypeOK, EnteredInv, PrevSettled, Settle
<1> QED
  BY <1>1, <1>3, <1>4 DEF IInv

(* The invariant is about the variables of vars and nothing else.          *)
LEMMA StutterIInv == IInv /\ UNCHANGED vars => IInv'
  BY DEF IInv, TypeOK, TicketsInv, ChainInv, SettledInv, EnteredInv,
         PrevSettled, vars

(* Every step of withLock keeps the queue a chain in ticket order whose    *)
(* settled promises are an initial segment.                                *)
LEMMA NextIInv == IInv /\ [Next]_vars => IInv'
<1> SUFFICES ASSUME IInv, [Next]_vars PROVE IInv'
  OBVIOUS
<1>1. ASSUME NEW c \in Call, Invoke(c) PROVE IInv'
  <2>1. outer' \in [Call -> Call \cup {NoCall}]
    BY <1>1 DEF Invoke, IInv, TypeOK
  <2> QED
    BY <1>1, <2>1, EnqueueIInv DEF Invoke
<1>2. ASSUME NEW c \in Call, NEW b \in Call, InvokeInside(c, b) PROVE IInv'
  <2>1. outer' \in [Call -> Call \cup {NoCall}]
    BY <1>2 DEF InvokeInside, IInv, TypeOK
  <2> QED
    BY <1>2, <2>1, EnqueueIInv DEF InvokeInside
<1>3. ASSUME NEW c \in Call, Enter(c) PROVE IInv'
  BY <1>3, EnterIInv
<1>4. ASSUME NEW c \in Call, NEW how \in Left, Leave(c, how) PROVE IInv'
  BY <1>4, LeaveIInv
<1>5. ASSUME NEW c \in Call, Settle(c) PROVE IInv'
  BY <1>5, SettleIInv
<1>6. CASE UNCHANGED vars
  BY <1>6, StutterIInv
<1> QED
  BY <1>1, <1>2, <1>3, <1>4, <1>5, <1>6 DEF Next

(* Of the promises in the queue those of the earliest calls have settled,  *)
(* in every state withLock can reach.                                      *)
THEOREM Invariance == SafeSpec => []IInv
  BY InitIInv, NextIInv, PTL DEF SafeSpec

-----------------------------------------------------------------------------
(* The state of the mutex always has the type it was declared with.        *)
THEOREM TypeCorrect == SafeSpec => []TypeOK
<1>1. IInv => TypeOK
  BY DEF IInv
<1> QED
  BY <1>1, Invariance, PTL

(* A call that is past its `await prev` finds every earlier call gone.     *)
LEMMA EarlierHaveLeft == IInv => FirstInFirstOut
<1> SUFFICES ASSUME IInv, NEW a \in Call, NEW b \in Call,
                    status[b] \in {"inside"} \cup Left,
                    status[a] # "idle", ticket[a] < ticket[b]
             PROVE  status[a] \in Left
  BY DEF FirstInFirstOut
<1> USE NoCallAssumption
<1>1. ticket[a] >= 1 /\ status[b] # "idle"
  BY DEF IInv, TypeOK, TicketsInv, Left
<1>2. prev[b] \in Call /\ ticket[b] = ticket[prev[b]] + 1
  BY <1>1 DEF IInv, TypeOK, ChainInv
<1>3. settled[prev[b]]
  BY <1>2 DEF IInv, EnteredInv, PrevSettled
<1>4. settled[a]
  BY <1>2, <1>3 DEF IInv, TypeOK, SettledInv
<1> QED
  BY <1>4 DEF IInv, SettledInv

(* Calls start their functions in the order in which they asked for the    *)
(* lock, each after all the earlier ones have left.                        *)
THEOREM FifoOrder == SafeSpec => []FirstInFirstOut
  BY EarlierHaveLeft, Invariance, PTL

(* Of two calls inside their functions neither came before the other.      *)
LEMMA OneInside == IInv /\ FirstInFirstOut => MutualExclusion
<1> SUFFICES ASSUME IInv, FirstInFirstOut, NEW a \in Call, NEW b \in Call,
                    status[a] = "inside", status[b] = "inside"
             PROVE  a = b
  BY DEF MutualExclusion
<1>1. ~(ticket[a] < ticket[b]) /\ ~(ticket[b] < ticket[a])
  BY DEF FirstInFirstOut, Left
<1> QED
  BY <1>1 DEF IInv, TypeOK, TicketsInv

(* Two functions never run at the same time under one key.                 *)
THEOREM MutexTheorem == SafeSpec => []MutualExclusion
  BY OneInside, EarlierHaveLeft, Invariance, PTL

-----------------------------------------------------------------------------
(* An empty queue of promises is a free lock.                              *)
LEMMA InitRefines == Init => F!FifoInit
  BY DEF Init, F!FifoInit

(* Each step of withLock asks for the lock, grants it to the call whose    *)
(* turn it is, gives it back, or is internal (a promise settles).          *)
LEMMA NextRefines == IInv /\ IInv' /\ [Next]_vars => [F!FifoNext]_(F!fifoVars)
<1> SUFFICES ASSUME IInv, IInv', [Next]_vars
             PROVE  [F!FifoNext]_(F!fifoVars)
  OBVIOUS
<1>1. ASSUME NEW c \in Call, Enqueue(c) PROVE F!FifoNext
  BY <1>1 DEF Enqueue, F!FifoNext, F!Request
<1>2. ASSUME NEW c \in Call, Enter(c) PROVE F!FifoNext
  <2>1. status'[c] = "inside" /\ status[c] # "idle"
    BY <1>2 DEF Enter, IInv, TypeOK
  <2>2. ASSUME NEW b \in F!AheadOf(c) PROVE status[b] \in F!Left
    <3>1. FirstInFirstOut'
      <4>1. (IInv => FirstInFirstOut)'
        BY EarlierHaveLeft, PTL
      <4> QED
        BY <4>1
    <3>2. b \in Call /\ status[b] # "idle" /\ ticket[b] < ticket[c] /\ b # c
      BY <2>2 DEF F!AheadOf, IInv, TypeOK
    <3>3. status'[b] = status[b] /\ ticket'[b] = ticket[b] /\ ticket'[c] = ticket[c]
      BY <1>2, <3>2 DEF Enter, IInv, TypeOK
    <3> QED
      BY <2>1, <3>1, <3>2, <3>3 DEF FirstInFirstOut, Left, F!Left
  <2> QED
    BY <1>2, <2>2 DEF Enter, F!FifoNext, F!Grant
<1>3. ASSUME NEW c \in Call, NEW how \in Left, Leave(c, how) PROVE F!FifoNext
  BY <1>3 DEF Leave, Left, F!FifoNext, F!Release, F!Left
<1>4. ASSUME NEW c \in Call, Settle(c) PROVE UNCHANGED F!fifoVars
  BY <1>4 DEF Settle, F!fifoVars
<1>5. CASE UNCHANGED vars
  BY <1>5 DEF vars, F!fifoVars
<1> QED
  BY <1>1, <1>2, <1>3, <1>4, <1>5 DEF Next, Invoke, InvokeInside

(* withLock implements the FIFO lock its comments describe, nested calls   *)
(* included: they are calls that wait behind their own caller.             *)
THEOREM Refinement == SafeSpec => Fifo
<1>1. SafeSpec => []IInv
  BY Invariance
<1>2. SafeSpec => F!FifoInit /\ [][F!FifoNext]_(F!fifoVars)
  BY <1>1, InitRefines, NextRefines, PTL DEF SafeSpec
<1> QED
  BY <1>2 DEF Fifo, F!FifoSafeSpec
=============================================================================
