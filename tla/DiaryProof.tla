----------------------------- MODULE DiaryProof -----------------------------
(***************************************************************************)
(* executeOnce under any lock that lets in one call at a time: each task   *)
(* is run at most once, and what a call that ended well has stored stays.  *)
(*                                                                         *)
(* The argument: who is at work has a copy that is the diary with its own  *)
(* change; a claim is written only where the task has no record; and a     *)
(* record, once there, stays, because there is room for all and only its   *)
(* own claimer changes it.                                                 *)
(*                                                                         *)
(* The diary is a parameter, d before a step and e after it, because it is *)
(* not always what the storage holds: a file that is being written is      *)
(* empty for a while.  The lock modules say what d is, and that one call   *)
(* is at work at a time.                                                   *)
(***************************************************************************)
EXTENDS Diary, FiniteSetTheorems, FunctionTheorems, SequenceTheorems,
        WellFoundedInduction, TLAPS

(* The conditions: executeOnce alone (and reads without the lock), no TTL, *)
(* a history with room for all tasks.                                      *)
OnceAlone ==
  /\ \A o \in Op : o.kind \notin ReadKinds =>
       o.kind = "executeOnce" /\ Len(o.titles) = 1 /\ o.ttl = NoTtl
  /\ DefaultTtl = NoTtl
  /\ IsFiniteSet(Signature) /\ Cardinality(Signature) <= MaxHistory

(* No error is taken for an empty diary, at any time or in this step. *)
ReadsTrue == "read" \notin Fault \/ ~lost'


-----------------------------------------------------------------------------
(* Histories, whatever the operations do *)

(* A history with at most one record for each signature ... *)
OneEach(h) ==
  /\ h \in Seq(Record)
  /\ \A i, j \in DOMAIN h : h[i].signature = h[j].signature => i = j

(* ... and no longer than the bound. *)
Fits(h) == OneEach(h) /\ Len(h) <= MaxHistory

(* Its members. *)
LEMMA Each ==
  ASSUME NEW h, OneEach(h)
  PROVE  /\ h \in Seq(Record) /\ Len(h) \in Nat /\ DOMAIN h = 1 .. Len(h)
         /\ \A i \in 1 .. Len(h) : h[i] \in Record
         /\ \A i, j \in 1 .. Len(h) : h[i].signature = h[j].signature => i = j
BY LenProperties, ElementOfSeq DEF OneEach

(* The record of a signature is found where it is. *)
LEMMA IndexAt ==
  ASSUME NEW h, OneEach(h), NEW i \in DOMAIN h
  PROVE  IndexOf(h, h[i].signature) = i /\ Find(h, h[i].signature) = h[i]
<1>1. \A j \in 1 .. i - 1 : h[j].signature # h[i].signature
  BY LenProperties DEF OneEach
<1>2. IndexOf(h, h[i].signature) = i
  BY <1>1 DEF IndexOf, OneEach
<1> QED BY <1>2 DEF Find

(* What is found of a signature is a record of it. *)
LEMMA FoundAt ==
  ASSUME NEW h, OneEach(h), NEW s, Has(h, s)
  PROVE  /\ IndexOf(h, s) \in DOMAIN h /\ Find(h, s) = h[IndexOf(h, s)]
         /\ Find(h, s) \in Record /\ Find(h, s).signature = s
<1>1. PICK i \in DOMAIN h : h[i].signature = s
  BY DEF Has
<1>2. IndexOf(h, s) = i
  BY <1>1, IndexAt
<1>3. h[i] \in Record
  BY Each
<1> QED BY <1>1, <1>2, <1>3 DEF Find

(* A record in front of the others. *)
LEMMA InFront ==
  ASSUME NEW h, OneEach(h), NEW r \in Record, ~Has(h, r.signature), NEW g, g = <<r>> \o h
  PROVE  /\ OneEach(g) /\ Len(g) = Len(h) + 1 /\ g[1] = r
         /\ \A i \in DOMAIN h : i + 1 \in DOMAIN g /\ g[i + 1] = h[i]
         /\ \A i \in DOMAIN g : i # 1 => i - 1 \in DOMAIN h /\ g[i] = h[i - 1]
<1>1. /\ g \in Seq(Record) /\ Len(g) = Len(h) + 1
      /\ \A i \in 1 .. Len(h) + 1 : g[i] = IF i <= 1 THEN r ELSE h[i - 1]
  <2>1. h \in Seq(Record) /\ <<r>> \in Seq(Record) /\ Len(<<r>>) = 1 /\ <<r>>[1] = r
    BY DEF OneEach
  <2>2. /\ g \in Seq(Record) /\ Len(g) = Len(<<r>>) + Len(h)
        /\ \A i \in 1 .. Len(<<r>>) + Len(h) :
             g[i] = IF i <= Len(<<r>>) THEN <<r>>[i] ELSE h[i - Len(<<r>>)]
    BY <2>1, ConcatProperties
  <2>3. Len(h) \in Nat
    BY <2>1, LenProperties
  <2> QED BY <2>1, <2>2, <2>3
<1>2. /\ Len(h) \in Nat /\ DOMAIN h = 1 .. Len(h) /\ DOMAIN g = 1 .. Len(h) + 1
      /\ \A i, j \in 1 .. Len(h) : h[i].signature = h[j].signature => i = j
  BY <1>1, Each, LenProperties
<1>3. g[1] = r
  BY <1>1, <1>2
<1>4. \A i \in 1 .. Len(h) + 1 : i # 1 => i - 1 \in 1 .. Len(h) /\ g[i] = h[i - 1]
  BY <1>1, <1>2
<1>5. \A i \in 1 .. Len(h) : i + 1 \in 1 .. Len(h) + 1 /\ g[i + 1] = h[i]
  BY <1>1, <1>2
<1>6. \A i \in 1 .. Len(h) : h[i].signature # r.signature
  BY <1>2 DEF Has
<1>7. ASSUME NEW i \in 1 .. Len(h) + 1, NEW j \in 1 .. Len(h) + 1, g[i].signature = g[j].signature
      PROVE  i = j
  <2>1. CASE i = 1 \/ j = 1
    BY <1>3, <1>4, <1>6, <1>7, <2>1
  <2>2. CASE i # 1 /\ j # 1
    <3>1. i - 1 = j - 1
      BY <1>2, <1>4, <1>7, <2>2
    <3> QED BY <1>2, <3>1
  <2> QED BY <2>1, <2>2
<1> QED BY <1>1, <1>2, <1>3, <1>4, <1>5, <1>7 DEF OneEach

(* One record taken out: the others stay, in their order. *)
LEMMA Without ==
  ASSUME NEW h, OneEach(h), NEW k \in DOMAIN h, NEW g, g = RemoveAt(h, k)
  PROVE  /\ OneEach(g) /\ ~Has(g, h[k].signature)
         /\ \A p \in DOMAIN g : \E i \in DOMAIN h :
              g[p] = h[i] /\ i = IF p < k THEN p ELSE p + 1
         /\ \A i \in DOMAIN h : i # k => h[i] \in Range(g)
<1> DEFINE n == Len(h)  a == SubSeq(h, 1, k - 1)  b == SubSeq(h, k + 1, n)
<1>1. /\ h \in Seq(Record) /\ n \in Nat /\ DOMAIN h = 1 .. n /\ k \in 1 .. n
      /\ \A i \in 1 .. n : h[i] \in Record
      /\ \A i, j \in 1 .. n : h[i].signature = h[j].signature => i = j
  BY Each
<1>2. a \in Seq(Record) /\ Len(a) = k - 1 /\ \A i \in 1 .. k - 1 : a[i] = h[i]
  BY <1>1
<1>3. b \in Seq(Record) /\ Len(b) = n - k /\ \A i \in 1 .. n - k : b[i] = h[i + k]
  <2>1. /\ k + 1 \in Int /\ n \in Int /\ \A i \in k + 1 .. n : h[i] \in Record
        /\ \A i \in 1 .. n - k : k + 1 + i - 1 = i + k
    BY <1>1
  <2> QED BY <1>1, <2>1, SubSeqProperties
<1>4. g = a \o b
  BY DEF RemoveAt
<1> HIDE DEF a, b
<1>5. /\ g \in Seq(Record) /\ Len(g) = Len(a) + Len(b)
      /\ \A i \in 1 .. Len(a) + Len(b) : g[i] = IF i <= Len(a) THEN a[i] ELSE b[i - Len(a)]
  BY <1>2, <1>3, <1>4, ConcatProperties
<1>6. Len(g) = n - 1 /\ DOMAIN g = 1 .. n - 1
  BY <1>1, <1>2, <1>3, <1>5, LenProperties
<1>7. ASSUME NEW p \in 1 .. n - 1 PROVE g[p] = h[IF p < k THEN p ELSE p + 1]
  <2>1. p \in 1 .. Len(a) + Len(b)
    BY <1>1, <1>2, <1>3
  <2>2. CASE p < k
    BY <1>1, <1>2, <1>5, <2>1, <2>2
  <2>3. CASE ~(p < k)
    <3>1. ~(p <= Len(a)) /\ p - Len(a) = p - k + 1
      BY <1>1, <1>2, <2>3
    <3>2. p - k + 1 \in 1 .. n - k /\ p - k + 1 + k = p + 1
      BY <1>1, <2>3
    <3> QED BY <1>3, <1>5, <2>1, <2>3, <3>1, <3>2
  <2> QED BY <2>2, <2>3
<1>8. ASSUME NEW p \in 1 .. n - 1
      PROVE  (IF p < k THEN p ELSE p + 1) \in 1 .. n /\ (IF p < k THEN p ELSE p + 1) # k
  BY <1>1
<1>9. OneEach(g)
  <2>1. \A p, q \in 1 .. n - 1 :
          (IF p < k THEN p ELSE p + 1) = (IF q < k THEN q ELSE q + 1) => p = q
    BY <1>1
  <2>2. ASSUME NEW p \in 1 .. n - 1, NEW q \in 1 .. n - 1, g[p].signature = g[q].signature
        PROVE  p = q
    <3> DEFINE was(x) == IF x < k THEN x ELSE x + 1
    <3>1. was(p) \in 1 .. n /\ was(q) \in 1 .. n /\ g[p] = h[was(p)] /\ g[q] = h[was(q)]
      BY <1>7, <1>8
    <3>2. was(p) = was(q) => p = q
      BY <2>1
    <3> HIDE DEF was
    <3> QED BY <1>1, <2>2, <3>1, <3>2
  <2>3. \A p, q \in DOMAIN g : g[p].signature = g[q].signature => p = q
    BY <1>6, <2>2
  <2> QED BY <1>5, <2>3 DEF OneEach
<1>10. ~Has(g, h[k].signature)
  BY <1>1, <1>6, <1>7, <1>8 DEF Has
<1>11. ASSUME NEW i \in 1 .. n, i # k PROVE h[i] \in Range(g)
  <2>1. CASE i < k
    <3>1. i \in 1 .. n - 1 /\ g[i] = h[i]
      BY <1>1, <1>7, <2>1
    <3> QED BY <1>6, <3>1 DEF Range
  <2>2. CASE ~(i < k)
    <3>1. i - 1 \in 1 .. n - 1 /\ ~(i - 1 < k) /\ i - 1 + 1 = i
      BY <1>1, <1>11, <2>2
    <3>2. g[i - 1] = h[i]
      BY <1>7, <3>1
    <3> QED BY <1>6, <3>1, <3>2 DEF Range
  <2> QED BY <2>1, <2>2
<1> QED BY <1>1, <1>6, <1>7, <1>8, <1>9, <1>10, <1>11

(* The history cut to the bound is a front of it. *)
LEMMA Sliced ==
  ASSUME NEW h, OneEach(h), NEW g, g = Slice(h)
  PROVE  /\ Fits(g) /\ Len(g) <= Len(h) /\ (Len(g) < Len(h) => Len(g) = MaxHistory)
         /\ \A i \in DOMAIN g : i \in DOMAIN h /\ g[i] = h[i]
<1> DEFINE n == Len(h)  m == IF n < MaxHistory THEN n ELSE MaxHistory
<1>1. /\ h \in Seq(Record) /\ n \in Nat /\ DOMAIN h = 1 .. n
      /\ \A i \in 1 .. n : h[i] \in Record
      /\ \A i, j \in 1 .. n : h[i].signature = h[j].signature => i = j
  BY Each
<1>2. m \in Nat /\ m <= n /\ m <= MaxHistory /\ (m < n => m = MaxHistory)
  <2>1. n \in Nat /\ MaxHistory \in Nat
    BY <1>1, HistoryAssumption
  <2> HIDE DEF n
  <2> QED BY <2>1
<1>3. g = SubSeq(h, 1, m)
  BY DEF Slice
<1> HIDE DEF m, n
<1>4. g \in Seq(Record) /\ Len(g) = m /\ DOMAIN g = 1 .. m /\ \A i \in 1 .. m : g[i] = h[i]
  BY <1>1, <1>2, <1>3
<1>5. \A i \in 1 .. m : i \in 1 .. n
  BY <1>1, <1>2
<1> QED BY <1>1, <1>2, <1>4, <1>5 DEF OneEach, Fits, n

(* A record rewritten in its place. *)
LEMMA ReplacedAt ==
  ASSUME NEW h, OneEach(h), NEW s, Has(h, s), NEW r \in Record, r.signature = s,
         NEW g, g = [h EXCEPT ![IndexOf(h, s)] = r]
  PROVE  /\ OneEach(g) /\ Len(g) = Len(h) /\ DOMAIN g = DOMAIN h
         /\ \A i \in DOMAIN h : g[i].signature = h[i].signature
         /\ \A i \in DOMAIN h : h[i].signature # s => g[i] = h[i]
<1> DEFINE k == IndexOf(h, s)
<1>1. k \in DOMAIN h /\ h[k].signature = s
  BY FoundAt
<1>2. /\ g \in Seq(Record) /\ DOMAIN g = DOMAIN h /\ Len(g) = Len(h)
      /\ \A j \in DOMAIN h : g[j] = IF j = k THEN r ELSE h[j]
  BY <1>1, ExceptSeq, LenProperties DEF OneEach
<1> HIDE DEF k
<1> QED BY <1>1, <1>2 DEF OneEach

(* Two histories that have no signature in common, one behind the other. *)
LEMMA Joined ==
  ASSUME NEW u, OneEach(u), NEW h, OneEach(h), \A i \in DOMAIN u : ~Has(h, u[i].signature),
         NEW g, g = u \o h
  PROVE  /\ OneEach(g) /\ Len(g) = Len(u) + Len(h)
         /\ \A i \in DOMAIN h : Len(u) + i \in DOMAIN g /\ g[Len(u) + i] = h[i]
         /\ \A i \in DOMAIN g : \/ i \in DOMAIN u /\ g[i] = u[i]
                                \/ i - Len(u) \in DOMAIN h /\ g[i] = h[i - Len(u)]
<1> DEFINE m == Len(u)  n == Len(h)
<1>1. /\ h \in Seq(Record) /\ n \in Nat /\ DOMAIN h = 1 .. n
      /\ \A i, j \in 1 .. n : h[i].signature = h[j].signature => i = j
  BY Each
<1>2. /\ u \in Seq(Record) /\ m \in Nat /\ DOMAIN u = 1 .. m
      /\ \A i, j \in 1 .. m : u[i].signature = u[j].signature => i = j
  BY Each
<1>3. /\ g \in Seq(Record) /\ Len(g) = m + n
      /\ \A i \in 1 .. m + n : g[i] = IF i <= m THEN u[i] ELSE h[i - m]
  BY <1>1, <1>2, ConcatProperties
<1>4. DOMAIN g = 1 .. m + n
  BY <1>3, LenProperties
<1>5. \A i \in 1 .. m, j \in 1 .. n : u[i].signature # h[j].signature
  BY <1>1, <1>2 DEF Has
<1> HIDE DEF m, n
<1>6. ASSUME NEW i \in 1 .. n PROVE m + i \in 1 .. m + n /\ g[m + i] = h[i]
  <2> DEFINE j == m + i
  <2>1. j \in 1 .. m + n /\ ~(j <= m) /\ j - m = i
    BY <1>1, <1>2
  <2>2. g[j] = IF j <= m THEN u[j] ELSE h[j - m]
    BY <1>3, <2>1
  <2> HIDE DEF j
  <2>3. g[j] = h[i]
    BY <2>1, <2>2
  <2> QED BY <2>1, <2>3 DEF j
<1>7. \A i \in 1 .. m + n : \/ i \in 1 .. m /\ g[i] = u[i]
                            \/ i - m \in 1 .. n /\ g[i] = h[i - m]
  BY <1>1, <1>2, <1>3
<1>8. ASSUME NEW i \in 1 .. m + n, NEW j \in 1 .. m + n, g[i].signature = g[j].signature
      PROVE  i = j
  <2>1. CASE i \in 1 .. m /\ g[i] = u[i]
    <3>1. j \in 1 .. m /\ g[j] = u[j]
      BY <1>5, <1>7, <1>8, <2>1
    <3> QED BY <1>2, <1>8, <2>1, <3>1
  <2>2. CASE i - m \in 1 .. n /\ g[i] = h[i - m]
    <3>1. j - m \in 1 .. n /\ g[j] = h[j - m]
      BY <1>5, <1>7, <1>8, <2>2
    <3>2. i - m = j - m
      BY <1>1, <1>8, <2>2, <3>1
    <3> QED BY <1>1, <1>2, <3>2
  <2> QED BY <1>7, <2>1, <2>2
<1> QED BY <1>1, <1>2, <1>3, <1>4, <1>6, <1>7, <1>8 DEF OneEach, m, n

(* Induction, in the form that needs no operator: a set with 0 and with    *)
(* the successors of its members has all numbers.                          *)
LEMMA SetInduction ==
  ASSUME NEW S, 0 \in S, \A n \in Nat : n \in S => n + 1 \in S
  PROVE  Nat \subseteq S
<1> DEFINE R == OpToRel(<, Nat)  T == {n \in Nat : n \notin S}
<1> SUFFICES ASSUME T # {} PROVE FALSE
  OBVIOUS
<1>1. IsWellFoundedOn(R, Nat)
  BY NatLessThanWellFounded
<1>2. PICK x \in T : \A y \in T : ~(<<y, x>> \in R)
  <2>1. T \subseteq Nat
    OBVIOUS
  <2> HIDE DEF T, R
  <2> QED BY <1>1, <2>1, WFMin
<1>3. x \in Nat /\ x # 0 /\ x - 1 \in T
  OBVIOUS
<1>4. <<x - 1, x>> \in R
  BY <1>3 DEF OpToRel
<1> QED BY <1>2, <1>3, <1>4

(* Filter is what its recursive function says of each index. *)
LEMMA FilterSteps ==
  ASSUME NEW T, NEW h \in Seq(T), NEW K
  PROVE  \E F : /\ Filter(h, K) = F[Len(h)] /\ F[0] = <<>>
                /\ \A i \in 1 .. Len(h) :
                     F[i] = IF h[i] \in K THEN Append(F[i - 1], h[i]) ELSE F[i - 1]
<1> DEFINE Pass(G, m) == [i \in 0 .. m |->
             IF i = 0 THEN <<>> ELSE IF h[i] \in K THEN Append(G[i - 1], h[i]) ELSE G[i - 1]]
           S == {m \in Nat : \E G : G = Pass(G, m)}
<1>1. 0 \in S
  <2>1. [i \in 0 .. 0 |-> <<>>] = Pass([i \in 0 .. 0 |-> <<>>], 0)
    OBVIOUS
  <2> QED BY <2>1
<1>2. ASSUME NEW m \in Nat, m \in S PROVE m + 1 \in S
  <2>1. PICK G : G = Pass(G, m)
    BY <1>2
  <2> DEFINE last == IF h[m + 1] \in K THEN Append(G[m], h[m + 1]) ELSE G[m]
             H == [i \in 0 .. m + 1 |-> IF i = m + 1 THEN last ELSE G[i]]
  <2>2. \A i \in 0 .. m : H[i] = G[i]
    OBVIOUS
  <2>3. ASSUME NEW i \in 0 .. m + 1 PROVE H[i] = Pass(H, m + 1)[i]
    <3>1. CASE i = m + 1
      <4>1. H[i] = last /\ i - 1 = m /\ i # 0 /\ H[i - 1] = G[m]
        BY <1>2, <2>2, <3>1
      <4> QED BY <3>1, <4>1
    <3>2. CASE i = 0
      <4>1. H[i] = G[0] /\ G[0] = Pass(G, m)[0]
        BY <1>2, <2>1, <2>2, <3>2
      <4> QED BY <3>2, <4>1
    <3>3. CASE i \in 1 .. m
      <4>0. i \in 0 .. m /\ i - 1 \in 0 .. m /\ i # 0 /\ i # m + 1
        BY <1>2, <3>3
      <4>1. H[i] = G[i] /\ H[i - 1] = G[i - 1] /\ G[i] = Pass(G, m)[i]
        <5> HIDE DEF H, Pass
        <5> QED BY <2>1, <2>2, <4>0
      <4>2. G[i] = IF h[i] \in K THEN Append(G[i - 1], h[i]) ELSE G[i - 1]
        BY <3>3, <4>1
      <4> HIDE DEF H
      <4> QED BY <4>0, <4>1, <4>2
    <3>4. i = m + 1 \/ i = 0 \/ i \in 1 .. m
      BY <1>2
    <3> HIDE DEF H, Pass
    <3> QED BY <3>1, <3>2, <3>3, <3>4
  <2>4. H = Pass(H, m + 1)
    BY <2>3
  <2>5. m + 1 \in Nat
    BY <1>2
  <2> HIDE DEF H, Pass
  <2> QED BY <2>4, <2>5
<1>3. Nat \subseteq S
  <2> HIDE DEF S
  <2> QED BY <1>1, <1>2, SetInduction
<1> DEFINE F == CHOOSE G : G = Pass(G, Len(h))
<1>5. F = Pass(F, Len(h))
  <2>1. Len(h) \in Nat
    OBVIOUS
  <2>2. Len(h) \in S
    <3> HIDE DEF S
    <3> QED BY <1>3, <2>1
  <2>3. \E G : G = Pass(G, Len(h))
    BY <2>2
  <2> HIDE DEF Pass
  <2> QED BY <2>3
<1>6. Filter(h, K) = F[Len(h)]
  BY DEF Filter
<1> HIDE DEF F
<1>7. F[0] = <<>>
  BY <1>5
<1>8. ASSUME NEW i \in 1 .. Len(h)
      PROVE F[i] = IF h[i] \in K THEN Append(F[i - 1], h[i]) ELSE F[i - 1]
  <2>1. i # 0 /\ i \in 0 .. Len(h)
    OBVIOUS
  <2>2. F[i] = Pass(F, Len(h))[i]
    <3> HIDE DEF Pass
    <3> QED BY <1>5
  <2> QED BY <2>1, <2>2
<1> QED BY <1>6, <1>7, <1>8

(* A filter keeps the records of the set it is given and no other. *)
LEMMA Filtered ==
  ASSUME NEW h, OneEach(h), NEW K, NEW g, g = Filter(h, K)
  PROVE  /\ OneEach(g) /\ Len(g) <= Len(h)
         /\ Range(g) = Range(h) \cap K
<1>1. /\ h \in Seq(Record) /\ Len(h) \in Nat /\ DOMAIN h = 1 .. Len(h)
      /\ \A i \in 1 .. Len(h) : h[i] \in Record
      /\ \A i, j \in 1 .. Len(h) : h[i].signature = h[j].signature => i = j
  BY LenProperties, ElementOfSeq DEF OneEach
<1>2. PICK F : /\ Filter(h, K) = F[Len(h)] /\ F[0] = <<>>
               /\ \A i \in 1 .. Len(h) :
                    F[i] = IF h[i] \in K THEN Append(F[i - 1], h[i]) ELSE F[i - 1]
  BY <1>1, FilterSteps
<1> DEFINE Upto(l) == {h[j] : j \in {k \in 1 .. l : h[k] \in K}}
           Ok(f, l) == OneEach(f) /\ Len(f) <= l /\ Range(f) = Upto(l)
           S == {m \in Nat : m <= Len(h) => Ok(F[m], m)}
<1>3. 0 \in S
  <2>1. OneEach(<<>>) /\ Len(<<>>) = 0 /\ Range(<<>>) = {}
    BY DEF OneEach, Range
  <2>2. Upto(0) = {}
    OBVIOUS
  <2> QED BY <1>2, <2>1, <2>2
<1>4. ASSUME NEW i \in Nat, i \in S, i + 1 <= Len(h) PROVE Ok(F[i + 1], i + 1)
  <2> DEFINE f == F[i]  r == h[i + 1]
  <2>1. OneEach(f) /\ Len(f) <= i /\ Range(f) = Upto(i)
    BY <1>1, <1>4
  <2>2. F[i + 1] = IF r \in K THEN Append(f, r) ELSE f
    BY <1>1, <1>2, <1>4
  <2>3. r \in Record /\ i + 1 \in 1 .. Len(h) /\ 1 .. i \subseteq 1 .. Len(h)
    BY <1>1, <1>4
  <2>4. Upto(i + 1) = IF r \in K THEN Upto(i) \cup {r} ELSE Upto(i)
    <3>1. \A j : j \in 1 .. i + 1 <=> j \in 1 .. i \/ j = i + 1
      OBVIOUS
    <3> QED BY <3>1
  <2>5. \A k \in DOMAIN f : f[k].signature # r.signature
    <3> SUFFICES ASSUME NEW k \in DOMAIN f, f[k].signature = r.signature PROVE FALSE
      OBVIOUS
    <3>1. PICK j \in 1 .. i : f[k] = h[j]
      BY <2>1 DEF Range
    <3> QED BY <1>1, <2>3, <3>1
  <2> HIDE DEF f, r, Upto
  <2>6. CASE r \notin K
    BY <1>4, <2>1, <2>2, <2>4, <2>6 DEF OneEach
  <2>7. CASE r \in K
    <3> DEFINE e == Append(f, r)
    <3>1. /\ f \in Seq(Record) /\ Len(f) \in Nat /\ DOMAIN f = 1 .. Len(f)
          /\ \A j, k \in 1 .. Len(f) : f[j].signature = f[k].signature => j = k
      BY <2>1 DEF OneEach
    <3>2. /\ e \in Seq(Record) /\ Len(e) = Len(f) + 1 /\ DOMAIN e = 1 .. Len(f) + 1
          /\ e[Len(f) + 1] = r /\ \A j \in 1 .. Len(f) : e[j] = f[j]
      BY <2>3, <3>1
    <3> HIDE DEF e
    <3>3. \A j : j \in 1 .. Len(f) + 1 <=> j \in 1 .. Len(f) \/ j = Len(f) + 1
      BY <3>1
    <3>4. OneEach(e)
      BY <2>5, <3>1, <3>2, <3>3 DEF OneEach
    <3>5. Range(e) = Range(f) \cup {r}
      BY <3>1, <3>2, <3>3 DEF Range
    <3>6. Len(e) <= i + 1
      BY <1>4, <2>1, <3>1, <3>2
    <3> QED BY <2>1, <2>2, <2>4, <2>7, <3>4, <3>5, <3>6 DEF e
  <2> QED BY <2>6, <2>7
<1>5. Nat \subseteq S
  <2>1. \A i \in Nat : i \in S => i + 1 \in S
    <3> HIDE DEF Ok
    <3> QED BY <1>4
  <2> HIDE DEF S
  <2> QED BY <1>3, <2>1, SetInduction
<1>6. Ok(F[Len(h)], Len(h))
  <2> HIDE DEF Ok
  <2> QED BY <1>1, <1>5
<1>7. Upto(Len(h)) = Range(h) \cap K
  BY <1>1 DEF Range
<1> QED BY <1>2, <1>6, <1>7

-----------------------------------------------------------------------------
(* Histories that one call changes while no other does *)

(* The record at i of S, and all behind it, fell off the end of a full g. *)
Cut(S, g, i) ==
  Len(g) = MaxHistory /\ \A j \in i .. Len(S) : S[j] \notin Range(g)

(* g has what S has, but for what has expired at t, is about a signature   *)
(* of ss, or fell off the end.                                             *)
KeepsAll(S, g, t, ss) ==
  \A i \in DOMAIN S : \/ S[i] \in Range(g) \/ IsExpired(S[i], t)
                      \/ S[i].signature \in ss \/ Cut(S, g, i)

(* g has no task that S does not have. *)
AddsNone(S, g) == \A p \in DOMAIN g : Has(S, g[p].signature)

(* g is S with fresh claims of the signatures ss, none of which is live in S. *)
ClaimsOf(S, g, t, ss) ==
  /\ \A p \in DOMAIN g : IF g[p].signature \in ss
                         THEN g[p].status = "pending" /\ ~IsExpired(g[p], t)
                         ELSE g[p] \in Range(S)
  /\ \A i \in DOMAIN S : S[i].signature \in ss => IsExpired(S[i], t)

(* What g has of S is in the order of S. *)
InOrder(S, g) ==
  \A i, j \in DOMAIN S, p, q \in DOMAIN g : g[p] = S[i] /\ g[q] = S[j] /\ i < j => p < q

(* h is a claimer's copy of S with the claims ss: nothing that is not      *)
(* expired is missing from it yet.                                         *)
Copy(S, h, t, ss) ==
  /\ OneEach(h) /\ ClaimsOf(S, h, t, ss) /\ InOrder(S, h)
  /\ \A i \in DOMAIN S : S[i] \in Range(h) \/ IsExpired(S[i], t)

(* What has expired stays expired. *)
LEMMA ExpiredForGood ==
  ASSUME NEW r \in Record, NEW t \in Nat, NEW u \in Nat, t <= u, IsExpired(r, t)
  PROVE  IsExpired(r, u)
<1>1. r.time \in Nat /\ r.ttl \in Nat /\ t - r.time > r.ttl /\ r.ttl # NoTtl
  BY DEF IsExpired, Record, Ttls
<1>2. u - r.time > r.ttl
  BY <1>1
<1> QED BY <1>1, <1>2 DEF IsExpired

(* A claim is live when it is made. *)
LEMMA FreshClaim ==
  ASSUME NEW s \in Signature, NEW t \in Nat, NEW ttl \in Ttls, NEW r, r = Pending(s, t, ttl)
  PROVE  /\ r \in Record /\ r.signature = s /\ r.status = "pending" /\ ~IsExpired(r, t)
<1>1. r \in Record /\ r.signature = s /\ r.status = "pending" /\ r.time = t /\ r.ttl = ttl
  BY DEF Pending, Record
<1>2. ttl # NoTtl => ttl \in Nat /\ ~(t - t > ttl)
  BY DEF Ttls
<1> QED BY <1>1, <1>2 DEF IsExpired

(* What is kept is kept when time has passed. *)
LEMMA KeptLater ==
  ASSUME NEW S, OneEach(S), NEW g, NEW ss, NEW t \in Nat, NEW u \in Nat, t <= u,
         KeepsAll(S, g, t, ss)
  PROVE  KeepsAll(S, g, u, ss)
<1>1. \A i \in DOMAIN S : IsExpired(S[i], t) => IsExpired(S[i], u)
  BY Each, ExpiredForGood
<1> QED BY <1>1 DEF KeepsAll

(* The copy just read is one without claims. *)
LEMMA CopyAtFirst ==
  ASSUME NEW S, OneEach(S), NEW t
  PROVE  Copy(S, S, t, {})
<1>1. /\ DOMAIN S = 1 .. Len(S) /\ Len(S) \in Nat
      /\ \A i, j \in 1 .. Len(S) : S[i].signature = S[j].signature => i = j
  BY Each
<1>2. InOrder(S, S)
  BY <1>1 DEF InOrder
<1>3. \A i \in DOMAIN S : S[i] \in Range(S)
  BY DEF Range
<1> QED BY <1>2, <1>3 DEF Copy, ClaimsOf

(* An expired record may be spliced out of the copy ... *)
LEMMA CopyWithout ==
  ASSUME NEW S, NEW h, NEW t, NEW ss, Copy(S, h, t, ss),
         NEW k \in DOMAIN h, IsExpired(h[k], t), NEW g, g = RemoveAt(h, k)
  PROVE  Copy(S, g, t, ss) /\ ~Has(g, h[k].signature)
<1>1. /\ OneEach(g) /\ ~Has(g, h[k].signature)
      /\ \A p \in DOMAIN g : \E i \in DOMAIN h : g[p] = h[i] /\ i = IF p < k THEN p ELSE p + 1
      /\ \A i \in DOMAIN h : i # k => h[i] \in Range(g)
  BY Without DEF Copy
<1>2. ClaimsOf(S, g, t, ss)
  BY <1>1 DEF Copy, ClaimsOf
<1>3. \A i \in DOMAIN S : S[i] \in Range(g) \/ IsExpired(S[i], t)
  <2> SUFFICES ASSUME NEW i \in DOMAIN S, S[i] \in Range(h) PROVE S[i] \in Range(g) \/ IsExpired(S[i], t)
    BY DEF Copy
  <2>1. PICK j \in DOMAIN h : S[i] = h[j]
    BY DEF Range
  <2> QED BY <1>1, <2>1
<1>4. InOrder(S, g)
  <2> SUFFICES ASSUME NEW i \in DOMAIN S, NEW j \in DOMAIN S, NEW p \in DOMAIN g, NEW q \in DOMAIN g,
                      g[p] = S[i], g[q] = S[j], i < j
               PROVE  p < q
    BY DEF InOrder
  <2>1. PICK a \in DOMAIN h : g[p] = h[a] /\ a = IF p < k THEN p ELSE p + 1
    BY <1>1
  <2>2. PICK b \in DOMAIN h : g[q] = h[b] /\ b = IF q < k THEN q ELSE q + 1
    BY <1>1
  <2>3. a < b
    BY <2>1, <2>2 DEF Copy, InOrder
  <2>4. p \in Nat /\ q \in Nat /\ k \in Nat
    BY <1>1, Each DEF Copy
  <2> QED BY <2>1, <2>2, <2>3, <2>4
<1> QED BY <1>1, <1>2, <1>3, <1>4 DEF Copy

(* ... and a task that it does not have may be claimed. *)
LEMMA CopyClaims ==
  ASSUME NEW S, NEW h, NEW t \in Nat, NEW ss, Copy(S, h, t, ss),
         NEW s \in Signature, ~Has(h, s), NEW ttl \in Ttls,
         NEW g, g = <<Pending(s, t, ttl)>> \o h
  PROVE  Copy(S, g, t, ss \cup {s})
<1> DEFINE r == Pending(s, t, ttl)
<1>1. r \in Record /\ r.signature = s /\ r.status = "pending" /\ ~IsExpired(r, t)
  BY FreshClaim
<1>0. OneEach(h) /\ g = <<r>> \o h /\ ~Has(h, r.signature)
  BY <1>1 DEF Copy
<1> HIDE DEF r
<1>2. /\ OneEach(g) /\ g[1] = r
      /\ \A i \in DOMAIN h : i + 1 \in DOMAIN g /\ g[i + 1] = h[i]
      /\ \A i \in DOMAIN g : i # 1 => i - 1 \in DOMAIN h /\ g[i] = h[i - 1]
  <2>0. OneEach(g)
    BY <1>0, <1>1, InFront
  <2>1. g[1] = r
    BY <1>0, <1>1, InFront
  <2>2. \A i \in DOMAIN h : i + 1 \in DOMAIN g /\ g[i + 1] = h[i]
    BY <1>0, <1>1, InFront
  <2>3. \A i \in DOMAIN g : i # 1 => i - 1 \in DOMAIN h /\ g[i] = h[i - 1]
    BY <1>0, <1>1, InFront
  <2> QED BY <2>0, <2>1, <2>2, <2>3
<1>3. \A i \in DOMAIN S : S[i].signature = s => IsExpired(S[i], t)
  <2> SUFFICES ASSUME NEW i \in DOMAIN S, S[i].signature = s, S[i] \in Range(h) PROVE FALSE
    BY DEF Copy
  <2> QED BY DEF Range, Has
<1>4. ClaimsOf(S, g, t, ss \cup {s})
  <2>1. \A i \in DOMAIN h : h[i].signature # s
    BY DEF Has
  <2>2. ASSUME NEW p \in DOMAIN g
        PROVE  IF g[p].signature \in ss \cup {s}
               THEN g[p].status = "pending" /\ ~IsExpired(g[p], t)
               ELSE g[p] \in Range(S)
    <3>1. CASE p = 1
      BY <1>1, <1>2, <3>1
    <3>2. CASE p # 1
      <4>1. PICK i \in DOMAIN h : g[p] = h[i]
        BY <1>2, <3>2
      <4> QED BY <2>1, <4>1 DEF Copy, ClaimsOf
    <3> QED BY <3>1, <3>2
  <2>3. \A i \in DOMAIN S : S[i].signature \in ss \cup {s} => IsExpired(S[i], t)
    BY <1>3 DEF Copy, ClaimsOf
  <2> QED BY <2>2, <2>3 DEF ClaimsOf
<1>5. \A i \in DOMAIN S : S[i] \in Range(g) \/ IsExpired(S[i], t)
  <2> SUFFICES ASSUME NEW i \in DOMAIN S, S[i] \in Range(h) PROVE S[i] \in Range(g)
    BY DEF Copy
  <2>1. PICK j \in DOMAIN h : S[i] = h[j]
    BY DEF Range
  <2>2. j + 1 \in DOMAIN g /\ g[j + 1] = S[i]
    BY <1>2, <2>1
  <2> QED BY <2>2 DEF Range
<1>6. InOrder(S, g)
  <2> SUFFICES ASSUME NEW i \in DOMAIN S, NEW j \in DOMAIN S, NEW p \in DOMAIN g, NEW q \in DOMAIN g,
                      g[p] = S[i], g[q] = S[j], i < j
               PROVE  p < q
    BY DEF InOrder
  <2>1. p # 1 /\ q # 1
    BY <1>1, <1>2, <1>3
  <2>2. /\ p - 1 \in DOMAIN h /\ g[p] = h[p - 1]
        /\ q - 1 \in DOMAIN h /\ g[q] = h[q - 1]
    BY <1>2, <2>1
  <2>3. p - 1 < q - 1
    BY <2>2 DEF Copy, InOrder
  <2>4. p \in Nat /\ q \in Nat
    BY <1>2, Each
  <2> QED BY <2>3, <2>4
<1> QED BY <1>2, <1>4, <1>5, <1>6 DEF Copy

(* What is written of the copy: the claims, and all it has room for. *)
LEMMA CopyWritten ==
  ASSUME NEW S, OneEach(S), NEW h, NEW t, NEW ss, Copy(S, h, t, ss), NEW g, g = Slice(h)
  PROVE  Fits(g) /\ ClaimsOf(S, g, t, ss) /\ KeepsAll(S, g, t, {})
<1>1. /\ Fits(g) /\ Len(g) <= Len(h) /\ (Len(g) < Len(h) => Len(g) = MaxHistory)
      /\ \A i \in DOMAIN g : i \in DOMAIN h /\ g[i] = h[i]
  BY Sliced DEF Copy
<1>2. ClaimsOf(S, g, t, ss)
  BY <1>1 DEF Copy, ClaimsOf
<1>3. /\ DOMAIN g = 1 .. Len(g) /\ DOMAIN h = 1 .. Len(h) /\ Len(g) \in Nat /\ Len(h) \in Nat
      /\ DOMAIN S = 1 .. Len(S) /\ Len(S) \in Nat
      /\ \A i, j \in 1 .. Len(h) : h[i].signature = h[j].signature => i = j
      /\ \A i, j \in 1 .. Len(S) : S[i].signature = S[j].signature => i = j
  BY <1>1, Each DEF Copy, Fits
<1>4. ASSUME NEW i \in DOMAIN S, S[i] \notin Range(g), ~IsExpired(S[i], t) PROVE Cut(S, g, i)
  <2>1. PICK p \in DOMAIN h : h[p] = S[i]
    BY <1>4 DEF Copy, Range
  <2>2. p \notin DOMAIN g
    BY <1>1, <1>4, <2>1 DEF Range
  <2>3. Len(g) < p /\ Len(g) < Len(h)
    BY <1>3, <2>2
  <2>4. ASSUME NEW j \in i .. Len(S), S[j] \in Range(g) PROVE FALSE
    <3>1. PICK q \in DOMAIN g : g[q] = S[j]
      BY <2>4 DEF Range
    <3>2. q \in DOMAIN h /\ h[q] = S[j] /\ q < p /\ j \in DOMAIN S
      BY <1>1, <1>3, <2>3, <3>1
    <3>3. j # i /\ i < j
      BY <1>3, <1>4, <2>4, <3>1 DEF Range
    <3>4. p < q
      BY <2>1, <3>2, <3>3 DEF Copy, InOrder
    <3> QED BY <1>3, <3>2, <3>4
  <2> QED BY <1>1, <2>3, <2>4 DEF Cut
<1> QED BY <1>1, <1>2, <1>4 DEF KeepsAll

(* What was claimed was not live. *)
LEMMA NoneLive ==
  ASSUME NEW S, OneEach(S), NEW g, NEW t, NEW ss, ClaimsOf(S, g, t, ss), NEW s \in ss
  PROVE  ~Live(S, s, t)
<1> SUFFICES ASSUME Has(S, s) PROVE IsExpired(Find(S, s), t)
  BY DEF Live
<1>1. IndexOf(S, s) \in DOMAIN S /\ Find(S, s) = S[IndexOf(S, s)] /\ Find(S, s).signature = s
  BY FoundAt
<1> QED BY <1>1 DEF ClaimsOf

(* A record rewritten leaves the other tasks alone. *)
LEMMA RewrittenKeeps ==
  ASSUME NEW S, Fits(S), NEW s, Has(S, s), NEW r \in Record, r.signature = s,
         NEW g, g = [S EXCEPT ![IndexOf(S, s)] = r], NEW t
  PROVE  Fits(g) /\ AddsNone(S, g) /\ KeepsAll(S, g, t, {s})
<1>1. /\ OneEach(g) /\ Len(g) = Len(S) /\ DOMAIN g = DOMAIN S
      /\ \A i \in DOMAIN S : g[i].signature = S[i].signature
      /\ \A i \in DOMAIN S : S[i].signature # s => g[i] = S[i]
  <2>1. OneEach(S)
    BY DEF Fits
  <2>5. OneEach(g)
    BY <2>1, ReplacedAt
  <2>2. Len(g) = Len(S) /\ DOMAIN g = DOMAIN S
    BY <2>1, ReplacedAt
  <2>3. \A i \in DOMAIN S : g[i].signature = S[i].signature
    BY <2>1, ReplacedAt
  <2>4. \A i \in DOMAIN S : S[i].signature # s => g[i] = S[i]
    BY <2>1, ReplacedAt
  <2> QED BY <2>2, <2>3, <2>4, <2>5
<1>2. Fits(g)
  BY <1>1 DEF Fits
<1>3. AddsNone(S, g)
  BY <1>1 DEF AddsNone, Has
<1>4. \A i \in DOMAIN S : S[i].signature # s => S[i] \in Range(g)
  BY <1>1 DEF Range
<1> QED BY <1>2, <1>3, <1>4 DEF KeepsAll

(* A filtered history adds none, and loses none but what is filtered out. *)
LEMMA FilteredKeeps ==
  ASSUME NEW S, Fits(S), NEW K, NEW g, g = Filter(S, K)
  PROVE  /\ Fits(g) /\ AddsNone(S, g)
         /\ \A i \in DOMAIN S : S[i] \in K => S[i] \in Range(g)
         /\ \A p \in DOMAIN g : g[p] \in K /\ g[p] \in Range(S)
<1>1. OneEach(g) /\ Len(g) <= Len(S) /\ Range(g) = Range(S) \cap K
  BY Filtered DEF Fits
<1>2. Len(g) \in Nat /\ Len(S) \in Nat /\ Len(S) <= MaxHistory /\ MaxHistory \in Nat
  BY <1>1, Each, HistoryAssumption DEF Fits
<1>3. Fits(g)
  BY <1>1, <1>2 DEF Fits
<1>4. \A p \in DOMAIN g : g[p] \in K /\ g[p] \in Range(S)
  BY <1>1 DEF Range
<1>5. \A i \in DOMAIN S : S[i] \in K => S[i] \in Range(g)
  BY <1>1 DEF Range
<1>6. AddsNone(S, g)
  BY <1>4 DEF AddsNone, Has, Range
<1> QED BY <1>3, <1>4, <1>5, <1>6

(* A merge loses nothing but what falls off the end. *)
LEMMA MergedKeeps ==
  ASSUME NEW S, OneEach(S), NEW E, OneEach(E), NEW g,
         g = Slice(Filter(E, Unknown(E, S)) \o S), NEW t, NEW ss
  PROVE  Fits(g) /\ KeepsAll(S, g, t, ss)
<1> DEFINE u == Filter(E, Unknown(E, S))  h == u \o S
<1>1. OneEach(u) /\ Range(u) = Range(E) \cap Unknown(E, S)
  BY Filtered
<1>2. \A i \in DOMAIN u : ~Has(S, u[i].signature)
  BY <1>1 DEF Range, Unknown
<1> HIDE DEF u
<1>0. h = u \o S
  OBVIOUS
<1> HIDE DEF h
<1>3. /\ OneEach(h) /\ Len(h) = Len(u) + Len(S)
      /\ \A i \in DOMAIN S : Len(u) + i \in DOMAIN h /\ h[Len(u) + i] = S[i]
  <2>1. OneEach(h) /\ Len(h) = Len(u) + Len(S)
    BY <1>0, <1>1, <1>2, Joined
  <2>2. \A i \in DOMAIN S : Len(u) + i \in DOMAIN h /\ h[Len(u) + i] = S[i]
    BY <1>0, <1>1, <1>2, Joined
  <2> QED BY <2>1, <2>2
<1>7. g = Slice(h)
  BY DEF h, u
<1>4. /\ Fits(g) /\ Len(g) <= Len(h) /\ (Len(g) < Len(h) => Len(g) = MaxHistory)
      /\ \A i \in DOMAIN g : i \in DOMAIN h /\ g[i] = h[i]
  BY <1>3, <1>7, Sliced
<1>5. /\ DOMAIN g = 1 .. Len(g) /\ DOMAIN h = 1 .. Len(h) /\ Len(g) \in Nat /\ Len(h) \in Nat
      /\ DOMAIN S = 1 .. Len(S) /\ Len(S) \in Nat /\ Len(u) \in Nat
      /\ \A i, j \in 1 .. Len(h) : h[i].signature = h[j].signature => i = j
  BY <1>1, <1>3, <1>4, Each DEF Fits
<1>6. ASSUME NEW i \in DOMAIN S, S[i] \notin Range(g) PROVE Cut(S, g, i)
  <2>1. Len(u) + i \notin DOMAIN g
    BY <1>3, <1>4, <1>6 DEF Range
  <2>2. Len(g) < Len(u) + i /\ Len(g) < Len(h)
    BY <1>3, <1>5, <2>1
  <2>3. ASSUME NEW j \in i .. Len(S), S[j] \in Range(g) PROVE FALSE
    <3>1. PICK q \in DOMAIN g : g[q] = S[j]
      BY <2>3 DEF Range
    <3>2. q \in DOMAIN h /\ h[q] = S[j] /\ j \in DOMAIN S
      BY <1>4, <1>5, <3>1
    <3>3. Len(u) + j \in DOMAIN h /\ h[Len(u) + j] = S[j]
      BY <1>3, <3>2
    <3>4. q = Len(u) + j
      BY <1>5, <3>2, <3>3
    <3> QED BY <1>5, <2>2, <3>1, <3>4
  <2> QED BY <1>4, <2>2, <2>3 DEF Cut
<1> QED BY <1>4, <1>6 DEF KeepsAll

-----------------------------------------------------------------------------
(* Histories of executeOnce alone *)

(* One record for each signature, none of which expires. *)
Distinct(h) ==
  /\ h \in Seq(Record)
  /\ \A i \in DOMAIN h : h[i].ttl = NoTtl
  /\ \A i, j \in DOMAIN h : h[i].signature = h[j].signature => i = j

(* What two histories say of the tasks but s is the same. *)
SameBut(g, h, s) ==
  \A u \in Signature \ {s} :
    /\ Has(g, u) <=> Has(h, u)
    /\ Has(h, u) => Find(g, u) = Find(h, u)

(* The record of a signature is found where it is. *)
LEMMA IndexIs ==
  ASSUME NEW h, Distinct(h), NEW i \in DOMAIN h
  PROVE  IndexOf(h, h[i].signature) = i /\ Find(h, h[i].signature) = h[i]
BY IndexAt DEF Distinct, OneEach

(* What is found of a signature is a record of it. *)
LEMMA Found ==
  ASSUME NEW h, Distinct(h), NEW s, Has(h, s)
  PROVE  /\ IndexOf(h, s) \in DOMAIN h
         /\ Find(h, s) = h[IndexOf(h, s)]
         /\ Find(h, s) \in Record /\ Find(h, s).signature = s /\ Find(h, s).ttl = NoTtl
BY FoundAt DEF Distinct, OneEach

(* A record in front of the others. *)
LEMMA Prepended ==
  ASSUME NEW h, Distinct(h), NEW r \in Record, r.ttl = NoTtl, ~Has(h, r.signature)
  PROVE  /\ Distinct(<<r>> \o h)
         /\ Has(<<r>> \o h, r.signature) /\ Find(<<r>> \o h, r.signature) = r
         /\ SameBut(<<r>> \o h, h, r.signature)
<1> DEFINE g == <<r>> \o h
<1>1. /\ g \in Seq(Record) /\ Len(h) \in Nat /\ Len(g) = Len(h) + 1
      /\ DOMAIN g = 1 .. Len(h) + 1 /\ DOMAIN h = 1 .. Len(h)
      /\ g[1] = r /\ \A i \in 2 .. Len(h) + 1 : g[i] = h[i - 1]
  <2>1. h \in Seq(Record) /\ <<r>> \in Seq(Record) /\ Len(<<r>>) = 1 /\ <<r>>[1] = r
    BY DEF Distinct
  <2>2. /\ g \in Seq(Record) /\ Len(g) = Len(<<r>>) + Len(h)
        /\ \A i \in 1 .. Len(<<r>>) + Len(h) :
             g[i] = IF i <= Len(<<r>>) THEN <<r>>[i] ELSE h[i - Len(<<r>>)]
    BY <2>1, ConcatProperties
  <2>3. Len(h) \in Nat /\ DOMAIN h = 1 .. Len(h) /\ DOMAIN g = 1 .. Len(g)
    BY <2>1, <2>2, LenProperties
  <2> HIDE DEF g
  <2>4. Len(g) = Len(h) + 1
    BY <2>1, <2>2, <2>3
  <2>5. /\ DOMAIN g = 1 .. Len(h) + 1
        /\ \A i \in 1 .. Len(h) + 1 : g[i] = IF i <= 1 THEN <<r>>[i] ELSE h[i - 1]
    BY <2>1, <2>2, <2>3, <2>4
  <2>6. g[1] = r
    BY <2>1, <2>3, <2>5
  <2>7. \A i \in 2 .. Len(h) + 1 : g[i] = h[i - 1]
    BY <2>3, <2>5
  <2> QED BY <2>2, <2>3, <2>4, <2>5, <2>6, <2>7
<1> HIDE DEF g
<1>2. /\ \A i \in DOMAIN g : \/ i = 1 /\ g[i] = r
                             \/ i # 1 /\ i - 1 \in DOMAIN h /\ g[i] = h[i - 1]
      /\ \A i \in DOMAIN h : i + 1 \in DOMAIN g /\ g[i + 1] = h[i]
      /\ DOMAIN g \subseteq Int
  BY <1>1
<1>3. Distinct(g)
  <2>1. /\ \A i \in DOMAIN h : h[i].signature # r.signature /\ h[i].ttl = NoTtl
        /\ \A i, j \in DOMAIN h : h[i].signature = h[j].signature => i = j
    BY DEF Has, Distinct
  <2>2. \A i \in DOMAIN g : g[i].ttl = NoTtl
    BY <1>2, <2>1
  <2>3. ASSUME NEW i \in DOMAIN g, NEW j \in DOMAIN g, g[i].signature = g[j].signature
        PROVE  i = j
    <3>1. CASE i = 1 /\ j = 1
      BY <3>1
    <3>2. CASE i # 1 /\ j # 1
      <4>1. i - 1 = j - 1
        BY <1>2, <2>1, <2>3, <3>2
      <4> QED BY <1>2, <4>1
    <3>3. CASE i = 1 /\ j # 1
      BY <1>2, <2>1, <2>3, <3>3
    <3>4. CASE i # 1 /\ j = 1
      BY <1>2, <2>1, <2>3, <3>4
    <3> QED BY <3>1, <3>2, <3>3, <3>4
  <2> QED BY <1>1, <2>2, <2>3 DEF Distinct
<1>4. Has(g, r.signature) /\ Find(g, r.signature) = r
  BY <1>1, <1>3, IndexIs DEF Has
<1>5. ASSUME NEW u \in Signature \ {r.signature}
      PROVE  /\ Has(g, u) <=> Has(h, u)
             /\ Has(h, u) => Find(g, u) = Find(h, u)
  <2>1. Has(g, u) => Has(h, u)
    BY <1>2, <1>5 DEF Has
  <2>2. ASSUME NEW i \in DOMAIN h, h[i].signature = u
        PROVE  Has(g, u) /\ Find(g, u) = Find(h, u)
    <3>1. i + 1 \in DOMAIN g /\ g[i + 1] = h[i]
      BY <1>2
    <3> QED BY <1>3, <2>2, <3>1, IndexIs DEF Has
  <2> QED BY <2>1, <2>2 DEF Has
<1> QED BY <1>3, <1>4, <1>5 DEF g, SameBut

(* A record in the place of an older one of its task. *)
LEMMA Replaced ==
  ASSUME NEW h, Distinct(h), NEW s, Has(h, s),
         NEW r \in Record, r.signature = s, r.ttl = NoTtl,
         NEW g, g = [h EXCEPT ![IndexOf(h, s)] = r]
  PROVE  Distinct(g) /\ Has(g, s) /\ Find(g, s) = r /\ SameBut(g, h, s)
<1> DEFINE k == IndexOf(h, s)
<1>1. k \in DOMAIN h /\ h[k].signature = s
  BY Found
<1>2. /\ g \in Seq(Record) /\ DOMAIN g = DOMAIN h
      /\ \A j \in DOMAIN h : g[j] = IF j = k THEN r ELSE h[j]
  BY <1>1, ExceptSeq, LenProperties DEF Distinct
<1> HIDE DEF k
<1>3. \A j \in DOMAIN h : g[j].signature = h[j].signature
  BY <1>1, <1>2
<1>4. Distinct(g)
  BY <1>2, <1>3 DEF Distinct
<1>5. Has(g, s) /\ Find(g, s) = r
  BY <1>1, <1>2, <1>4, IndexIs DEF Has
<1>6. ASSUME NEW u \in Signature \ {s}
      PROVE  /\ Has(g, u) <=> Has(h, u)
             /\ Has(h, u) => Find(g, u) = Find(h, u)
  <2>1. Has(g, u) <=> Has(h, u)
    BY <1>2, <1>3 DEF Has
  <2>2. ASSUME NEW i \in DOMAIN h, h[i].signature = u
        PROVE  Find(g, u) = Find(h, u)
    <3>1. i # k /\ g[i] = h[i]
      BY <1>1, <1>2, <1>6, <2>2
    <3>2. Find(g, g[i].signature) = g[i] /\ Find(h, h[i].signature) = h[i]
      BY <1>2, <1>4, <2>2, IndexIs
    <3> QED BY <2>2, <3>1, <3>2
  <2> QED BY <2>1, <2>2 DEF Has
<1> QED BY <1>4, <1>5, <1>6 DEF SameBut

(* There is room: nothing is cut off. *)
LEMMA NothingIsCut ==
  ASSUME OnceAlone, NEW h, Distinct(h)
  PROVE  Slice(h) = h
<1> DEFINE n == Len(h)
           f == [i \in 1 .. n |-> h[i].signature]
<1>1. n \in Nat /\ DOMAIN h = 1 .. n /\ \A i \in 1 .. n : h[i] \in Record
  BY LenProperties, ElementOfSeq DEF Distinct
<1>2. f \in [1 .. n -> Signature] /\ \A i, j \in 1 .. n : f[i] = f[j] => i = j
  BY <1>1 DEF Record, Distinct
<1>3. f \in Injection(1 .. n, Signature)
  BY <1>2, Fun_IsInj
<1>4. Cardinality(1 .. n) <= Cardinality(Signature)
  BY <1>3, FS_Injection DEF OnceAlone
<1>5. Cardinality(1 .. n) = n
  BY <1>1, FS_Interval
<1>6. n <= MaxHistory
  <2>1. Cardinality(Signature) \in Nat
    BY FS_CardinalityType DEF OnceAlone
  <2> QED BY <1>1, <1>4, <1>5, <2>1, HistoryAssumption DEF OnceAlone
<1>7. SubSeq(h, 1, n) = h
  BY SubSeqFull DEF Distinct
<1>8. (IF n < MaxHistory THEN n ELSE MaxHistory) = n
  <2>1. n \in Nat /\ n <= MaxHistory /\ MaxHistory \in Nat
    BY <1>1, <1>6, HistoryAssumption
  <2> HIDE DEF n
  <2> QED BY <2>1
<1> QED BY <1>7, <1>8 DEF Slice

-----------------------------------------------------------------------------
(* The invariant *)

AtWork(c) == pc[c] \in Body \cup {"leaving"}

OneAtWork == \A a, b \in Call : AtWork(a) /\ AtWork(b) => a = b

TypeInv ==
  /\ now \in 0 .. MaxTime
  /\ pc \in [Call -> Where]
  /\ op \in [Call -> Op \cup {NoOp}]
  /\ local \in [Call -> AgentState]
  /\ at \in [Call -> 0 .. MaxTime]
  /\ todo \in [Call -> Seq(Signature)]
  /\ claimed \in [Call -> SUBSET Signature]
  /\ outcome \in [Call -> {"none", "returned", "threw"}]
  /\ result \in [Call -> Value \cup {Undefined}]

Unanswered(c) == outcome[c] = "none" /\ result[c] = Undefined
Mine(c, d) == Find(d.history, SignatureIn(c))

(* The copy is the diary with a claim of a task it does not have. *)
Prepares(c, d) ==
  /\ claimed[c] = {SignatureIn(c)}
  /\ ~Has(d.history, SignatureIn(c))
  /\ local[c].history = <<Pending(SignatureIn(c), at[c], NoTtl)>> \o d.history

(* The copy is the diary with the record r for the task of the call. *)
Rewrites(c, d, r) ==
  local[c].history = [d.history EXCEPT ![IndexOf(d.history, SignatureIn(c))] = r]

ExecutingAt == {"running", "ran", "failed", "saveResult", "saveFailure"}

(* What is so of a call, stage by stage. *)
StageInv(c, d) ==
  /\ pc[c] \notin {"notifying", "save", "reporting"}
  /\ IF pc[c] = "idle" THEN op[c] = NoOp ELSE op[c] \in Op
  /\ pc[c] \notin {"idle", "done"} => op[c].kind \notin ReadKinds
  /\ pc[c] = "done" /\ op[c].kind \in ReadKinds => claimed[c] = {}
  /\ pc[c] \in {"idle", "waiting", "locked"} => Unanswered(c) /\ claimed[c] = {}
  /\ pc[c] = "claiming" =>
       /\ Unanswered(c)
       /\ \/ todo[c] = <<SignatureIn(c)>> /\ claimed[c] = {} /\ local[c] = d
          \/ todo[c] = <<>> /\ Prepares(c, d)
  /\ pc[c] = "saveClaim" => Unanswered(c) /\ Prepares(c, d)
  /\ pc[c] \in ExecutingAt =>
       /\ Unanswered(c) /\ claimed[c] = {SignatureIn(c)}
       /\ Has(d.history, SignatureIn(c))
       /\ Mine(c, d).status = "pending" /\ Mine(c, d).result = Undefined
  /\ pc[c] = "saveResult" =>
       \E t \in 0 .. MaxTime :
         Rewrites(c, d, Completed(Mine(c, d), Stringified(Returned(c)), t, NoTtl))
  /\ pc[c] = "saveFailure" =>
       \E t \in 0 .. MaxTime : Rewrites(c, d, Failed(Mine(c, d), t))
  /\ pc[c] \in {"leaving", "done", "crashed"} =>
       \/ claimed[c] = {}
       \/ claimed[c] = {SignatureIn(c)} /\ Has(d.history, SignatureIn(c))
  /\ pc[c] \in {"leaving", "done"} =>
       /\ outcome[c] # "none"
       /\ claimed[c] # {} /\ outcome[c] = "returned" =>
            result[c] = Returned(c) /\ Mine(c, d).result = Stringified(Returned(c))

(* A pending record is that of a call that is about to settle it. *)
PendingInv(d) ==
  \A s \in Signature :
    Has(d.history, s) /\ Find(d.history, s).status = "pending"
    => \E c \in Call : Executing(c) /\ SignatureIn(c) = s

DiaryInv(d) ==
  /\ TypeInv /\ OneAtWork
  /\ d \in AgentState /\ Distinct(d.history)
  /\ \A c \in Call : StageInv(c, d)
  /\ AtMostOnce
  /\ Fault \subseteq {"fn"} => PendingInv(d)

-----------------------------------------------------------------------------
(* What a call that has begun, and is not a read, is about. *)
LEMMA OnceOp ==
  ASSUME OnceAlone, NEW d, TypeInv, NEW c \in Call, StageInv(c, d), pc[c] # "idle",
         op[c].kind \notin ReadKinds
  PROVE  /\ op[c] \in Op /\ op[c].kind = "executeOnce"
         /\ SignatureIn(c) \in Signature
         /\ op[c].titles = <<op[c].titles[1]>>
         /\ Ttl(op[c]) = NoTtl
<1>1. op[c] \in Op
  BY DEF StageInv
<1>2. op[c].kind = "executeOnce" /\ Len(op[c].titles) = 1 /\ op[c].ttl = NoTtl
  BY <1>1 DEF OnceAlone
<1>3. op[c].titles \in Seq(Title)
  BY <1>1, OpAssumption DEF OpRecord
<1>4. op[c].titles[1] \in Title /\ op[c].titles = <<op[c].titles[1]>>
  BY <1>2, <1>3
<1>5. SignatureIn(c) \in Signature
  BY <1>4, SignatureAssumption DEF SignatureIn
<1>6. Ttl(op[c]) = NoTtl
  BY <1>2 DEF Ttl, OnceAlone
<1> QED BY <1>1, <1>2, <1>4, <1>5, <1>6

(* Who is at work is at work on an executeOnce. *)
LEMMA WorkIs ==
  ASSUME OnceAlone, NEW d, DiaryInv(d), NEW c \in Call, AtWork(c)
  PROVE  /\ op[c] \in Op /\ op[c].kind = "executeOnce" /\ op[c].kind \notin ReadKinds
         /\ SignatureIn(c) \in Signature
         /\ op[c].titles = <<op[c].titles[1]>>
         /\ Ttl(op[c]) = NoTtl
         /\ StageInv(c, d) /\ pc[c] \notin {"idle", "waiting", "done"}
<1>1. pc[c] \notin {"idle", "waiting", "done"}
  BY DEF AtWork, Body, Steps
<1>2. StageInv(c, d) /\ TypeInv /\ op[c].kind \notin ReadKinds
  BY <1>1 DEF DiaryInv, StageInv
<1> QED BY <1>1, <1>2, OnceOp

(* The empty diary is a diary; what a function returns is a value. *)
LEMMA Data ==
  /\ EmptyState \in AgentState
  /\ \A c \in Call : Returned(c) \in Value /\ Stringified(Returned(c)) \in Value
<1>1. EmptyState \in AgentState
  BY DEF EmptyState, AgentState
<1>2. ASSUME NEW c \in Call
      PROVE  Returned(c) \in Value /\ Stringified(Returned(c)) \in Value
  BY DEF Returned, Stringified, Value, Forms
<1> QED BY <1>1, <1>2

(* Claims and what becomes of them are records without a TTL. *)
LEMMA PendingIsRecord ==
  ASSUME NEW s \in Signature, NEW t \in 0 .. MaxTime
  PROVE  /\ Pending(s, t, NoTtl) \in Record
         /\ Pending(s, t, NoTtl).signature = s /\ Pending(s, t, NoTtl).ttl = NoTtl
         /\ Pending(s, t, NoTtl).status = "pending"
         /\ Pending(s, t, NoTtl).result = Undefined
BY TimeAssumption DEF Pending, Record, Ttls

(* ... whether they complete or fail. *)
LEMMA SettledIsRecord ==
  ASSUME NEW r \in Record, r.ttl = NoTtl, NEW v \in Value, NEW t \in 0 .. MaxTime
  PROVE  /\ Completed(r, v, t, NoTtl) \in Record
         /\ Completed(r, v, t, NoTtl).signature = r.signature
         /\ Completed(r, v, t, NoTtl).ttl = NoTtl
         /\ Completed(r, v, t, NoTtl).status = "done"
         /\ Completed(r, v, t, NoTtl).result = v
         /\ Failed(r, t) \in Record
         /\ Failed(r, t).signature = r.signature
         /\ Failed(r, t).ttl = NoTtl
         /\ Failed(r, t).status = "failed"
         /\ Failed(r, t).result = r.result
<1>1. t \in Nat
  BY TimeAssumption
<1>2. Completed(r, v, t, NoTtl) = [r EXCEPT !.result = v, !.status = "done", !.time = t]
  BY DEF Completed, Record
<1>3. Failed(r, t) \in Record
  BY <1>1 DEF Failed, Record
<1>4. /\ Failed(r, t).signature = r.signature /\ Failed(r, t).ttl = NoTtl
      /\ Failed(r, t).status = "failed" /\ Failed(r, t).result = r.result
  BY DEF Failed, Record
<1>5. Completed(r, v, t, NoTtl) \in Record
  BY <1>1, <1>2 DEF Record
<1>6. /\ Completed(r, v, t, NoTtl).signature = r.signature
      /\ Completed(r, v, t, NoTtl).ttl = NoTtl
      /\ Completed(r, v, t, NoTtl).status = "done"
      /\ Completed(r, v, t, NoTtl).result = v
  BY <1>2 DEF Record
<1> QED BY <1>3, <1>4, <1>5, <1>6

-----------------------------------------------------------------------------
(* A step of c leaves the other calls alone ... *)
Apart(c) ==
  \A b \in Call \ {c} :
    /\ pc'[b] = pc[b] /\ op'[b] = op[b] /\ local'[b] = local[b] /\ at'[b] = at[b]
    /\ todo'[b] = todo[b] /\ claimed'[b] = claimed[b]
    /\ outcome'[b] = outcome[b] /\ result'[b] = result[b]

(* ... and the diary, or changes it for its own task, which nobody else    *)
(* has run.                                                                *)
Touches(c, d, e) ==
  \/ e = d
  \/ /\ AtWork(c) /\ SameBut(e.history, d.history, SignatureIn(c))
     /\ HasRun(c) \/ ~Has(d.history, SignatureIn(c))

(* It begins to run a task only if that has no record. *)
Begins(c, d) ==
  HasRun(c)' => /\ SignatureIn(c)' = SignatureIn(c)
                /\ HasRun(c) \/ (AtWork(c) /\ ~Has(d.history, SignatureIn(c)))

(* When it is in the diary that a task is pending, its runner is there. *)
Settles(c, d, e) ==
  /\ Executing(c) /\ ~Executing(c)' => Find(e.history, SignatureIn(c)).status # "pending"
  /\ \/ e.history = d.history
     \/ Find(e.history, SignatureIn(c)).status = "pending" => Executing(c)'

(* What a step of c has to do, for the diary d to become e. *)
Keeps(c, d, e) ==
  /\ Apart(c) /\ Touches(c, d, e) /\ Begins(c, d)
  /\ TypeInv' /\ e \in AgentState /\ Distinct(e.history) /\ StageInv(c, e)'
  /\ AtWork(c) => op'[c] = op[c]
  /\ AtWork(c)' => \A b \in Call \ {c} : ~AtWork(b)
  /\ Fault \subseteq {"fn"} => Settles(c, d, e)

(* Who has run has a record. *)
LEMMA RunnersHaveRecords ==
  ASSUME NEW d, TypeInv, NEW c \in Call, StageInv(c, d), HasRun(c)
  PROVE  /\ claimed[c] = {SignatureIn(c)} /\ Has(d.history, SignatureIn(c))
         /\ SignatureIn(c) \in Signature
<1>1. pc[c] \notin {"claiming", "notifying", "saveClaim"} /\ claimed[c] # {}
  BY DEF HasRun, ClaimWritten
<1>2. pc[c] \in {"idle", "waiting", "locked", "leaving", "done", "crashed"} \cup ExecutingAt
  BY <1>1 DEF TypeInv, StageInv, Where, Body, Steps, ExecutingAt
<1>3. claimed[c] = {SignatureIn(c)} /\ Has(d.history, SignatureIn(c))
  <2>1. CASE pc[c] \in ExecutingAt
    BY <2>1 DEF StageInv
  <2>2. CASE pc[c] \in {"leaving", "done", "crashed"}
    BY <1>1, <2>2 DEF StageInv
  <2>3. CASE pc[c] \in {"idle", "waiting", "locked"}
    BY <1>1, <2>3 DEF StageInv
  <2> QED BY <1>2, <2>1, <2>2, <2>3
<1> QED BY <1>3 DEF TypeInv

(* A stage depends on the call's own variables and on the diary. *)
LEMMA StageStays ==
  ASSUME NEW d, NEW c \in Call, StageInv(c, d),
         pc'[c] = pc[c], op'[c] = op[c], local'[c] = local[c], at'[c] = at[c],
         todo'[c] = todo[c], claimed'[c] = claimed[c],
         outcome'[c] = outcome[c], result'[c] = result[c]
  PROVE  StageInv(c, d)'
<1>1. SignatureIn(c)' = SignatureIn(c)
  BY DEF SignatureIn
<1>2. Mine(c, d)' = Mine(c, d)
  BY <1>1 DEF Mine
<1>3. (Unanswered(c)' <=> Unanswered(c)) /\ (Prepares(c, d)' <=> Prepares(c, d))
  BY <1>1 DEF Unanswered, Prepares
<1>4. \A r : Rewrites(c, d, r)' <=> Rewrites(c, d, r)
  BY <1>1 DEF Rewrites
<1> QED BY <1>1, <1>2, <1>3, <1>4 DEF StageInv

(* ... on which those outside their bodies depend for their own task only. *)
LEMMA StageOfOthers ==
  ASSUME NEW d, NEW e, NEW b \in Call, StageInv(b, d), ~AtWork(b), TypeInv,
         claimed[b] # {} => /\ Has(e.history, SignatureIn(b))
                            /\ Find(e.history, SignatureIn(b)) = Find(d.history, SignatureIn(b))
  PROVE  StageInv(b, e)
<1>1. pc[b] \in {"idle", "waiting", "done", "crashed"}
  BY DEF TypeInv, Where, AtWork
<1>2. claimed[b] # {} => Mine(b, e) = Mine(b, d)
  BY DEF Mine
<1> QED BY <1>1, <1>2 DEF StageInv, ExecutingAt

(* Who has a claim outside its body has run. *)
LEMMA ClaimersHaveRun ==
  ASSUME OnceAlone, NEW d, NEW b \in Call, StageInv(b, d), ~AtWork(b), TypeInv,
         claimed[b] # {}
  PROVE  HasRun(b)
<1>1. pc[b] \in {"done", "crashed"}
  BY DEF TypeInv, Where, AtWork, StageInv
<1>2. op[b].kind \notin ReadKinds
  BY <1>1 DEF StageInv
<1> QED BY <1>1, <1>2, OnceOp DEF HasRun, ClaimWritten

(* Such a step keeps the invariant. *)
LEMMA StepKeeps ==
  ASSUME OnceAlone, NEW d, NEW e, DiaryInv(d), NEW c \in Call, Keeps(c, d, e)
  PROVE  DiaryInv(e)'
<1> USE DEF DiaryInv
<1>1. \A b \in Call \ {c} :
        /\ SignatureIn(b)' = SignatureIn(b)
        /\ (HasRun(b)' <=> HasRun(b)) /\ (Executing(b)' <=> Executing(b))
        /\ (AtWork(b)' <=> AtWork(b))
  BY DEF Keeps, Apart, SignatureIn, HasRun, ClaimWritten, Executing, AtWork
<1>2. OneAtWork'
  <2>1. AtWork(c)' => \A b \in Call \ {c} : ~AtWork(b)
    BY DEF Keeps
  <2> QED BY <1>1, <2>1 DEF OneAtWork
<1>3. ASSUME NEW b \in Call \ {c}, HasRun(b)
      PROVE  /\ claimed[b] = {SignatureIn(b)} /\ SignatureIn(b) \in Signature
             /\ Has(e.history, SignatureIn(b))
             /\ Find(e.history, SignatureIn(b)) = Find(d.history, SignatureIn(b))
             /\ HasRun(c)' => SignatureIn(c) # SignatureIn(b)
  <2>1. /\ claimed[b] = {SignatureIn(b)} /\ Has(d.history, SignatureIn(b))
        /\ SignatureIn(b) \in Signature
    BY <1>3, RunnersHaveRecords
  <2>2. HasRun(c) \/ ~Has(d.history, SignatureIn(c)) => SignatureIn(c) # SignatureIn(b)
    BY <1>3, <2>1 DEF AtMostOnce
  <2>3. CASE e = d
    BY <2>1, <2>2, <2>3 DEF Keeps, Begins
  <2>4. CASE e # d
    BY <2>1, <2>2, <2>4 DEF Keeps, Begins, Touches, SameBut
  <2> QED BY <2>3, <2>4
<1>4. \A b \in Call : StageInv(b, e)'
  <2> SUFFICES ASSUME NEW b \in Call \ {c} PROVE StageInv(b, e)'
    BY DEF Keeps
  <2>1. StageInv(b, e)
    <3>1. CASE e = d
      BY <3>1
    <3>2. CASE e # d
      <4>1. ~AtWork(b)
        BY <3>2 DEF Keeps, Touches, OneAtWork
      <4> QED BY <1>3, <4>1, ClaimersHaveRun, StageOfOthers
    <3> QED BY <3>1, <3>2
  <2> QED BY <2>1, StageStays DEF Keeps, Apart
<1>5. AtMostOnce'
  <2> SUFFICES ASSUME NEW a \in Call, NEW b \in Call, HasRun(a)', HasRun(b)',
                      SignatureIn(a)' = SignatureIn(b)'
               PROVE  a = b
    BY DEF AtMostOnce
  <2>1. HasRun(c)' => SignatureIn(c)' = SignatureIn(c)
    BY DEF Keeps, Begins
  <2>2. CASE a # c /\ b # c
    BY <1>1, <2>2 DEF AtMostOnce
  <2>3. CASE a = c /\ b # c
    BY <1>1, <1>3, <2>1, <2>3
  <2>4. CASE a # c /\ b = c
    BY <1>1, <1>3, <2>1, <2>4
  <2> QED BY <2>2, <2>3, <2>4
<1>6. ASSUME Fault \subseteq {"fn"} PROVE PendingInv(e)'
  <2> SUFFICES ASSUME NEW s \in Signature, Has(e.history, s),
                      Find(e.history, s).status = "pending"
               PROVE  \E b \in Call : Executing(b)' /\ SignatureIn(b)' = s
    BY DEF PendingInv
  <2>1. Settles(c, d, e) /\ PendingInv(d) /\ Touches(c, d, e)
    BY <1>6 DEF Keeps
  <2>2. Executing(c) \/ e # d => SignatureIn(c)' = SignatureIn(c)
    <3>1. Executing(c) \/ e # d => AtWork(c)
      BY <2>1 DEF Touches, Executing, AtWork, Body, Steps
    <3> QED BY <3>1 DEF Keeps, SignatureIn
  <2>3. CASE Has(d.history, s) /\ Find(d.history, s) = Find(e.history, s)
    <3>1. PICK b \in Call : Executing(b) /\ SignatureIn(b) = s
      BY <2>1, <2>3 DEF PendingInv
    <3>2. CASE b # c
      BY <1>1, <3>1, <3>2
    <3>3. CASE b = c
      BY <2>1, <2>2, <3>1, <3>3 DEF Settles
    <3> QED BY <3>2, <3>3
  <2>4. CASE ~(Has(d.history, s) /\ Find(d.history, s) = Find(e.history, s))
    <3>1. e.history # d.history /\ e # d
      BY <2>4
    <3>2. s = SignatureIn(c)
      BY <2>1, <2>4, <3>1 DEF Touches, SameBut
    <3> QED BY <2>1, <2>2, <3>1, <3>2 DEF Settles
  <2> QED BY <2>3, <2>4
<1> QED BY <1>2, <1>4, <1>5, <1>6 DEF Keeps

-----------------------------------------------------------------------------
(* The steps of a body, one by one. *)

(* A body that settles leaves nothing behind but its answer. *)
LEMMA SettleStep ==
  ASSUME TypeInv, NEW c \in Call, NEW how \in {"returned", "threw"},
         NEW v \in Value \cup {Undefined}, Settle(c, how, v)
  PROVE  /\ pc' = [pc EXCEPT ![c] = "leaving"] /\ pc'[c] = "leaving"
         /\ outcome'[c] = how /\ result'[c] = v
         /\ outcome' \in [Call -> {"none", "returned", "threw"}]
         /\ result' \in [Call -> Value \cup {Undefined}]
         /\ local' \in [Call -> AgentState] /\ at' \in [Call -> 0 .. MaxTime]
         /\ todo' \in [Call -> Seq(Signature)]
         /\ \A b \in Call \ {c} :
              /\ pc'[b] = pc[b] /\ local'[b] = local[b] /\ at'[b] = at[b]
              /\ todo'[b] = todo[b] /\ outcome'[b] = outcome[b] /\ result'[b] = result[b]
<1>1. /\ pc' = [pc EXCEPT ![c] = "leaving"]
      /\ outcome' = [outcome EXCEPT ![c] = how]
      /\ result' = [result EXCEPT ![c] = v]
      /\ local' = [local EXCEPT ![c] = EmptyState]
      /\ at' = [at EXCEPT ![c] = 0]
      /\ todo' = [todo EXCEPT ![c] = <<>>]
  BY DEF Settle, Goto
<1>2. EmptyState \in AgentState /\ 0 \in 0 .. MaxTime /\ <<>> \in Seq(Signature)
  BY Data, TimeAssumption
<1> HIDE DEF EmptyState
<1> QED BY <1>1, <1>2 DEF TypeInv

(* What a step of c inside its body has to do beyond what its stage says:  *)
(* the others are not at work, and the operation stays.                    *)
LEMMA InBody ==
  ASSUME NEW d, NEW e, DiaryInv(d), NEW c \in Call, AtWork(c),
         Apart(c), TypeInv', UNCHANGED op, StageInv(c, e)',
         e \in AgentState, Distinct(e.history), Touches(c, d, e),
         HasRun(c)' => HasRun(c) \/ ~Has(d.history, SignatureIn(c)),
         Fault \subseteq {"fn"} => Settles(c, d, e)
  PROVE  Keeps(c, d, e)
<1>1. \A b \in Call \ {c} : ~AtWork(b)
  BY DEF DiaryInv, OneAtWork
<1>2. Begins(c, d)
  BY DEF Begins, SignatureIn
<1> QED BY <1>1, <1>2 DEF Keeps

(* Settling without a write, by a call that has not run or has failed. *)
LEMMA SettleKeeps ==
  ASSUME OnceAlone, NEW d, DiaryInv(d), NEW c \in Call, pc[c] \in Body,
         NEW how \in {"returned", "threw"}, NEW v \in Value \cup {Undefined},
         Settle(c, how, v), UNCHANGED <<now, op>>,
         \/ claimed' = claimed /\ (claimed[c] = {} \/ (HasRun(c) /\ how = "threw"))
         \/ claimed' = [claimed EXCEPT ![c] = {}],
         Fault \subseteq {"fn"} => ~Executing(c)
  PROVE  Keeps(c, d, d)
<1> USE DEF DiaryInv
<1>0. AtWork(c) /\ op[c].kind \notin ReadKinds /\ op[c] \in Op
  BY WorkIs DEF AtWork
<1>1. /\ pc' \in [Call -> Where] /\ claimed' \in [Call -> SUBSET Signature]
      /\ claimed'[c] \in {claimed[c], {}}
      /\ \A b \in Call \ {c} : claimed'[b] = claimed[b]
  <2>1. pc' = [pc EXCEPT ![c] = "leaving"]
    BY SettleStep
  <2> QED BY <2>1 DEF TypeInv, Where
<1>2. TypeInv' /\ Apart(c)
  BY <1>1, SettleStep DEF TypeInv, Apart
<1>3. pc'[c] = "leaving" /\ outcome'[c] = how
  BY SettleStep
<1>4. HasRun(c) => claimed[c] = {SignatureIn(c)} /\ Has(d.history, SignatureIn(c))
  BY RunnersHaveRecords
<1>5. StageInv(c, d)'
  <2>1. SignatureIn(c)' = SignatureIn(c)
    BY DEF SignatureIn
  <2>2. \/ claimed'[c] = {}
        \/ /\ claimed'[c] = {SignatureIn(c)} /\ Has(d.history, SignatureIn(c))
           /\ how = "threw"
    BY <1>1, <1>4 DEF TypeInv
  <2> QED BY <1>0, <1>3, <2>1, <2>2 DEF StageInv, ExecutingAt
<1>6. HasRun(c)' => HasRun(c)
  BY <1>1, <1>3 DEF HasRun, ClaimWritten, TypeInv
<1>7. Settles(c, d, d) \/ ~(Fault \subseteq {"fn"})
  BY DEF Settles
<1> QED BY <1>0, <1>2, <1>5, <1>6, <1>7, InBody DEF Touches

(* What a body reads is what is stored. *)
LEMMA ReadIs ==
  ASSUME ReadsTrue, NEW st \in Readings, ReadDiary(st)
  PROVE  st = store
BY DEF ReadsTrue, Readings, ReadDiary

(* The read makes the copy the diary. *)
LEMMA ReadForClaimKeeps ==
  ASSUME OnceAlone, ReadsTrue, NEW d, store = d, DiaryInv(d), NEW c \in Call,
         ReadForClaim(c)
  PROVE  Keeps(c, d, d)
<1> USE DEF DiaryInv
<1> DEFINE s == SignatureIn(c)
<1>1. pc[c] = "locked" /\ AtWork(c)
  BY DEF ReadForClaim, AtWork, Body
<1>2. /\ s \in Signature /\ op[c].titles = <<op[c].titles[1]>>
      /\ op[c] \in Op /\ op[c].kind \notin ReadKinds
      /\ Unanswered(c) /\ claimed[c] = {}
  BY <1>1, WorkIs DEF StageInv
<1>3. /\ local' = [local EXCEPT ![c] = d]
      /\ at' = [at EXCEPT ![c] = now]
      /\ pc' = [pc EXCEPT ![c] = "claiming"]
      /\ UNCHANGED <<now, op, claimed, outcome, result>>
  BY ReadIs DEF ReadForClaim, Goto, stored, answer
<1>4. todo' = [todo EXCEPT ![c] = <<s>>]
  <2> DEFINE ts == op[c].titles
             f == [i \in DOMAIN ts |-> SignatureOf[ts[i]]]
  <2>1. f = <<s>>
    <3>1. DOMAIN ts = {1}
      BY <1>2
    <3>2. f = [i \in {1} |-> s]
      BY <3>1 DEF SignatureIn
    <3> QED BY <3>2
  <2> QED BY <2>1 DEF ReadForClaim
<1> HIDE DEF s
<1>5. TypeInv' /\ Apart(c)
  <2>1. <<s>> \in Seq(Signature)
    BY <1>2
  <2> QED BY <1>1, <1>3, <1>4, <2>1 DEF TypeInv, Apart, Where, Body, Steps
<1>6. pc'[c] = "claiming"
  BY <1>3 DEF TypeInv
<1>7. StageInv(c, d)'
  <2>1. SignatureIn(c)' = s
    BY <1>3 DEF SignatureIn, s
  <2>2. todo'[c] = <<s>> /\ local'[c] = d /\ claimed'[c] = {} /\ Unanswered(c)'
    BY <1>2, <1>3, <1>4 DEF TypeInv, Unanswered
  <2> QED BY <1>2, <1>3, <1>6, <2>1, <2>2 DEF StageInv, ExecutingAt
<1>8. ~HasRun(c)' /\ ~Executing(c)
  BY <1>1, <1>6 DEF HasRun, ClaimWritten, Executing
<1> QED BY <1>1, <1>3, <1>5, <1>7, <1>8, InBody DEF Touches, Settles

(* A record in the diary is live: it answers, and none is replaced. *)
LEMMA LiveIfThere ==
  ASSUME NEW d, Distinct(d.history), NEW s, NEW t, Has(d.history, s)
  PROVE  Live(d.history, s, t)
BY Found DEF Live, IsExpired

(* A call that still has to look for its task works on the diary. *)
LEMMA StillToClaim ==
  ASSUME NEW d, NEW c \in Call, StageInv(c, d), pc[c] = "claiming", todo[c] # <<>>
  PROVE  /\ Unanswered(c) /\ claimed[c] = {} /\ local[c] = d
         /\ todo[c] = <<SignatureIn(c)>>
         /\ Head(todo[c]) = SignatureIn(c) /\ Tail(todo[c]) = <<>>
<1>1. /\ Unanswered(c) /\ claimed[c] = {} /\ local[c] = d
      /\ todo[c] = <<SignatureIn(c)>>
  BY DEF StageInv
<1>2. \A s : Head(<<s>>) = s /\ Tail(<<s>>) = <<>>
  OBVIOUS
<1> QED BY <1>1, <1>2

(* A record that is there answers the call, and nothing is written. *)
LEMMA SkipLiveKeeps ==
  ASSUME OnceAlone, NEW d, DiaryInv(d), NEW c \in Call, SkipLive(c)
  PROVE  Keeps(c, d, d)
<1> USE DEF DiaryInv
<1>1. pc[c] = "claiming" /\ todo[c] # <<>> /\ pc[c] \in Body /\ ~Executing(c)
  BY DEF SkipLive, Body, Steps, Executing
<1>2. /\ claimed[c] = {} /\ local[c] = d /\ Head(todo[c]) = SignatureIn(c)
  BY <1>1, StillToClaim
<1>3. op[c].kind = "executeOnce"
  BY <1>1, WorkIs DEF AtWork
<1>4. /\ Settle(c, "returned", Find(d.history, SignatureIn(c)).result)
      /\ Has(d.history, SignatureIn(c))
      /\ UNCHANGED <<now, op, claimed>>
  BY <1>2, <1>3 DEF SkipLive, Live, shared, stored
<1>5. Find(d.history, SignatureIn(c)).result \in Value \cup {Undefined}
  BY <1>4, Found DEF Record
<1> QED BY <1>1, <1>2, <1>4, <1>5, SettleKeeps

(* The claim of a task without a record goes in front of the copy. *)
LEMMA ClaimNewKeeps ==
  ASSUME OnceAlone, NEW d, DiaryInv(d), NEW c \in Call, ClaimNew(c)
  PROVE  Keeps(c, d, d)
<1> USE DEF DiaryInv
<1> DEFINE s == SignatureIn(c)
           h == d.history
           r == Pending(s, at[c], NoTtl)
<1>1. pc[c] = "claiming" /\ todo[c] # <<>> /\ AtWork(c)
  BY DEF ClaimNew, AtWork, Body, Steps
<1>2. /\ Unanswered(c) /\ todo[c] = <<s>> /\ claimed[c] = {} /\ local[c] = d
      /\ Head(todo[c]) = s /\ Tail(todo[c]) = <<>>
  BY <1>1, StillToClaim
<1>3. /\ s \in Signature /\ Ttl(op[c]) = NoTtl
      /\ op[c] \in Op /\ op[c].kind \notin ReadKinds
  BY <1>1, WorkIs
<1>4. /\ ~Has(h, s)
      /\ local' = [local EXCEPT ![c] =
                     [d EXCEPT !.history = <<r>> \o h, !.runCount = @ + 1]]
      /\ claimed' = [claimed EXCEPT ![c] = {s}]
      /\ todo' = [todo EXCEPT ![c] = <<>>]
      /\ pc' = [pc EXCEPT ![c] = "claiming"]
      /\ UNCHANGED <<now, op, at, outcome, result>>
  BY <1>2, <1>3 DEF ClaimNew, Claim, Goto, shared, stored, answer, TypeInv
<1>5. r \in Record /\ r.signature = s /\ r.ttl = NoTtl
  BY <1>3, PendingIsRecord DEF TypeInv
<1>6. <<r>> \o h \in Seq(Record)
  BY <1>4, <1>5, Prepended DEF Distinct
<1> HIDE DEF s, r
<1>7. [d EXCEPT !.history = <<r>> \o h, !.runCount = @ + 1] \in AgentState
  <2> DEFINE g == <<r>> \o h
  <2>1. g \in Seq(Record)
    BY <1>6
  <2> HIDE DEF g
  <2>2. [d EXCEPT !.history = g, !.runCount = @ + 1] \in AgentState
    <3>1. d \in AgentState
      OBVIOUS
    <3>2. d.runCount + 1 \in Nat
      BY <3>1 DEF AgentState
    <3>3. [d EXCEPT !.history = g, !.runCount = @ + 1] =
            [d EXCEPT !.history = g, !.runCount = d.runCount + 1]
      BY <3>1 DEF AgentState
    <3> QED BY <2>1, <3>1, <3>2, <3>3 DEF AgentState
  <2> QED BY <2>2 DEF g
<1>8. /\ local'[c].history = <<r>> \o h
      /\ claimed'[c] = {s} /\ todo'[c] = <<>> /\ pc'[c] = "claiming"
  BY <1>4 DEF TypeInv, AgentState
<1>9. TypeInv' /\ Apart(c)
  BY <1>3, <1>4, <1>7 DEF TypeInv, Apart, Where, Body, Steps
<1>10. StageInv(c, d)'
  <2>1. SignatureIn(c)' = s
    BY <1>4 DEF SignatureIn, s
  <2>2. Prepares(c, d)'
    BY <1>4, <1>8, <2>1 DEF Prepares, s, r
  <2> QED BY <1>2, <1>3, <1>4, <1>8, <2>1, <2>2 DEF StageInv, ExecutingAt, Unanswered
<1>11. ~HasRun(c)' /\ ~Executing(c)
  BY <1>1, <1>8 DEF HasRun, ClaimWritten, Executing
<1> QED BY <1>1, <1>4, <1>9, <1>10, <1>11, InBody DEF Touches, Settles

(* What the copy becomes when its history or its time of writing changes. *)
LEMMA CopyIs ==
  ASSUME NEW st \in AgentState, NEW h \in Seq(Record), NEW t \in 0 .. MaxTime
  PROVE  /\ WithHistory(st, h) \in AgentState /\ WithHistory(st, h).history = h
         /\ [st EXCEPT !.lastRun = t] \in AgentState
         /\ [st EXCEPT !.lastRun = t].history = st.history
         /\ [st EXCEPT !.history = h] \in AgentState
         /\ [st EXCEPT !.history = h].history = h
<1>1. Signatures(h) \in Seq(Signature)
  <2>1. Len(h) \in Nat /\ DOMAIN h = 1 .. Len(h)
    BY LenProperties
  <2>2. \A i \in 1 .. Len(h) : h[i] \in Record
    BY ElementOfSeq
  <2>3. \A i \in 1 .. Len(h) : h[i].signature \in Signature
    BY <2>2 DEF Record
  <2> QED BY <2>1, <2>3, IsASeq DEF Signatures
<1>2. t \in Nat
  BY TimeAssumption
<1>3. /\ [st EXCEPT !.history = h] \in AgentState
      /\ [st EXCEPT !.history = h].history = h
  BY DEF AgentState
<1>4. /\ [st EXCEPT !.lastRun = t] \in AgentState
      /\ [st EXCEPT !.lastRun = t].history = st.history
  BY <1>2 DEF AgentState
<1>5. WithHistory(st, h) \in AgentState /\ WithHistory(st, h).history = h
  <2> DEFINE sh == [st EXCEPT !.history = h]
             q == Signatures(h)
  <2>1. sh \in AgentState /\ sh.history = h /\ q \in Seq(Signature)
    BY <1>1, <1>3
  <2>2. WithHistory(st, h) = [sh EXCEPT !.seenSignatures = q]
    BY DEF WithHistory
  <2> HIDE DEF sh, q
  <2>3. /\ [sh EXCEPT !.seenSignatures = q] \in AgentState
        /\ [sh EXCEPT !.seenSignatures = q].history = h
    BY <2>1 DEF AgentState
  <2> QED BY <2>2, <2>3
<1> QED BY <1>3, <1>4, <1>5

(* The cut to maxHistory cuts nothing. *)
LEMMA EndOfClaimsKeeps ==
  ASSUME OnceAlone, NEW d, DiaryInv(d), NEW c \in Call, EndOfClaims(c)
  PROVE  Keeps(c, d, d)
<1> USE DEF DiaryInv
<1> DEFINE s == SignatureIn(c)
           h == local[c].history
<1>1. pc[c] = "claiming" /\ todo[c] = <<>> /\ AtWork(c)
  BY DEF EndOfClaims, AtWork, Body, Steps
<1>2. Unanswered(c) /\ Prepares(c, d)
  <2>1. \A u : <<u>> # <<>>
    OBVIOUS
  <2> QED BY <1>1, <2>1 DEF StageInv
<1>3. s \in Signature /\ op[c] \in Op /\ op[c].kind \notin ReadKinds
  BY <1>1, WorkIs
<1>4. Distinct(h)
  <2> DEFINE r == Pending(s, at[c], NoTtl)
  <2>1. r \in Record /\ r.signature = s /\ r.ttl = NoTtl
    BY <1>3, PendingIsRecord DEF TypeInv
  <2>2. ~Has(d.history, s) /\ h = <<r>> \o d.history
    BY <1>2 DEF Prepares
  <2> HIDE DEF r, s
  <2> QED BY <2>1, <2>2, Prepended
<1>5. h \in Seq(Record) /\ Slice(h) = h /\ local[c] \in AgentState
  BY <1>4, NothingIsCut DEF Distinct, TypeInv
<1> DEFINE st == [WithHistory(local[c], h) EXCEPT !.lastRun = at[c]]
<1>6. /\ local' = [local EXCEPT ![c] = st]
      /\ pc' = [pc EXCEPT ![c] = "saveClaim"]
      /\ UNCHANGED <<now, op, at, todo, claimed, outcome, result>>
  <2>1. claimed[c] # {}
    BY <1>2 DEF Prepares
  <2> QED BY <1>5, <2>1 DEF EndOfClaims, Goto, shared, stored, answer, TypeInv
<1>7. st \in AgentState /\ st.history = h
  <2> DEFINE a == WithHistory(local[c], h)
  <2>1. a \in AgentState /\ a.history = h /\ at[c] \in 0 .. MaxTime
    BY <1>5, CopyIs, TimeAssumption DEF TypeInv
  <2> HIDE DEF a
  <2>2. \A t \in 0 .. MaxTime : [a EXCEPT !.lastRun = t] \in AgentState
                              /\ [a EXCEPT !.lastRun = t].history = a.history
    BY <1>5, <2>1, CopyIs
  <2> QED BY <2>1, <2>2 DEF a
<1> HIDE DEF st
<1>8. local'[c].history = h /\ pc'[c] = "saveClaim"
  BY <1>6, <1>7 DEF TypeInv
<1>9. TypeInv' /\ Apart(c)
  BY <1>6, <1>7 DEF TypeInv, Apart, Where, Body, Steps
<1>10. StageInv(c, d)'
  <2>1. SignatureIn(c)' = s
    BY <1>6 DEF SignatureIn
  <2>2. Prepares(c, d)' /\ Unanswered(c)'
    BY <1>2, <1>6, <1>8, <2>1 DEF Prepares, Unanswered
  <2> QED BY <1>3, <1>6, <1>8, <2>1, <2>2 DEF StageInv, ExecutingAt
<1>11. ~HasRun(c)' /\ ~Executing(c)
  BY <1>1, <1>8 DEF HasRun, ClaimWritten, Executing
<1> QED BY <1>1, <1>6, <1>9, <1>10, <1>11, InBody DEF Touches, Settles

(* With the claim the task is in the diary, and c runs it. *)
LEMMA SaveClaimIs ==
  ASSUME OnceAlone, NEW d, NEW e, DiaryInv(d), NEW c \in Call, SaveClaim(c),
         e = local[c]
  PROVE  /\ Keeps(c, d, e)
         /\ ~Has(d.history, SignatureIn(c))
         /\ SameBut(e.history, d.history, SignatureIn(c))
         /\ Has(e.history, SignatureIn(c))
         /\ Find(e.history, SignatureIn(c)).status = "pending"
         /\ Find(e.history, SignatureIn(c)).result = Undefined
         /\ pc[c] = "saveClaim" /\ pc'[c] = "running" /\ Unanswered(c)
         /\ UNCHANGED <<op, outcome, result>>
<1> USE DEF DiaryInv
<1> DEFINE s == SignatureIn(c)
           h == d.history
           r == Pending(s, at[c], NoTtl)
<1>1. pc[c] = "saveClaim" /\ AtWork(c) /\ Unanswered(c) /\ Prepares(c, d)
  BY DEF SaveClaim, StageInv, AtWork, Body, Steps
<1>2. /\ s \in Signature /\ op[c].kind = "executeOnce"
      /\ op[c] \in Op /\ op[c].kind \notin ReadKinds
  BY <1>1, WorkIs
<1>3. /\ r \in Record /\ r.signature = s /\ r.ttl = NoTtl
      /\ r.status = "pending" /\ r.result = Undefined
  BY <1>2, PendingIsRecord DEF TypeInv
<1>4. /\ pc' = [pc EXCEPT ![c] = "running"]
      /\ local' = [local EXCEPT ![c] = EmptyState]
      /\ at' = [at EXCEPT ![c] = 0]
      /\ UNCHANGED <<now, op, todo, claimed, outcome, result>>
  BY <1>2 DEF SaveClaim, Goto, answer
<1> HIDE DEF s, r
<1>5. ~Has(h, s) /\ claimed[c] = {s} /\ e.history = <<r>> \o h /\ e \in AgentState
  BY <1>1 DEF Prepares, TypeInv, s, r
<1>6. /\ Distinct(e.history) /\ SameBut(e.history, h, s)
      /\ Has(e.history, s) /\ Find(e.history, s) = r
  BY <1>3, <1>5, Prepended
<1>7. TypeInv' /\ Apart(c)
  <2>1. EmptyState \in AgentState /\ 0 \in 0 .. MaxTime
    BY Data, TimeAssumption
  <2> HIDE DEF EmptyState
  <2> QED BY <1>4, <2>1 DEF TypeInv, Apart, Where, Body, Steps
<1>8. pc'[c] = "running"
  BY <1>4 DEF TypeInv
<1>9. SignatureIn(c)' = s /\ SignatureIn(c) = s
  BY <1>4 DEF SignatureIn, s
<1>10. StageInv(c, e)'
  <2>1. Mine(c, e)' = r
    BY <1>6, <1>9 DEF Mine
  <2> QED BY <1>1, <1>2, <1>3, <1>4, <1>5, <1>6, <1>8, <1>9, <2>1
          DEF StageInv, ExecutingAt, Unanswered
<1>11. ~Executing(c) /\ Executing(c)'
  BY <1>1, <1>2, <1>4, <1>8 DEF Executing
<1>12. Keeps(c, d, e)
  <2>1. Touches(c, d, e) /\ Settles(c, d, e)
    BY <1>1, <1>5, <1>6, <1>9, <1>11 DEF Touches, Settles
  <2> QED BY <1>1, <1>4, <1>5, <1>6, <1>7, <1>9, <1>10, <2>1, InBody
<1> QED BY <1>1, <1>3, <1>4, <1>5, <1>6, <1>8, <1>9, <1>12

(* The function returns or throws: nothing is written yet. *)
LEMMA RunKeeps ==
  ASSUME OnceAlone, NEW d, DiaryInv(d), NEW c \in Call, FnReturns(c) \/ FnThrows(c)
  PROVE  Keeps(c, d, d)
<1> USE DEF DiaryInv
<1>1. /\ pc[c] = "running"
      /\ UNCHANGED <<now, op, local, at, todo, claimed, outcome, result>>
  BY DEF FnReturns, FnThrows, shared, stored, answer
<1>2. /\ pc' \in [Call -> Where] /\ pc'[c] \in {"ran", "failed"}
      /\ \A b \in Call \ {c} : pc'[b] = pc[b]
  <2>1. PICK l \in {"ran", "failed"} : pc' = [pc EXCEPT ![c] = l]
    BY DEF FnReturns, FnThrows, Goto
  <2> QED BY <2>1 DEF TypeInv, Where, Body, Steps
<1>3. TypeInv' /\ Apart(c)
  BY <1>1, <1>2 DEF TypeInv, Apart
<1>4. AtWork(c) /\ op[c] \in Op /\ op[c].kind \notin ReadKinds
  BY <1>1, WorkIs DEF AtWork, Body, Steps
<1>5. StageInv(c, d)'
  <2>1. SignatureIn(c)' = SignatureIn(c) /\ Mine(c, d)' = Mine(c, d)
    BY <1>1 DEF SignatureIn, Mine
  <2> QED BY <1>1, <1>2, <1>4, <2>1 DEF StageInv, ExecutingAt, Unanswered
<1>6. (HasRun(c)' => HasRun(c)) /\ (Executing(c) => Executing(c)')
  BY <1>1, <1>2 DEF HasRun, ClaimWritten, Executing
<1> QED BY <1>1, <1>3, <1>4, <1>5, <1>6, InBody DEF Touches, Settles

(* The answer in the copy: the record of the task, settled. *)
LEMMA RewrittenIs ==
  ASSUME NEW d, DiaryInv(d), NEW c \in Call, pc[c] \in ExecutingAt,
         NEW r \in Record, NEW g,
         g = [d.history EXCEPT ![IndexOf(d.history, SignatureIn(c))] = r]
  PROVE  g \in Seq(Record) /\ g[IndexOf(d.history, SignatureIn(c))] = r
<1>1. Has(d.history, SignatureIn(c)) /\ Distinct(d.history)
  BY DEF DiaryInv, StageInv
<1>2. IndexOf(d.history, SignatureIn(c)) \in DOMAIN d.history
  BY <1>1, Found
<1> QED BY <1>1, <1>2, ExceptSeq, LenProperties DEF Distinct

(* Such a copy prepared, nothing is written yet. *)
LEMMA RecordKeeps ==
  ASSUME OnceAlone, NEW d, DiaryInv(d), NEW c \in Call, pc[c] \in {"ran", "failed"},
         NEW l \in {"saveResult", "saveFailure"}, NEW st \in AgentState,
         local' = [local EXCEPT ![c] = st], pc' = [pc EXCEPT ![c] = l],
         UNCHANGED <<now, op, at, todo, claimed, outcome, result>>,
         NEW t \in 0 .. MaxTime,
         st.history = [d.history EXCEPT ![IndexOf(d.history, SignatureIn(c))] =
           IF l = "saveResult"
           THEN Completed(Mine(c, d), Stringified(Returned(c)), t, NoTtl)
           ELSE Failed(Mine(c, d), t)]
  PROVE  Keeps(c, d, d)
<1> USE DEF DiaryInv
<1>1. pc'[c] = l /\ local'[c] = st
  BY DEF TypeInv
<1>2. TypeInv' /\ Apart(c)
  BY DEF TypeInv, Apart, Where, Body, Steps
<1>3. AtWork(c) /\ op[c] \in Op /\ op[c].kind = "executeOnce" /\ op[c].kind \notin ReadKinds
  BY WorkIs DEF AtWork, Body, Steps
<1>4. StageInv(c, d)'
  <2>1. SignatureIn(c)' = SignatureIn(c) /\ Mine(c, d)' = Mine(c, d)
    BY DEF SignatureIn, Mine
  <2>2. l = "saveResult" =>
          Rewrites(c, d, Completed(Mine(c, d), Stringified(Returned(c)), t, NoTtl))'
    BY <1>1, <2>1 DEF Rewrites
  <2>3. l = "saveFailure" => Rewrites(c, d, Failed(Mine(c, d), t))'
    BY <1>1, <2>1 DEF Rewrites
  <2> QED BY <1>1, <1>3, <2>1, <2>2, <2>3 DEF StageInv, ExecutingAt, Unanswered
<1>5. (HasRun(c)' => HasRun(c)) /\ Executing(c)'
  BY <1>1, <1>3 DEF HasRun, ClaimWritten, Executing
<1> QED BY <1>2, <1>3, <1>4, <1>5, InBody DEF Touches, Settles

(* The second read finds the record and completes it in the copy ... *)
LEMMA RecordResultKeeps ==
  ASSUME OnceAlone, ReadsTrue, NEW d, store = d, DiaryInv(d), NEW c \in Call,
         RecordResult(c)
  PROVE  Keeps(c, d, d) /\ pc'[c] = "saveResult" /\ UNCHANGED <<outcome, result>>
<1> USE DEF DiaryInv
<1> DEFINE s == SignatureIn(c)
           h == d.history
           k == IndexOf(h, s)
           r == Completed(Mine(c, d), Stringified(Returned(c)), now, NoTtl)
           g == [h EXCEPT ![k] = r]
           st == [d EXCEPT !.history[k] = r, !.lastRun = now]
<1>1. pc[c] = "ran" /\ AtWork(c) /\ pc[c] \in ExecutingAt /\ Has(h, s)
  BY DEF RecordResult, StageInv, ExecutingAt, AtWork, Body, Steps
<1>2. Ttl(op[c]) = NoTtl
  BY <1>1, WorkIs
<1>3. Mine(c, d) \in Record /\ Mine(c, d).ttl = NoTtl /\ Mine(c, d) = h[k] /\ k \in DOMAIN h
  BY <1>1, Found DEF Mine
<1>4. r \in Record
  BY <1>3, Data, SettledIsRecord DEF TypeInv
<1>5. /\ local' = [local EXCEPT ![c] = st]
      /\ pc' = [pc EXCEPT ![c] = "saveResult"]
      /\ UNCHANGED <<now, op, at, todo, claimed, outcome, result>>
  BY <1>1, <1>2, <1>3, ReadIs DEF RecordResult, Goto, stored, answer
<1>6. g \in Seq(Record)
  BY <1>1, <1>4, RewrittenIs
<1> HIDE DEF r, k
<1>7. st \in AgentState /\ st.history = g
  <2> HIDE DEF g
  <2> DEFINE a == [d EXCEPT !.history = g]
  <2>1. d \in AgentState /\ now \in 0 .. MaxTime
    BY DEF TypeInv
  <2>2. a \in AgentState /\ a.history = g
    BY <1>6, <2>1, CopyIs
  <2>3. [a EXCEPT !.lastRun = now] \in AgentState /\ [a EXCEPT !.lastRun = now].history = g
    BY <1>6, <2>1, <2>2, CopyIs
  <2>4. st = [a EXCEPT !.lastRun = now]
    BY <2>1 DEF AgentState, g
  <2> QED BY <2>3, <2>4
<1> HIDE DEF st
<1>8. PICK t \in 0 .. MaxTime : t = now
  BY DEF TypeInv
<1>9. st.history = [d.history EXCEPT ![IndexOf(d.history, SignatureIn(c))] =
                      Completed(Mine(c, d), Stringified(Returned(c)), t, NoTtl)]
  BY <1>7, <1>8 DEF r, k
<1>10. Keeps(c, d, d)
  BY <1>1, <1>5, <1>7, <1>9, RecordKeeps
<1> QED BY <1>5, <1>10 DEF TypeInv

(* ... or fails it. *)
LEMMA RecordFailureKeeps ==
  ASSUME OnceAlone, ReadsTrue, NEW d, store = d, DiaryInv(d), NEW c \in Call,
         RecordFailure(c)
  PROVE  Keeps(c, d, d) /\ pc'[c] = "saveFailure" /\ UNCHANGED <<outcome, result>>
<1> USE DEF DiaryInv
<1> DEFINE s == SignatureIn(c)
           h == d.history
           k == IndexOf(h, s)
           r == Failed(Mine(c, d), now)
           g == [h EXCEPT ![k] = r]
           st == [d EXCEPT !.history[k] = r]
<1>1. pc[c] = "failed" /\ AtWork(c) /\ pc[c] \in ExecutingAt /\ Has(h, s)
  BY DEF RecordFailure, StageInv, ExecutingAt, AtWork, Body, Steps
<1>2. Mine(c, d) \in Record /\ Mine(c, d).ttl = NoTtl /\ Mine(c, d) = h[k] /\ k \in DOMAIN h
  BY <1>1, Found DEF Mine
<1>3. r \in Record
  <2>1. Returned(c) \in Value /\ now \in 0 .. MaxTime
    BY Data DEF TypeInv
  <2> QED BY <1>2, <2>1, SettledIsRecord
<1>4. /\ local' = [local EXCEPT ![c] = st]
      /\ pc' = [pc EXCEPT ![c] = "saveFailure"]
      /\ UNCHANGED <<now, op, at, todo, claimed, outcome, result>>
  BY <1>1, <1>2, ReadIs DEF RecordFailure, Goto, stored, answer
<1>5. g \in Seq(Record)
  BY <1>1, <1>3, RewrittenIs
<1> HIDE DEF r, k
<1>6. st \in AgentState /\ st.history = g
  <2>1. st = [d EXCEPT !.history = g] /\ d \in AgentState /\ 0 \in 0 .. MaxTime
    BY TimeAssumption DEF AgentState
  <2> HIDE DEF g, st
  <2> QED BY <1>5, <2>1, CopyIs
<1> HIDE DEF st
<1>7. PICK t \in 0 .. MaxTime : t = now
  BY DEF TypeInv
<1>8. st.history = [d.history EXCEPT ![IndexOf(d.history, SignatureIn(c))] =
                      Failed(Mine(c, d), t)]
  BY <1>6, <1>7 DEF r, k
<1>9. Keeps(c, d, d)
  BY <1>1, <1>4, <1>6, <1>8, RecordKeeps
<1> QED BY <1>4, <1>9 DEF TypeInv

(* The write of a settled record, and the answer to the caller with it. *)
LEMMA SaveSettled ==
  ASSUME OnceAlone, NEW d, NEW e, DiaryInv(d), NEW c \in Call,
         pc[c] \in {"saveResult", "saveFailure"},
         NEW r \in Record, r.signature = SignatureIn(c), r.ttl = NoTtl,
         r.status # "pending", Rewrites(c, d, r), e = local[c],
         NEW how \in {"returned", "threw"}, NEW v \in Value \cup {Undefined},
         how = "returned" => v = Returned(c) /\ r.result = Stringified(Returned(c)),
         Settle(c, how, v), UNCHANGED <<now, op, claimed>>
  PROVE  /\ Keeps(c, d, e)
         /\ SameBut(e.history, d.history, SignatureIn(c))
         /\ Has(e.history, SignatureIn(c)) /\ Find(e.history, SignatureIn(c)) = r
<1> USE DEF DiaryInv
<1> DEFINE s == SignatureIn(c)
           h == d.history
<1>1. /\ AtWork(c) /\ claimed[c] = {s} /\ Has(h, s) /\ pc[c] \in ExecutingAt
  BY DEF StageInv, ExecutingAt, AtWork, Body, Steps
<1>2. op[c].kind = "executeOnce" /\ op[c] \in Op /\ op[c].kind \notin ReadKinds
  BY <1>1, WorkIs
<1>3. /\ Distinct(e.history) /\ SameBut(e.history, h, s)
      /\ Has(e.history, s) /\ Find(e.history, s) = r
  <2>1. e.history = [h EXCEPT ![IndexOf(h, s)] = r]
    BY DEF Rewrites
  <2> QED BY <1>1, <2>1, Replaced
<1>4. pc'[c] = "leaving" /\ outcome'[c] = how /\ result'[c] = v
  BY SettleStep
<1>5. TypeInv' /\ Apart(c) /\ e \in AgentState
  <2>1. /\ pc' = [pc EXCEPT ![c] = "leaving"]
        /\ outcome' \in [Call -> {"none", "returned", "threw"}]
        /\ result' \in [Call -> Value \cup {Undefined}]
        /\ local' \in [Call -> AgentState] /\ at' \in [Call -> 0 .. MaxTime]
        /\ todo' \in [Call -> Seq(Signature)]
        /\ \A b \in Call \ {c} :
             /\ pc'[b] = pc[b] /\ local'[b] = local[b] /\ at'[b] = at[b]
             /\ todo'[b] = todo[b] /\ outcome'[b] = outcome[b] /\ result'[b] = result[b]
    BY SettleStep
  <2>2. pc' \in [Call -> Where]
    BY <2>1 DEF TypeInv, Where
  <2>3. TypeInv' /\ e \in AgentState
    BY <2>1, <2>2 DEF TypeInv
  <2> QED BY <2>1, <2>3 DEF Apart
<1>6. SignatureIn(c)' = s
  BY DEF SignatureIn
<1>7. StageInv(c, e)'
  <2>1. Mine(c, e)' = r
    BY <1>3, <1>6 DEF Mine
  <2> QED BY <1>1, <1>2, <1>3, <1>4, <1>6, <2>1 DEF StageInv, ExecutingAt
<1>8. HasRun(c)
  BY <1>1, <1>2 DEF HasRun, ClaimWritten, ExecutingAt
<1>9. Touches(c, d, e) /\ Settles(c, d, e)
  BY <1>1, <1>3, <1>8 DEF Touches, Settles
<1> QED BY <1>1, <1>3, <1>5, <1>7, <1>8, <1>9, InBody

(* The step of SaveResult is such a write, with the result ... *)
LEMMA SaveResultIs ==
  ASSUME OnceAlone, NEW d, NEW e, DiaryInv(d), NEW c \in Call, SaveResult(c), e = local[c]
  PROVE  /\ Keeps(c, d, e) /\ pc[c] = "saveResult" /\ pc'[c] = "leaving"
         /\ SameBut(e.history, d.history, SignatureIn(c))
         /\ Has(e.history, SignatureIn(c))
         /\ Find(e.history, SignatureIn(c)).status = "done"
         /\ Find(e.history, SignatureIn(c)).result = Stringified(Returned(c))
         /\ outcome' = [outcome EXCEPT ![c] = "returned"]
         /\ result' = [result EXCEPT ![c] = Returned(c)]
<1> USE DEF DiaryInv
<1>1. /\ pc[c] = "saveResult" /\ Settle(c, "returned", Returned(c))
      /\ UNCHANGED <<now, op, claimed>>
  BY DEF SaveResult
<1>2. PICK t \in 0 .. MaxTime :
        Rewrites(c, d, Completed(Mine(c, d), Stringified(Returned(c)), t, NoTtl))
  BY <1>1 DEF StageInv
<1>3. Has(d.history, SignatureIn(c))
  BY <1>1 DEF StageInv, ExecutingAt
<1>4. Mine(c, d) \in Record /\ Mine(c, d).ttl = NoTtl /\ Mine(c, d).signature = SignatureIn(c)
  BY <1>3, Found DEF Mine
<1>5. Returned(c) \in Value /\ Stringified(Returned(c)) \in Value
  BY Data
<1> DEFINE r == Completed(Mine(c, d), Stringified(Returned(c)), t, NoTtl)
<1>6. /\ r \in Record /\ r.signature = SignatureIn(c) /\ r.ttl = NoTtl
      /\ r.status = "done" /\ r.result = Stringified(Returned(c))
  BY <1>4, <1>5, SettledIsRecord
<1>7. Rewrites(c, d, r)
  BY <1>2
<1> HIDE DEF r
<1>8. /\ Keeps(c, d, e)
      /\ SameBut(e.history, d.history, SignatureIn(c))
      /\ Has(e.history, SignatureIn(c)) /\ Find(e.history, SignatureIn(c)) = r
  BY <1>1, <1>5, <1>6, <1>7, SaveSettled
<1> QED BY <1>1, <1>6, <1>8 DEF Settle, Goto, TypeInv

(* ... and that of SaveFailure with the failure: the result there was stays. *)
LEMMA SaveFailureIs ==
  ASSUME OnceAlone, NEW d, NEW e, DiaryInv(d), NEW c \in Call, SaveFailure(c), e = local[c]
  PROVE  /\ Keeps(c, d, e) /\ pc[c] = "saveFailure" /\ pc'[c] = "leaving"
         /\ SameBut(e.history, d.history, SignatureIn(c))
         /\ Has(e.history, SignatureIn(c))
         /\ Find(e.history, SignatureIn(c)).status = "failed"
         /\ Find(e.history, SignatureIn(c)).result = Undefined
         /\ outcome' = [outcome EXCEPT ![c] = "threw"]
         /\ result' = [result EXCEPT ![c] = Undefined]
<1> USE DEF DiaryInv
<1>1. /\ pc[c] = "saveFailure" /\ Settle(c, "threw", Undefined)
      /\ UNCHANGED <<now, op, claimed>>
  BY DEF SaveFailure
<1>2. PICK t \in 0 .. MaxTime : Rewrites(c, d, Failed(Mine(c, d), t))
  BY <1>1 DEF StageInv
<1>3. Has(d.history, SignatureIn(c)) /\ Mine(c, d).result = Undefined
  BY <1>1 DEF StageInv, ExecutingAt
<1>4. Mine(c, d) \in Record /\ Mine(c, d).ttl = NoTtl /\ Mine(c, d).signature = SignatureIn(c)
  BY <1>3, Found DEF Mine
<1>5. Returned(c) \in Value
  BY Data
<1> DEFINE r == Failed(Mine(c, d), t)
<1>6. /\ r \in Record /\ r.signature = SignatureIn(c) /\ r.ttl = NoTtl
      /\ r.status = "failed" /\ r.result = Undefined
  BY <1>3, <1>4, <1>5, SettledIsRecord
<1>7. Rewrites(c, d, r)
  BY <1>2
<1> HIDE DEF r
<1>8. /\ Keeps(c, d, e)
      /\ SameBut(e.history, d.history, SignatureIn(c))
      /\ Has(e.history, SignatureIn(c)) /\ Find(e.history, SignatureIn(c)) = r
  BY <1>1, <1>6, <1>7, SaveSettled
<1> QED BY <1>1, <1>6, <1>8 DEF Settle, Goto, TypeInv

(* A set or a get that throws: nothing is written. *)
LEMMA StorageFaultKeeps ==
  ASSUME OnceAlone, NEW d, DiaryInv(d), NEW c \in Call, StorageFails(c) \/ ReadFails(c)
  PROVE  Keeps(c, d, d)
<1> USE DEF DiaryInv
<1>1. /\ pc[c] \in Body /\ Settle(c, "threw", Undefined)
      /\ UNCHANGED <<now, op>>
      /\ ~(Fault \subseteq {"fn"})
  BY DEF StorageFails, ReadFails, Saving, Body, Steps, shared, stored
<1>2. pc[c] \in ExecutingAt => HasRun(c)
  BY <1>1, WorkIs DEF AtWork, HasRun, ClaimWritten, StageInv, ExecutingAt
<1>3. \/ claimed' = claimed /\ (claimed[c] = {} \/ HasRun(c))
      \/ claimed' = [claimed EXCEPT ![c] = {}]
  <2>1. CASE StorageFails(c)
    <3>1. pc[c] # "save"
      BY DEF StageInv
    <3> QED BY <1>2, <2>1, <3>1 DEF StorageFails, Saving, DropUnwritten, ClaimWritten, ExecutingAt
  <2>2. CASE ReadFails(c)
    <3>1. pc[c] = "locked" => claimed[c] = {}
      BY DEF StageInv
    <3> QED BY <1>2, <2>2, <3>1 DEF ReadFails, ExecutingAt
  <2> QED BY <2>1, <2>2
<1> QED BY <1>1, <1>3, SettleKeeps

(* The steps of the body of an executeOnce; it takes no other. *)
LEMMA BodyStepsAre ==
  ASSUME OnceAlone, NEW d, DiaryInv(d), NEW c \in Call,
         BodyStep(c) \/ BodyFault(c) \/ ReadFails(c)
  PROVE  /\ \/ ReadForClaim(c) \/ SkipLive(c) \/ ClaimNew(c) \/ EndOfClaims(c) \/ SaveClaim(c)
            \/ (FnReturns(c) \/ FnThrows(c)) \/ RecordResult(c) \/ SaveResult(c)
            \/ RecordFailure(c) \/ SaveFailure(c) \/ (StorageFails(c) \/ ReadFails(c))
         /\ AtWork(c)
<1> USE DEF DiaryInv
<1>1. pc[c] \notin {"notifying", "save", "reporting"}
  BY DEF StageInv
<1>2. pc[c] = "locked" => op[c].kind = "executeOnce"
  BY WorkIs DEF AtWork, Body
<1>3. ~NotifyExpired(c)
  <2> SUFFICES ASSUME NotifyExpired(c) PROVE FALSE
    OBVIOUS
  <2>1. local[c] = d
    BY StillToClaim DEF NotifyExpired
  <2> QED BY <2>1, LiveIfThere DEF NotifyExpired
<1>4. ~ReplaceExpired(c) /\ ~CallbackThrows(c) /\ ~Save(c) /\ ~Report(c) /\ ~ReportThrows(c)
  BY <1>1 DEF ReplaceExpired, CallbackThrows, Save, Report, ReportThrows
<1>5. /\ ~WriteTaskResult(c) /\ ~FailTask(c) /\ ~DeleteTask(c) /\ ~PruneExpiredTasks(c)
      /\ ~ImportHistory(c) /\ ~MergeHistory(c) /\ ~ClearHistory(c)
  BY <1>2 DEF WriteTaskResult, FailTask, DeleteTask, PruneExpiredTasks, ImportHistory,
              MergeHistory, ClearHistory, Starts
<1>6. \/ ReadForClaim(c) \/ SkipLive(c) \/ ClaimNew(c) \/ EndOfClaims(c) \/ SaveClaim(c)
      \/ (FnReturns(c) \/ FnThrows(c)) \/ RecordResult(c) \/ SaveResult(c)
      \/ RecordFailure(c) \/ SaveFailure(c) \/ (StorageFails(c) \/ ReadFails(c))
  BY <1>3, <1>4, <1>5 DEF BodyStep, BodyFault
<1>7. AtWork(c)
  BY <1>6 DEF ReadForClaim, SkipLive, ClaimNew, EndOfClaims, SaveClaim, FnReturns, FnThrows,
              RecordResult, SaveResult, RecordFailure, SaveFailure, StorageFails, ReadFails,
              Saving, AtWork, Body, Steps
<1> QED BY <1>6, <1>7

(* A step that is not a write leaves the diary as it is ... *)
LEMMA QuietKept ==
  ASSUME OnceAlone, ReadsTrue, NEW d, store = d, DiaryInv(d), NEW c \in Call,
         BodyStep(c) \/ BodyFault(c) \/ ReadFails(c),
         ~(SaveClaim(c) \/ SaveResult(c) \/ SaveFailure(c))
  PROVE  Keeps(c, d, d) /\ store' = d
<1>1. CASE ReadForClaim(c)
  BY <1>1, ReadForClaimKeeps DEF ReadForClaim, stored
<1>2. CASE SkipLive(c)
  BY <1>2, SkipLiveKeeps DEF SkipLive, shared, stored
<1>3. CASE ClaimNew(c)
  BY <1>3, ClaimNewKeeps DEF ClaimNew, Claim, shared, stored
<1>4. CASE EndOfClaims(c)
  BY <1>4, EndOfClaimsKeeps DEF EndOfClaims, shared, stored
<1>5. CASE FnReturns(c) \/ FnThrows(c)
  BY <1>5, RunKeeps DEF FnReturns, FnThrows, shared, stored
<1>6. CASE RecordResult(c)
  BY <1>6, RecordResultKeeps DEF RecordResult, stored
<1>7. CASE RecordFailure(c)
  BY <1>7, RecordFailureKeeps DEF RecordFailure, stored
<1>8. CASE StorageFails(c) \/ ReadFails(c)
  BY <1>8, StorageFaultKeeps DEF StorageFails, ReadFails, shared, stored
<1> QED BY BodyStepsAre, <1>1, <1>2, <1>3, <1>4, <1>5, <1>6, <1>7, <1>8

(* ... and a write makes it the copy of the call. *)
LEMMA WriteKept ==
  ASSUME OnceAlone, NEW d, NEW e, DiaryInv(d), NEW c \in Call,
         SaveClaim(c) \/ SaveResult(c) \/ SaveFailure(c), e = local[c]
  PROVE  Keeps(c, d, e) /\ store' = e
<1>1. CASE SaveClaim(c)
  BY <1>1, SaveClaimIs DEF SaveClaim
<1>2. CASE SaveResult(c)
  BY <1>2, SaveResultIs DEF SaveResult
<1>3. CASE SaveFailure(c)
  BY <1>3, SaveFailureIs DEF SaveFailure
<1> QED BY <1>1, <1>2, <1>3

(* Either way the diary is what is stored, before and after. *)
LEMMA BodyKept ==
  ASSUME OnceAlone, ReadsTrue, NEW d, NEW e, store = d, store' = e, DiaryInv(d),
         NEW c \in Call, BodyStep(c) \/ BodyFault(c) \/ ReadFails(c)
  PROVE  Keeps(c, d, e)
<1>1. CASE SaveClaim(c) \/ SaveResult(c) \/ SaveFailure(c)
  <2>1. PICK f : f = local[c]
    OBVIOUS
  <2>2. Keeps(c, d, f) /\ store' = f
    BY <1>1, <2>1, WriteKept
  <2> QED BY <2>2
<1>2. CASE ~(SaveClaim(c) \/ SaveResult(c) \/ SaveFailure(c))
  <2>1. Keeps(c, d, d) /\ store' = d
    BY <1>2, QuietKept
  <2> QED BY <2>1
<1> QED BY <1>1, <1>2

(* A body step leaves its call at work until the lock is given back. *)
LEMMA StaysAtWork ==
  ASSUME pc \in [Call -> Where], NEW c \in Call, BodyStep(c) \/ BodyFault(c) \/ ReadFails(c)
  PROVE  AtWork(c) /\ AtWork(c)'
<1>1. PICK l \in Body \cup {"leaving"} : pc' = [pc EXCEPT ![c] = l]
  <2> USE DEF Goto, Settle, Body, Steps
  <2>1. CASE ReadForClaim(c) \/ NotifyExpired(c) \/ ClaimNew(c) \/ ReplaceExpired(c)
             \/ EndOfClaims(c) \/ SaveClaim(c)
    BY <2>1 DEF ReadForClaim, NotifyExpired, ClaimNew, ReplaceExpired, Claim, EndOfClaims, SaveClaim
  <2>2. CASE FnReturns(c) \/ FnThrows(c) \/ RecordResult(c) \/ SaveResult(c) \/ RecordFailure(c)
             \/ SaveFailure(c)
    BY <2>2 DEF FnReturns, FnThrows, RecordResult, SaveResult, RecordFailure, SaveFailure
  <2>3. CASE WriteTaskResult(c) \/ FailTask(c) \/ DeleteTask(c) \/ PruneExpiredTasks(c)
    BY <2>3 DEF WriteTaskResult, FailTask, DeleteTask, PruneExpiredTasks, Change, Leave
  <2>4. CASE ImportHistory(c) \/ MergeHistory(c) \/ ClearHistory(c) \/ Save(c)
    BY <2>4 DEF ImportHistory, MergeHistory, ClearHistory, Save, Change
  <2>5. CASE CallbackThrows(c) \/ ReportThrows(c) \/ StorageFails(c) \/ ReadFails(c)
    BY <2>5 DEF CallbackThrows, ReportThrows, StorageFails, ReadFails
  <2>6. CASE SkipLive(c)
    <3>1. pc[c] = "claiming" /\ (pc' = pc \/ Goto(c, "leaving"))
      BY <2>6 DEF SkipLive
    <3> QED BY <3>1
  <2>7. CASE Report(c)
    <3>1. pc[c] = "reporting" /\ (pc' = pc \/ Goto(c, "leaving"))
      BY <2>7 DEF Report
    <3> QED BY <3>1
  <2> QED BY <2>1, <2>2, <2>3, <2>4, <2>5, <2>6, <2>7 DEF BodyStep, BodyFault
<1>2. AtWork(c)'
  BY <1>1 DEF AtWork
<1>3. AtWork(c)
  <2> USE DEF AtWork, Body, Steps
  <2>1. CASE ReadForClaim(c) \/ SkipLive(c) \/ NotifyExpired(c) \/ ClaimNew(c)
             \/ ReplaceExpired(c) \/ EndOfClaims(c) \/ SaveClaim(c)
    BY <2>1 DEF ReadForClaim, SkipLive, NotifyExpired, ClaimNew, ReplaceExpired, EndOfClaims, SaveClaim
  <2>2. CASE FnReturns(c) \/ FnThrows(c) \/ RecordResult(c) \/ SaveResult(c) \/ RecordFailure(c)
             \/ SaveFailure(c)
    BY <2>2 DEF FnReturns, FnThrows, RecordResult, SaveResult, RecordFailure, SaveFailure
  <2>3. CASE WriteTaskResult(c) \/ FailTask(c) \/ DeleteTask(c) \/ PruneExpiredTasks(c)
             \/ ImportHistory(c) \/ MergeHistory(c) \/ ClearHistory(c)
    BY <2>3 DEF WriteTaskResult, FailTask, DeleteTask, PruneExpiredTasks, ImportHistory,
                MergeHistory, ClearHistory, Starts
  <2>4. CASE Save(c) \/ Report(c) \/ CallbackThrows(c) \/ ReportThrows(c) \/ StorageFails(c)
             \/ ReadFails(c)
    BY <2>4 DEF Save, Report, CallbackThrows, ReportThrows, StorageFails, ReadFails, Saving
  <2> QED BY <2>1, <2>2, <2>3, <2>4 DEF BodyStep, BodyFault
<1> QED BY <1>2, <1>3

-----------------------------------------------------------------------------
(* The steps outside the bodies, and of the clock. *)

(* A call gets somewhere else, and nobody begins to run a task. *)
LEMMA Passes ==
  ASSUME NEW d, DiaryInv(d), NEW c \in Call, Apart(c), TypeInv', StageInv(c, d)',
         HasRun(c)' => HasRun(c) /\ op'[c] = op[c],
         AtWork(c) => op'[c] = op[c],
         AtWork(c)' => \A b \in Call \ {c} : ~AtWork(b),
         Fault \subseteq {"fn"} => ~Executing(c)
  PROVE  Keeps(c, d, d)
<1>1. Begins(c, d)
  BY DEF Begins, SignatureIn
<1> QED BY <1>1 DEF Keeps, Touches, Settles, DiaryInv

(* A call of an operation that takes the lock. *)
LEMMA InvokeKeeps ==
  ASSUME NEW d, DiaryInv(d), NEW c \in Call, Invoke(c)
  PROVE  Keeps(c, d, d) /\ store' = store
<1> USE DEF DiaryInv
<1>1. PICK o \in Op : o.kind \in LockedKinds /\ op' = [op EXCEPT ![c] = o]
  BY DEF Invoke
<1>2. /\ pc[c] = "idle" /\ pc' = [pc EXCEPT ![c] = "waiting"]
      /\ UNCHANGED <<store, now, local, at, todo, claimed, outcome, result>>
  BY DEF Invoke, Goto, shared, stored, answer
<1>3. o.kind \notin ReadKinds
  BY <1>1 DEF LockedKinds, ClaimKinds, ReadKinds
<1>4. Apart(c) /\ TypeInv'
  <2> HIDE DEF NoOp
  <2> QED BY <1>1, <1>2 DEF Apart, TypeInv, Where
<1>5. pc'[c] = "waiting" /\ op'[c] = o
  <2> HIDE DEF NoOp
  <2> QED BY <1>1, <1>2 DEF TypeInv
<1>6. StageInv(c, d)'
  <2>1. Unanswered(c)' /\ claimed'[c] = {}
    BY <1>2 DEF StageInv, Unanswered
  <2> QED BY <1>3, <1>5, <2>1 DEF StageInv, ExecutingAt
<1>7. ~HasRun(c)' /\ ~AtWork(c) /\ ~AtWork(c)' /\ ~Executing(c)
  BY <1>2, <1>5 DEF StageInv, HasRun, AtWork, Body, Steps, Executing
<1> QED BY <1>2, <1>4, <1>6, <1>7, Passes

(* A read without the lock, perhaps of a file that is being written. *)
LEMMA ReadKeeps ==
  ASSUME NEW d, store \in {d, EmptyState}, DiaryInv(d), NEW c \in Call, Read(c)
  PROVE  Keeps(c, d, d) /\ store' = store
<1> USE DEF DiaryInv
<1>1. PICK o \in Op, st \in Readings :
        /\ o.kind \in ReadKinds /\ op' = [op EXCEPT ![c] = o]
        /\ IF o.kind = "exportHistory"
           THEN exported' = st /\ UNCHANGED result
           ELSE LET s == SignatureOf[o.titles[1]]
                IN  /\ result' = [result EXCEPT ![c] =
                         IF Live(st.history, s, now)
                         THEN Find(st.history, s).result ELSE Undefined]
                    /\ UNCHANGED exported
  BY DEF Read
<1>2. /\ pc[c] = "idle" /\ pc' = [pc EXCEPT ![c] = "done"]
      /\ outcome' = [outcome EXCEPT ![c] = "returned"]
      /\ UNCHANGED <<store, now, local, at, todo, claimed>>
  BY DEF Read, Goto
<1>3. /\ result' \in [Call -> Value \cup {Undefined}]
      /\ \A b \in Call \ {c} : result'[b] = result[b]
  <2>1. CASE o.kind = "exportHistory"
    BY <1>1, <2>1 DEF TypeInv
  <2>2. CASE o.kind # "exportHistory"
    <3> DEFINE s == SignatureOf[o.titles[1]]
               v == IF Live(st.history, s, now) THEN Find(st.history, s).result ELSE Undefined
    <3>1. result' = [result EXCEPT ![c] = v]
      BY <1>1, <2>2
    <3>2. v \in Value \cup {Undefined}
      <4>1. Distinct(st.history)
        <5>1. Distinct(EmptyState.history)
          BY DEF EmptyState, Distinct
        <5>2. st \in {d, EmptyState}
          BY DEF Readings
        <5> QED BY <5>1, <5>2
      <4>2. Has(st.history, s) => Find(st.history, s) \in Record
        BY <4>1, Found
      <4> QED BY <4>2 DEF Live, Record
    <3> HIDE DEF v
    <3> QED BY <3>1, <3>2 DEF TypeInv
  <2> QED BY <2>1, <2>2
<1>4. Apart(c) /\ TypeInv'
  <2> HIDE DEF NoOp
  <2> QED BY <1>1, <1>2, <1>3 DEF Apart, TypeInv, Where
<1>5. pc'[c] = "done" /\ op'[c] = o /\ outcome'[c] = "returned"
  <2> HIDE DEF NoOp
  <2> QED BY <1>1, <1>2 DEF TypeInv
<1>6. claimed'[c] = {}
  BY <1>2 DEF StageInv
<1>7. StageInv(c, d)'
  BY <1>5, <1>6 DEF StageInv, ExecutingAt
<1>8. ~HasRun(c)' /\ ~AtWork(c) /\ ~AtWork(c)' /\ ~Executing(c)
  BY <1>2, <1>5, <1>6 DEF HasRun, AtWork, Body, Steps, Executing
<1> QED BY <1>2, <1>4, <1>7, <1>8, Passes

(* The lock is granted where nobody is at work. *)
LEMMA LockedKeeps ==
  ASSUME NEW d, DiaryInv(d), NEW c \in Call, Locked(c), \A b \in Call : ~AtWork(b)
  PROVE  Keeps(c, d, d) /\ store' = store
<1> USE DEF DiaryInv
<1>1. /\ pc[c] = "waiting" /\ pc' = [pc EXCEPT ![c] = "locked"]
      /\ UNCHANGED <<store, now, op, local, at, todo, claimed, outcome, result>>
  BY DEF Locked, Goto, shared, stored, answer
<1>2. Apart(c) /\ TypeInv' /\ pc'[c] = "locked"
  BY <1>1 DEF Apart, TypeInv, Where, Body
<1>3. Unanswered(c)' /\ claimed'[c] = {}
  BY <1>1 DEF StageInv, Unanswered
<1>4. StageInv(c, d)'
  BY <1>1, <1>2, <1>3 DEF StageInv, ExecutingAt
<1>5. ~HasRun(c)' /\ ~Executing(c)
  BY <1>1, <1>3 DEF HasRun, Executing
<1> QED BY <1>1, <1>2, <1>4, <1>5, Passes

(* A call that did not get the lock throws; one that gives it back is done, *)
(* perhaps with an error in the place of what it would have returned.      *)
Ends(c) ==
  /\ pc[c] \in {"waiting", "leaving"} /\ pc' = [pc EXCEPT ![c] = "done"]
  /\ UNCHANGED <<store, now, op, local, at, todo, claimed>>
  /\ \/ pc[c] = "leaving" /\ UNCHANGED answer
     \/ /\ outcome' = [outcome EXCEPT ![c] = "threw"]
        /\ result' \in {result, [result EXCEPT ![c] = Undefined]}

(* Either way what it has stored stays. *)
LEMMA EndKeeps ==
  ASSUME NEW d, DiaryInv(d), NEW c \in Call, Ends(c)
  PROVE  Keeps(c, d, d) /\ store' = store
<1> USE DEF DiaryInv
<1>1. /\ pc[c] \in {"waiting", "leaving"} /\ pc' = [pc EXCEPT ![c] = "done"]
      /\ UNCHANGED <<store, now, op, local, at, todo, claimed>>
      /\ \/ pc[c] = "leaving" /\ outcome'[c] = outcome[c] /\ result'[c] = result[c]
         \/ outcome'[c] = "threw"
      /\ \A b \in Call \ {c} : outcome'[b] = outcome[b] /\ result'[b] = result[b]
      /\ outcome' \in [Call -> {"none", "returned", "threw"}]
      /\ result' \in [Call -> Value \cup {Undefined}]
  BY DEF Ends, answer, TypeInv
<1>2. Apart(c) /\ TypeInv' /\ pc'[c] = "done"
  BY <1>1 DEF Apart, TypeInv, Where
<1>3. SignatureIn(c)' = SignatureIn(c) /\ Mine(c, d)' = Mine(c, d)
  BY <1>1 DEF SignatureIn, Mine
<1>4. StageInv(c, d)'
  BY <1>1, <1>2, <1>3 DEF StageInv, ExecutingAt
<1>5. (HasRun(c)' => HasRun(c)) /\ ~AtWork(c)' /\ ~Executing(c)
  BY <1>1, <1>2 DEF HasRun, ClaimWritten, AtWork, Body, Steps, Executing
<1> QED BY <1>1, <1>2, <1>4, <1>5, Passes

(* A process dies: a claim it has written is there. *)
LEMMA CrashKeeps ==
  ASSUME NEW d, DiaryInv(d), NEW c \in Call, Crash(c)
  PROVE  Keeps(c, d, d) /\ store' = store
<1> USE DEF DiaryInv
<1>1. /\ pc[c] \in Body \cup {"waiting", "leaving"} /\ pc' = [pc EXCEPT ![c] = "crashed"]
      /\ local' = [local EXCEPT ![c] = EmptyState]
      /\ at' = [at EXCEPT ![c] = 0] /\ todo' = [todo EXCEPT ![c] = <<>>]
      /\ claimed' = IF ClaimWritten(c) THEN claimed ELSE [claimed EXCEPT ![c] = {}]
      /\ UNCHANGED <<store, now, op, outcome, result>>
      /\ ~(Fault \subseteq {"fn"})
  BY DEF Crash, Goto, DropUnwritten, shared, stored, answer
<1>2. /\ claimed' \in [Call -> SUBSET Signature]
      /\ claimed'[c] = IF ClaimWritten(c) THEN claimed[c] ELSE {}
      /\ \A b \in Call \ {c} : claimed'[b] = claimed[b]
  BY <1>1 DEF TypeInv
<1>3. Apart(c) /\ TypeInv' /\ pc'[c] = "crashed"
  <2>1. EmptyState \in AgentState /\ 0 \in 0 .. MaxTime /\ <<>> \in Seq(Signature)
    BY Data, TimeAssumption
  <2> HIDE DEF EmptyState, NoOp
  <2> QED BY <1>1, <1>2, <2>1 DEF Apart, TypeInv, Where
<1>4. op[c] \in Op /\ op[c].kind \notin ReadKinds
  BY <1>1 DEF StageInv, Body, Steps
<1>5. \/ claimed'[c] = {}
      \/ claimed'[c] = {SignatureIn(c)} /\ Has(d.history, SignatureIn(c))
  <2>1. ClaimWritten(c) => pc[c] \in ExecutingAt \cup {"waiting", "locked", "leaving"}
    BY <1>1 DEF ClaimWritten, Body, Steps, ExecutingAt, StageInv
  <2> QED BY <1>2, <2>1 DEF StageInv
<1>6. StageInv(c, d)'
  <2>1. SignatureIn(c)' = SignatureIn(c)
    BY <1>1 DEF SignatureIn
  <2> QED BY <1>1, <1>3, <1>4, <1>5, <2>1 DEF StageInv, ExecutingAt
<1>7. (HasRun(c)' => HasRun(c)) /\ ~AtWork(c)'
  BY <1>1, <1>2, <1>3 DEF HasRun, ClaimWritten, AtWork, Body, Steps
<1> QED BY <1>1, <1>3, <1>6, <1>7, Passes

(* Nothing of the calls changes, though the clock may. *)
LEMMA IdleKeeps ==
  ASSUME NEW d, DiaryInv(d), now' \in 0 .. MaxTime,
         UNCHANGED <<pc, op, local, at, todo, claimed, outcome, result>>
  PROVE  DiaryInv(d)'
<1> USE DEF DiaryInv
<1>1. TypeInv' /\ OneAtWork'
  BY DEF TypeInv, OneAtWork, AtWork
<1>2. \A c \in Call : StageInv(c, d)'
  BY StageStays
<1>3. AtMostOnce' /\ (PendingInv(d) => PendingInv(d)')
  BY DEF AtMostOnce, HasRun, ClaimWritten, SignatureIn, PendingInv, Executing
<1> QED BY <1>1, <1>2, <1>3

(* Time passes: no record has a TTL. *)
LEMMA TickKeeps ==
  ASSUME NEW d, DiaryInv(d), Tick
  PROVE  DiaryInv(d)' /\ store' = store
<1>1. now' \in 0 .. MaxTime
  BY TimeAssumption DEF Tick, DiaryInv, TypeInv
<1> QED BY <1>1, IdleKeeps DEF Tick, answer

(* An empty diary and no calls: the invariant is so at first. *)
LEMMA InitKeeps ==
  ASSUME DiaryInit, NEW d, d = store
  PROVE  DiaryInv(d)
<1> USE DEF DiaryInit
<1>1. d = EmptyState /\ d.history = <<>> /\ d \in AgentState
  BY Data DEF EmptyState
<1>2. TypeInv
  <2>1. EmptyState \in AgentState /\ 0 \in 0 .. MaxTime /\ <<>> \in Seq(Signature)
    BY Data, TimeAssumption
  <2> HIDE DEF EmptyState, NoOp
  <2> QED BY <2>1 DEF TypeInv, Where
<1>3. Distinct(d.history) /\ \A s : ~Has(d.history, s)
  BY <1>1 DEF Distinct, Has
<1>4. \A c \in Call : StageInv(c, d)
  BY DEF StageInv, ExecutingAt, Unanswered
<1>5. AtMostOnce /\ PendingInv(d) /\ OneAtWork
  BY <1>3 DEF AtMostOnce, HasRun, PendingInv, OneAtWork, AtWork, Body, Steps
<1> QED BY <1>1, <1>2, <1>3, <1>4, <1>5 DEF DiaryInv

(* What the invariant says of the properties. *)
LEMMA DiaryIsSound ==
  ASSUME NEW d, DiaryInv(d)
  PROVE  AtMostOnce /\ (store = d => CompletedIsStored)
BY DEF DiaryInv, CompletedIsStored, StageInv, HasRun, Mine
=============================================================================
