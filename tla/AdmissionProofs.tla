-------------------------- MODULE AdmissionProofs ---------------------------
(***************************************************************************)
(* The two places where the code makes callers wait their turn.  For every *)
(* finite set of callers, the gate of an Environment excludes, never loses *)
(* a wakeup and implements the readers/writers promise.  For every size of *)
(* messages and limit, what the writer of a connection holds and lets wait *)
(* reaches the client in an order that leaves its projection complete.     *)
(***************************************************************************)
EXTENDS EnvironmentGate, Connection, FiniteSetTheorems, TLAPS

\* The conjunction the runs check is inductive as it stands.
Inv ==
  /\ TypeOK
  /\ QueueIsTheWaiters
  /\ CountersExact
  /\ Exclusion
  /\ NoLostWakeup

\* What a queue q and stages st must satisfy, with the counters already
\* updated, for dispatch to restore Inv.
Elements(q) == {q[i] : i \in 1..Len(q)}

Inside(st, modes, m) ==
  {c \in Callers : st[c] \in {"granted", "running"} /\ modes[c] = m}

Dispatchable(q, modes, readers, writing, st) ==
  /\ q \in Seq(Callers)
  /\ modes \in [Callers -> Modes]
  /\ st \in [Callers -> Stages]
  /\ readers \in Nat
  /\ writing \in BOOLEAN
  /\ \A i, j \in 1..Len(q) : q[i] = q[j] => i = j
  /\ Elements(q) = {c \in Callers : st[c] = "waiting"}
  /\ readers = Cardinality(Inside(st, modes, "shared"))
  /\ writing <=> Inside(st, modes, "exclusive") # {}
  /\ \A c, d \in Callers :
       c # d /\ c \in Inside(st, modes, "exclusive")
         => d \notin Inside(st, modes, "shared") \union Inside(st, modes, "exclusive")

-----------------------------------------------------------------------------
(***************************************************************************)
(* How many waiters a dispatch lets in                                     *)
(***************************************************************************)

\* A nonempty set of naturals has a least element.
LEMMA LeastElement ==
  ASSUME NEW S \in SUBSET Nat, S # {}
  PROVE  \E x \in S : \A y \in S : x <= y
<1> DEFINE R == {p \in Nat \X Nat : p[1] < p[2]}
<1>1. IsWellFoundedOn(R, Nat)
  BY NatLessThanWellFounded DEF OpToRel
<1>2. \E x \in S : \A y \in S : ~(<<y, x>> \in R)
  <2> HIDE DEF R
  <2> QED BY <1>1, WFMin
<1>3. ASSUME NEW x \in Nat, NEW y \in Nat, y < x
      PROVE  <<y, x>> \in R
  <2> DEFINE p == <<y, x>>
  <2>1. p \in Nat \X Nat /\ p[1] = y /\ p[2] = x
    OBVIOUS
  <2> QED BY <1>3, <2>1
<1>4. PICK x \in S : \A y \in S : ~(<<y, x>> \in R)
  BY <1>2
<1>5. ASSUME NEW y \in S
      PROVE  x <= y
  <2>1. x \in Nat /\ y \in Nat
    OBVIOUS
  <2>2. ~(y < x)
    BY <1>3, <1>4, <2>1
  <2> QED BY <2>1, <2>2
<1>6. QED
  BY <1>5

\* The loop of dispatch stops at the first exclusive waiter or at the end.
LEMMA SharedPrefixSpec ==
  ASSUME NEW q \in Seq(Callers), NEW modes \in [Callers -> Modes]
  PROVE  LET n == SharedPrefix(q, modes)
         IN  /\ n \in 0..Len(q)
             /\ \A i \in 1..n : modes[q[i]] = "shared"
             /\ n < Len(q) => modes[q[n + 1]] = "exclusive"
<1> DEFINE P(n) == /\ \A i \in 1..n : modes[q[i]] = "shared"
                   /\ n < Len(q) => modes[q[n + 1]] = "exclusive"
           E == {i \in 1..Len(q) : modes[q[i]] = "exclusive"}
<1>1. \A i \in 1..Len(q) : modes[q[i]] \in Modes
  OBVIOUS
<1>2. \E n \in 0..Len(q) : P(n)
  <2>1. CASE E = {}
    BY <1>1, <2>1 DEF Modes
  <2>2. CASE E # {}
    <3>1. E \in SUBSET Nat
      OBVIOUS
    <3>2. \E x \in E : \A y \in E : x <= y
      <4> HIDE DEF E
      <4> QED BY <2>2, <3>1, LeastElement
    <3>3. PICK x \in E : \A y \in E : x <= y
      BY <3>2
    <3>4. x - 1 \in 0..Len(q) /\ P(x - 1)
      BY <1>1, <3>3 DEF Modes
    <3> QED BY <3>4
  <2> QED BY <2>1, <2>2
<1>3. QED
  BY <1>2 DEF SharedPrefix

\* The number is within the queue; one writer enters only when nobody is
\* inside, readers enter only when no writer is, and what stays at the head
\* of the queue has a reason to wait.
LEMMA GrantableSpec ==
  ASSUME NEW q \in Seq(Callers), NEW modes \in [Callers -> Modes],
         NEW readers \in Nat, NEW writing \in BOOLEAN
  PROVE  LET n == Grantable(q, modes, readers, writing)
         IN  /\ n \in 0..Len(q)
             /\ n > 0 => ~writing
             /\ n > 0 /\ modes[Head(q)] = "exclusive" => n = 1 /\ readers = 0
             /\ n > 0 /\ modes[Head(q)] # "exclusive"
                  => \A i \in 1..n : modes[q[i]] = "shared"
             /\ n < Len(q) =>
                  \/ writing
                  \/ n > 0 /\ modes[Head(q)] = "exclusive"
                  \/ (readers > 0 \/ n > 0) /\ modes[q[n + 1]] = "exclusive"
<1>1. CASE writing \/ q = <<>>
  BY <1>1 DEF Grantable
<1>2. CASE ~writing /\ q # <<>> /\ modes[Head(q)] = "exclusive"
  BY <1>2 DEF Grantable
<1>3. CASE ~writing /\ q # <<>> /\ modes[Head(q)] # "exclusive"
  <2>1. Grantable(q, modes, readers, writing) = SharedPrefix(q, modes)
    BY <1>3 DEF Grantable
  <2>2. SharedPrefix(q, modes) > 0
    BY <1>3, SharedPrefixSpec
  <2>3. QED BY <1>3, <2>1, <2>2, SharedPrefixSpec
<1>4. QED BY <1>1, <1>2, <1>3

\* The first n places of a queue without repetition hold n callers.
LEMMA PrefixCardinality ==
  ASSUME NEW q \in Seq(Callers), NEW n \in 0..Len(q),
         \A i, j \in 1..Len(q) : q[i] = q[j] => i = j
  PROVE  Cardinality({q[i] : i \in 1..n}) = n
<1> DEFINE S == {q[i] : i \in 1..n}
           f == [i \in 1..n |-> q[i]]
<1>1. f \in Bijection(1..n, S)
  BY DEF Bijection, Injection, Surjection, IsInjective
<1>2. ExistsBijection(1..n, S)
  BY <1>1 DEF ExistsBijection
<1>3. QED
  BY <1>2, FS_CountingElements

-----------------------------------------------------------------------------
(***************************************************************************)
(* One dispatch                                                            *)
(***************************************************************************)

\* The values Dispatch gives its four variables.
Dispatched(q, modes, readers, writing, st, q2, readers2, writer2, st2) ==
  LET n        == Grantable(q, modes, readers, writing)
      granted  == {q[i] : i \in 1..n}
      asWriter == n > 0 /\ modes[Head(q)] = "exclusive"
  IN  /\ q2 = SubSeq(q, n + 1, Len(q))
      /\ readers2 = IF asWriter THEN readers ELSE readers + n
      /\ writer2 = (writing \/ asWriter)
      /\ st2 = [c \in Callers |-> IF c \in granted THEN "granted" ELSE st[c]]

\* Whatever a dispatch starts from, it leaves the queue and the counters in
\* agreement with the stages, exclusion intact and no wakeup lost.
LEMMA DispatchRestores ==
  ASSUME NEW q, NEW modes, NEW readers, NEW writing, NEW st,
         NEW q2, NEW readers2, NEW writer2, NEW st2,
         Dispatchable(q, modes, readers, writing, st),
         Dispatched(q, modes, readers, writing, st, q2, readers2, writer2, st2)
  PROVE  /\ Dispatchable(q2, modes, readers2, writer2, st2)
         /\ q2 # <<>> => writer2 \/ (readers2 > 0 /\ modes[Head(q2)] = "exclusive")
<1> DEFINE n == Grantable(q, modes, readers, writing)
           granted == {q[i] : i \in 1..n}
           asWriter == n > 0 /\ modes[Head(q)] = "exclusive"
<1>1. /\ q \in Seq(Callers) /\ modes \in [Callers -> Modes]
      /\ st \in [Callers -> Stages] /\ readers \in Nat /\ writing \in BOOLEAN
      /\ \A i, j \in 1..Len(q) : q[i] = q[j] => i = j
      /\ Elements(q) = {c \in Callers : st[c] = "waiting"}
  BY DEF Dispatchable
<1>2. /\ n \in 0..Len(q)
      /\ n > 0 => ~writing
      /\ asWriter => n = 1 /\ readers = 0
      /\ n > 0 /\ ~asWriter => \A i \in 1..n : modes[q[i]] = "shared"
      /\ n < Len(q) => \/ writing
                       \/ asWriter
                       \/ (readers > 0 \/ n > 0) /\ modes[q[n + 1]] = "exclusive"
  BY <1>1, GrantableSpec
<1>3. /\ q2 = SubSeq(q, n + 1, Len(q))
      /\ readers2 = IF asWriter THEN readers ELSE readers + n
      /\ writer2 = (writing \/ asWriter)
      /\ st2 = [c \in Callers |-> IF c \in granted THEN "granted" ELSE st[c]]
  BY DEF Dispatched
<1> HIDE DEF n
<1>4. /\ q2 \in Seq(Callers)
      /\ Len(q2) = Len(q) - n
      /\ \A i \in 1..Len(q2) : q2[i] = q[n + i]
  <2>1. \A i \in (n + 1)..Len(q) : q[i] \in Callers
    BY <1>1, <1>2
  <2>2. /\ SubSeq(q, n + 1, Len(q)) \in Seq(Callers)
        /\ Len(SubSeq(q, n + 1, Len(q))) = Len(q) - n
        /\ \A i \in 1..(Len(q) - n) : SubSeq(q, n + 1, Len(q))[i] = q[n + i]
    BY <1>1, <1>2, <2>1
  <2> QED BY <1>3, <2>2
<1>5. granted \subseteq Callers /\ \A c \in granted : st[c] = "waiting"
  BY <1>1, <1>2 DEF Elements
<1>6. /\ st2 \in [Callers -> Stages]
      /\ readers2 \in Nat
      /\ writer2 \in BOOLEAN
  BY <1>1, <1>2, <1>3 DEF Stages
<1>7. ASSUME NEW i \in 1..Len(q2), NEW j \in 1..Len(q2), q2[i] = q2[j]
      PROVE  i = j
  <2>1. n + i \in 1..Len(q) /\ n + j \in 1..Len(q)
    BY <1>1, <1>2, <1>4
  <2>2. q[n + i] = q[n + j]
    BY <1>4, <1>7
  <2>3. n + i = n + j
    BY <1>1, <2>1, <2>2
  <2> QED BY <1>2, <2>3
<1>8. Elements(q2) = {c \in Callers : st2[c] = "waiting"}
  <2>1. ASSUME NEW c \in Elements(q2)
        PROVE  c \in Callers /\ st2[c] = "waiting"
    <3>1. PICK i \in 1..Len(q2) : c = q[n + i]
      BY <1>4 DEF Elements
    <3>2. n + i \in 1..Len(q) /\ n + i \notin 1..n
      BY <1>1, <1>2, <1>4, <3>1
    <3>3. c \notin granted
      BY <1>1, <1>2, <3>1, <3>2
    <3>4. c \in Callers /\ st[c] = "waiting"
      BY <1>1, <3>1, <3>2 DEF Elements
    <3> QED BY <1>3, <3>3, <3>4
  <2>2. ASSUME NEW c \in Callers, st2[c] = "waiting"
        PROVE  c \in Elements(q2)
    <3>1. c \notin granted /\ st[c] = "waiting"
      BY <1>3, <2>2
    <3>2. PICK i \in 1..Len(q) : c = q[i]
      BY <1>1, <3>1 DEF Elements
    <3>3. i \notin 1..n
      BY <3>1, <3>2
    <3>4. i - n \in 1..Len(q2) /\ q2[i - n] = q[i]
      BY <1>1, <1>2, <1>4, <3>2, <3>3
    <3> QED BY <3>2, <3>4 DEF Elements
  <2> QED BY <2>1, <2>2
<1>9. CASE asWriter
  <2>1. granted = {q[1]} /\ q[1] \in Callers /\ modes[q[1]] = "exclusive"
    BY <1>1, <1>2, <1>9
  <2>2. Inside(st, modes, "shared") = {}
    <3>1. Inside(st, modes, "shared") \subseteq Callers
      BY DEF Inside
    <3>2. IsFiniteSet(Inside(st, modes, "shared"))
      BY <3>1, CallersFinite, FS_Subset
    <3> QED BY <1>2, <1>9, <3>2, FS_EmptySet DEF Dispatchable
  <2>3. Inside(st, modes, "exclusive") = {}
    BY <1>2, <1>9 DEF Dispatchable
  <2>4. Inside(st2, modes, "shared") = {}
    BY <1>1, <1>3, <2>1, <2>2 DEF Inside
  <2>5. Inside(st2, modes, "exclusive") = {q[1]}
    BY <1>1, <1>3, <2>1, <2>3 DEF Inside
  <2>6. readers2 = Cardinality(Inside(st2, modes, "shared"))
    BY <1>2, <1>3, <1>9, <2>4, FS_EmptySet
  <2>7. writer2 <=> Inside(st2, modes, "exclusive") # {}
    BY <1>3, <1>9, <2>5
  <2>8. \A c, d \in Callers :
          c # d /\ c \in Inside(st2, modes, "exclusive")
            => d \notin Inside(st2, modes, "shared")
                        \union Inside(st2, modes, "exclusive")
    BY <2>4, <2>5
  <2> QED
    BY <1>1, <1>3, <1>4, <1>6, <1>7, <1>8, <1>9, <2>6, <2>7, <2>8 DEF Dispatchable
<1>10. CASE ~asWriter
  <2>1. \A c \in granted : modes[c] = "shared"
    BY <1>1, <1>2, <1>10
  <2>2. Inside(st2, modes, "exclusive") = Inside(st, modes, "exclusive")
    BY <1>1, <1>3, <1>5, <2>1 DEF Inside, Modes
  <2>3. Inside(st2, modes, "shared") = Inside(st, modes, "shared") \union granted
    BY <1>1, <1>3, <1>5, <2>1 DEF Inside
  <2>4. Inside(st, modes, "shared") \intersect granted = {}
    BY <1>5 DEF Inside
  <2>5. Cardinality(granted) = n
    BY <1>1, <1>2, PrefixCardinality
  <2>6. IsFiniteSet(granted) /\ IsFiniteSet(Inside(st, modes, "shared"))
    <3>1. Inside(st, modes, "shared") \subseteq Callers
      BY DEF Inside
    <3> QED BY <1>5, <3>1, CallersFinite, FS_Subset
  <2>7. readers2 = Cardinality(Inside(st2, modes, "shared"))
    <3>1. Cardinality(Inside(st, modes, "shared") \union granted)
            = Cardinality(Inside(st, modes, "shared")) + Cardinality(granted) - 0
      BY <2>4, <2>6, FS_Union, FS_EmptySet
    <3>2. Cardinality(Inside(st, modes, "shared")) = readers
      BY DEF Dispatchable
    <3>3. readers2 = readers + n
      BY <1>3, <1>10
    <3>4. n \in Nat /\ readers \in Nat
      BY <1>1, <1>2
    <3> HIDE DEF granted
    <3>5. Cardinality(Inside(st, modes, "shared") \union granted) = readers + n
      BY <2>5, <3>1, <3>2, <3>4
    <3> QED BY <2>3, <3>3, <3>5
  <2>8. writer2 <=> Inside(st2, modes, "exclusive") # {}
    BY <1>3, <1>10, <2>2 DEF Dispatchable
  <2>9. \A c, d \in Callers :
          c # d /\ c \in Inside(st2, modes, "exclusive")
            => d \notin Inside(st2, modes, "shared")
                        \union Inside(st2, modes, "exclusive")
    <3>1. CASE n = 0
      <4>1. granted = {}
        BY <3>1
      <4> QED BY <2>2, <2>3, <4>1 DEF Dispatchable
    <3>2. CASE n > 0
      <4>1. Inside(st, modes, "exclusive") = {}
        BY <1>2, <3>2 DEF Dispatchable
      <4> QED BY <2>2, <4>1
    <3> QED BY <1>2, <3>1, <3>2
  <2>10. Dispatchable(q2, modes, readers2, writer2, st2)
    BY <1>1, <1>4, <1>6, <1>7, <1>8, <2>7, <2>8, <2>9 DEF Dispatchable
  <2>11. ASSUME q2 # <<>>
         PROVE  writer2 \/ (readers2 > 0 /\ modes[Head(q2)] = "exclusive")
    <3>1. Len(q2) > 0 /\ Head(q2) = q[n + 1] /\ n < Len(q)
      BY <1>1, <1>2, <1>4, <2>11
    <3>2. writing \/ ((readers > 0 \/ n > 0) /\ modes[q[n + 1]] = "exclusive")
      BY <1>2, <1>10, <3>1
    <3>3. readers2 = readers + n /\ (writing => writer2)
      BY <1>3, <1>10
    <3>4. readers > 0 \/ n > 0 => readers2 > 0
      BY <1>1, <1>2, <3>3
    <3> QED BY <3>1, <3>2, <3>3, <3>4
  <2> QED BY <2>10, <2>11
<1>11. QED BY <1>9, <1>10

\* Dispatch, as an action, from values that are dispatchable.
LEMMA DispatchInv ==
  ASSUME NEW q, NEW modes, NEW readers, NEW writing, NEW st,
         Dispatchable(q, modes, readers, writing, st),
         Dispatch(q, modes, readers, writing, st),
         mode' = modes, aborted' \in SUBSET Callers
  PROVE  Inv'
<1>1. Dispatched(q, modes, readers, writing, st,
                 queue', activeReaders', writerActive', stage')
  BY DEF Dispatch, Dispatched
<1>2. /\ Dispatchable(queue', mode', activeReaders', writerActive', stage')
      /\ queue' # <<>> =>
           writerActive' \/ (activeReaders' > 0 /\ mode'[Head(queue')] = "exclusive")
  BY <1>1, DispatchRestores
<1>3. QED
  BY <1>2 DEF Dispatchable, Inv, TypeOK, QueueIsTheWaiters, CountersExact,
              Exclusion, NoLostWakeup, Waiting, Elements, Holders, Inside

\* Removing a waiter by its index keeps the other waiters, in their order.
LEMMA WithoutSpec ==
  ASSUME NEW q \in Seq(Callers), NEW c \in Elements(q),
         \A i, j \in 1..Len(q) : q[i] = q[j] => i = j
  PROVE  /\ Without(q, c) \in Seq(Callers)
         /\ \A i, j \in 1..Len(Without(q, c)) :
              Without(q, c)[i] = Without(q, c)[j] => i = j
         /\ Elements(Without(q, c)) = Elements(q) \ {c}
<1> DEFINE at == CHOOSE i \in 1..Len(q) : q[i] = c
           w  == [i \in 1..(Len(q) - 1) |-> IF i < at THEN q[i] ELSE q[i + 1]]
<1>1. at \in 1..Len(q) /\ q[at] = c
  BY DEF Elements
<1> HIDE DEF at
<1>2. w \in Seq(Callers) /\ Len(w) = Len(q) - 1
  <2>1. \A i \in 1..(Len(q) - 1) : w[i] \in Callers
    BY <1>1
  <2>2. w \in [1..(Len(q) - 1) -> Callers]
    BY <2>1
  <2> QED BY <1>1, <2>2
<1>3. ASSUME NEW i \in 1..Len(w)
      PROVE  \E k \in 1..Len(q) :
               k # at /\ w[i] = q[k] /\ k = IF i < at THEN i ELSE i + 1
  <2>1. i \in 1..(Len(q) - 1)
    BY <1>2
  <2>2. CASE i < at
    <3>1. w[i] = q[i] /\ i \in 1..Len(q) /\ i # at
      BY <1>1, <2>1, <2>2
    <3> HIDE DEF w
    <3> QED BY <2>2, <3>1
  <2>3. CASE ~(i < at)
    <3>1. w[i] = q[i + 1] /\ i + 1 \in 1..Len(q) /\ i + 1 # at
      BY <1>1, <2>1, <2>3
    <3> HIDE DEF w
    <3> QED BY <2>3, <3>1
  <2> QED BY <2>2, <2>3
<1>4. ASSUME NEW i \in 1..Len(w), NEW j \in 1..Len(w), w[i] = w[j]
      PROVE  i = j
  <2> HIDE DEF w
  <2>1. PICK k \in 1..Len(q) : w[i] = q[k] /\ k = IF i < at THEN i ELSE i + 1
    BY <1>3
  <2>2. PICK l \in 1..Len(q) : w[j] = q[l] /\ l = IF j < at THEN j ELSE j + 1
    BY <1>3
  <2>3. k = l
    BY <1>4, <2>1, <2>2
  <2> QED BY <1>1, <1>2, <2>1, <2>2, <2>3
<1>5. Elements(w) \subseteq Elements(q) \ {c}
  <2> HIDE DEF w
  <2> QED BY <1>1, <1>3 DEF Elements
<1>6. ASSUME NEW d \in Elements(q), d # c
      PROVE  d \in Elements(w)
  <2>1. PICK k \in 1..Len(q) : d = q[k]
    BY DEF Elements
  <2>2. CASE k < at
    <3>1. k \in 1..Len(w) /\ w[k] = d
      BY <1>1, <1>2, <2>1, <2>2
    <3> QED BY <3>1 DEF Elements
  <2>3. CASE k > at
    <3>1. k - 1 \in 1..Len(w) /\ w[k - 1] = d
      BY <1>1, <1>2, <2>1, <2>3
    <3> QED BY <3>1 DEF Elements
  <2> QED BY <1>1, <1>6, <2>1, <2>2, <2>3
<1>7. Without(q, c) = w
  BY DEF Without, at
<1>8. QED
  <2> HIDE DEF w
  <2> QED BY <1>2, <1>4, <1>5, <1>6, <1>7

-----------------------------------------------------------------------------
(***************************************************************************)
(* Each operation keeps the invariant                                      *)
(***************************************************************************)

\* A caller inside gives back what it holds.
LEMMA ReleaseDispatches ==
  ASSUME NEW c \in Callers, Inv, stage[c] \in {"granted", "running"}, Release(c)
  PROVE  LET st == [stage EXCEPT ![c] = "idle"]
         IN  \/ /\ Dispatchable(queue, mode, activeReaders, FALSE, st)
                /\ Dispatch(queue, mode, activeReaders, FALSE, st)
             \/ /\ Dispatchable(queue, mode, activeReaders - 1, writerActive, st)
                /\ Dispatch(queue, mode, activeReaders - 1, writerActive, st)
<1> DEFINE st == [stage EXCEPT ![c] = "idle"]
<1>1. /\ TypeOK /\ QueueIsTheWaiters /\ CountersExact /\ Exclusion
      /\ IsFiniteSet(Holders("shared"))
  <2>1. Holders("shared") \subseteq Callers
    BY DEF Holders
  <2> QED BY <2>1, CallersFinite, FS_Subset DEF Inv, TypeOK
<1>2. st \in [Callers -> Stages]
  BY <1>1 DEF TypeOK, Stages
<1>3. Elements(queue) = {d \in Callers : st[d] = "waiting"}
  BY <1>1 DEF TypeOK, QueueIsTheWaiters, Waiting, Elements
<1>4. CASE mode[c] = "exclusive"
  <2>1. Inside(st, mode, "shared") = Holders("shared")
    BY <1>1, <1>4 DEF Inside, Holders, TypeOK
  <2>2. Inside(st, mode, "exclusive") = {}
    BY <1>1, <1>4 DEF Inside, Holders, Exclusion, TypeOK
  <2>3. Dispatchable(queue, mode, activeReaders, FALSE, st)
    BY <1>1, <1>2, <1>3, <2>1, <2>2
       DEF Dispatchable, TypeOK, QueueIsTheWaiters, CountersExact
  <2> QED BY <1>4, <2>3 DEF Release
<1>5. CASE mode[c] # "exclusive"
  <2>1. mode[c] = "shared" /\ c \in Holders("shared")
    BY <1>1, <1>5 DEF TypeOK, Modes, Holders
  <2>2. Inside(st, mode, "shared") = Holders("shared") \ {c}
    BY <1>1 DEF Inside, Holders, TypeOK
  <2>3. Inside(st, mode, "exclusive") = Holders("exclusive")
    BY <1>1, <2>1 DEF Inside, Holders, TypeOK
  <2>4. Cardinality(Holders("shared") \ {c}) = Cardinality(Holders("shared")) - 1
    BY <1>1, <2>1, FS_RemoveElement
  <2>5. activeReaders - 1 \in Nat
        /\ activeReaders - 1 = Cardinality(Inside(st, mode, "shared"))
    <3>1. IsFiniteSet(Holders("shared") \ {c})
      BY <1>1, FS_RemoveElement
    <3>2. Cardinality(Holders("shared") \ {c}) \in Nat
      BY <3>1, FS_CardinalityType
    <3> QED BY <1>1, <2>2, <2>4, <3>2 DEF CountersExact
  <2>6. \A d, e \in Callers :
          d # e /\ d \in Inside(st, mode, "exclusive")
            => e \notin Inside(st, mode, "shared") \union Inside(st, mode, "exclusive")
    BY <1>1, <2>2, <2>3 DEF Exclusion
  <2>7. Dispatchable(queue, mode, activeReaders - 1, writerActive, st)
    BY <1>1, <1>2, <1>3, <2>3, <2>5, <2>6
       DEF Dispatchable, TypeOK, QueueIsTheWaiters, CountersExact
  <2> QED BY <1>5, <2>7 DEF Release
<1>6. QED BY <1>4, <1>5

\* A new waiter goes to the end of the queue.
LEMMA RequestDispatches ==
  ASSUME NEW c \in Callers, NEW m \in Modes, Inv, Request(c, m)
  PROVE  Dispatchable(Append(queue, c), [mode EXCEPT ![c] = m], activeReaders,
                      writerActive, [stage EXCEPT ![c] = "waiting"])
<1> DEFINE st == [stage EXCEPT ![c] = "waiting"]
           md == [mode EXCEPT ![c] = m]
           q  == Append(queue, c)
<1>1. /\ TypeOK /\ QueueIsTheWaiters /\ CountersExact /\ Exclusion
      /\ stage[c] = "idle"
  BY DEF Inv, Request, TypeOK
<1>2. /\ st \in [Callers -> Stages] /\ md \in [Callers -> Modes]
      /\ q \in Seq(Callers) /\ Len(q) = Len(queue) + 1
      /\ \A i \in 1..Len(queue) : q[i] = queue[i]
      /\ q[Len(queue) + 1] = c
  BY <1>1 DEF TypeOK, Stages
<1>3. Inside(st, md, "shared") = Holders("shared")
  BY <1>1 DEF Inside, Holders, TypeOK
<1>4. Inside(st, md, "exclusive") = Holders("exclusive")
  BY <1>1 DEF Inside, Holders, TypeOK
<1>5. \A i \in 1..Len(queue) : queue[i] # c
  BY <1>1 DEF QueueIsTheWaiters, Waiting, TypeOK
<1>6. ASSUME NEW i \in 1..Len(q), NEW j \in 1..Len(q), q[i] = q[j]
      PROVE  i = j
  <2> HIDE DEF q
  <2>1. CASE i \in 1..Len(queue) /\ j \in 1..Len(queue)
    BY <1>1, <1>2, <1>6, <2>1 DEF QueueIsTheWaiters
  <2>2. CASE ~(i \in 1..Len(queue) /\ j \in 1..Len(queue))
    BY <1>1, <1>2, <1>5, <1>6, <2>2 DEF TypeOK
  <2> QED BY <2>1, <2>2
<1>7. Elements(q) = Elements(queue) \union {c}
  <2> HIDE DEF q
  <2>1. 1..Len(q) = 1..Len(queue) \union {Len(queue) + 1}
    BY <1>1, <1>2 DEF TypeOK
  <2> QED BY <1>2, <2>1 DEF Elements
<1>8. Elements(q) = {d \in Callers : st[d] = "waiting"}
  <2> HIDE DEF q
  <2> QED BY <1>1, <1>7 DEF TypeOK, QueueIsTheWaiters, Waiting, Elements
<1>9. Dispatchable(q, md, activeReaders, writerActive, st)
  <2> HIDE DEF q, md, st
  <2> QED BY <1>1, <1>2, <1>3, <1>4, <1>6, <1>8
             DEF Dispatchable, TypeOK, CountersExact, Exclusion
<1>10. QED
  BY <1>9

\* A cancelled waiter leaves the queue from wherever it stands.
LEMMA AbortDispatches ==
  ASSUME NEW c \in Callers, Inv, stage[c] = "waiting"
  PROVE  Dispatchable(Without(queue, c), mode, activeReaders, writerActive,
                      [stage EXCEPT ![c] = "idle"])
<1> DEFINE st == [stage EXCEPT ![c] = "idle"]
<1>1. TypeOK /\ QueueIsTheWaiters /\ CountersExact /\ Exclusion
  BY DEF Inv
<1>2. c \in Elements(queue)
  BY <1>1 DEF QueueIsTheWaiters, Waiting, Elements
<1>3. /\ Without(queue, c) \in Seq(Callers)
      /\ \A i, j \in 1..Len(Without(queue, c)) :
           Without(queue, c)[i] = Without(queue, c)[j] => i = j
      /\ Elements(Without(queue, c)) = Elements(queue) \ {c}
  BY <1>1, <1>2, WithoutSpec DEF TypeOK, QueueIsTheWaiters
<1>4. st \in [Callers -> Stages]
  BY <1>1 DEF TypeOK, Stages
<1>5. Inside(st, mode, "shared") = Holders("shared")
  BY <1>1 DEF Inside, Holders, TypeOK
<1>6. Inside(st, mode, "exclusive") = Holders("exclusive")
  BY <1>1 DEF Inside, Holders, TypeOK
<1>7. Elements(Without(queue, c)) = {d \in Callers : st[d] = "waiting"}
  BY <1>1, <1>3 DEF TypeOK, QueueIsTheWaiters, Waiting, Elements
<1>8. QED
  BY <1>1, <1>3, <1>4, <1>5, <1>6, <1>7
     DEF Dispatchable, TypeOK, CountersExact, Exclusion

\* The operation starts: the holder stays the holder.
LEMMA BeginInv ==
  ASSUME NEW c \in Callers, Inv, Begin(c)
  PROVE  Inv'
<1>1. Holders("shared")' = Holders("shared")
  BY DEF Inv, TypeOK, Begin, Holders
<1>2. Holders("exclusive")' = Holders("exclusive")
  BY DEF Inv, TypeOK, Begin, Holders
<1>3. Waiting' = Waiting /\ Waiting = {d \in Callers : stage'[d] = "waiting"}
  BY DEF Inv, TypeOK, QueueIsTheWaiters, Begin, Waiting
<1>4. stage' \in [Callers -> Stages]
  BY DEF Inv, TypeOK, Begin, Stages
<1>5. QED
  BY <1>1, <1>2, <1>3, <1>4
     DEF Inv, Begin, TypeOK, QueueIsTheWaiters, CountersExact, Exclusion, NoLostWakeup

\* An unused gate satisfies the inductive invariant.
LEMMA InitInv == Init => Inv
<1> SUFFICES ASSUME Init PROVE Inv
  OBVIOUS
<1>1. Holders("shared") = {} /\ Holders("exclusive") = {}
  BY DEF Init, Holders
<1>2. TypeOK
  <2>1. mode \in [Callers -> Modes] /\ stage \in [Callers -> Stages]
    BY DEF Init, Modes, Stages
  <2>2. queue \in Seq(Callers)
    BY DEF Init
  <2> QED BY <2>1, <2>2 DEF Init, TypeOK
<1>3. QueueIsTheWaiters
  BY DEF Init, QueueIsTheWaiters, Waiting
<1>4. CountersExact
  BY <1>1, FS_EmptySet DEF Init, CountersExact
<1>5. QED
  BY <1>1, <1>2, <1>3, <1>4 DEF Init, Inv, Exclusion, NoLostWakeup

\* Every operation of the gate preserves the inductive invariant.
LEMMA NextInv == Inv /\ [Next]_vars => Inv'
<1> SUFFICES ASSUME Inv, [Next]_vars PROVE Inv'
  OBVIOUS
<1>1. ASSUME NEW c \in Callers, NEW m \in Modes, Request(c, m) PROVE Inv'
  <2>1. aborted' \in SUBSET Callers
    BY <1>1 DEF Inv, TypeOK, Request
  <2> QED BY <1>1, <2>1, RequestDispatches, DispatchInv DEF Request
<1>2. ASSUME NEW c \in Callers, Abort(c) PROVE Inv'
  <2>1. aborted' \in SUBSET Callers
    BY <1>2 DEF Inv, TypeOK, Abort
  <2>2. CASE stage[c] = "waiting"
    BY <1>2, <2>1, <2>2, AbortDispatches, DispatchInv DEF Abort
  <2>3. CASE stage[c] # "waiting"
    BY <1>2, <2>1, <2>3
       DEF Abort, Inv, TypeOK, QueueIsTheWaiters, CountersExact, Exclusion,
           NoLostWakeup, Waiting, Holders
  <2> QED BY <2>2, <2>3
<1>3. ASSUME NEW c \in Callers, Begin(c) PROVE Inv'
  BY <1>3, BeginInv
<1>4. ASSUME NEW c \in Callers, GiveUp(c) PROVE Inv'
  <2>1. aborted' \in SUBSET Callers
    BY <1>4 DEF Inv, TypeOK, GiveUp
  <2> QED BY <1>4, <2>1, ReleaseDispatches, DispatchInv DEF GiveUp
<1>5. ASSUME NEW c \in Callers, Finish(c) PROVE Inv'
  <2>1. aborted' \in SUBSET Callers
    BY <1>5 DEF Inv, TypeOK, Finish
  <2> QED BY <1>5, <2>1, ReleaseDispatches, DispatchInv DEF Finish
<1>6. ASSUME NEW c \in Callers, Renew(c) PROVE Inv'
  BY <1>6 DEF Renew, Inv, TypeOK, QueueIsTheWaiters, CountersExact, Exclusion,
              NoLostWakeup, Waiting, Holders
<1>7. CASE UNCHANGED vars
  BY <1>7 DEF vars, Inv, TypeOK, QueueIsTheWaiters, CountersExact, Exclusion,
              NoLostWakeup, Waiting, Holders
<1>8. QED
  BY <1>1, <1>2, <1>3, <1>4, <1>5, <1>6, <1>7 DEF Next

\* The inductive invariant holds in every reachable state.
THEOREM InvHolds == Spec => []Inv
  BY InitInv, NextInv, PTL DEF Spec

\* A command that touches the Environment exclusively is alone inside the
\* gate, whichever Agents the other commands belong to.
THEOREM GateExclusion == Spec => []Exclusion
  BY InvHolds, PTL DEF Inv

\* The counters dispatch decides on are exact in every reachable state.
THEOREM GateCountersExact == Spec => []CountersExact
  BY InvHolds, PTL DEF Inv

\* A waiter is in the queue exactly as long as its promise is unsettled.
THEOREM GateQueueIsTheWaiters == Spec => []QueueIsTheWaiters
  BY InvHolds, PTL DEF Inv

\* No interleaving of requests, cancellations and releases leaves a waiter
\* at the head of the queue that nothing will dispatch.
THEOREM GateNoLostWakeup == Spec => []NoLostWakeup
  BY InvHolds, PTL DEF Inv

-----------------------------------------------------------------------------
(***************************************************************************)
(* Refinement                                                              *)
(***************************************************************************)

\* The gate implements the readers/writers promise: at every step whoever is
\* inside is compatible, and nobody changes mode while inside.
THEOREM GateImplementsReadersWriters == Spec => ReadersWritersSpec
<1> DEFINE in == [c \in Callers |-> IF stage[c] \in {"granted", "running"}
                                   THEN mode[c] ELSE "out"]
<1>1. Init => Promise!Init
  BY DEF Init, Promise!Init
<1>2. ASSUME Inv, Inv', [Next]_vars
      PROVE  Promise!Move \/ UNCHANGED in
  <2>1. CASE UNCHANGED vars
    BY <2>1 DEF vars
  <2>2. CASE Next
    <3>1. in' \in [Callers -> Promise!Holding]
      BY <1>2 DEF Inv, TypeOK, Modes, Promise!Holding
    <3>2. Promise!Compatible(in')
      BY <1>2 DEF Inv, TypeOK, Modes, Exclusion, Holders, Promise!Compatible
    <3>3. \A c \in Callers : in[c] # "out" => in'[c] \in {in[c], "out"}
      <4> SUFFICES ASSUME NEW c \in Callers, in[c] # "out"
                   PROVE  in'[c] \in {in[c], "out"}
        OBVIOUS
      <4>1. mode'[c] = mode[c]
        BY <1>2, <2>2 DEF Next, Request, Abort, Begin, GiveUp, Finish, Renew, Inv, TypeOK
      <4> QED BY <4>1
    <3> QED BY <3>1, <3>2, <3>3 DEF Promise!Move
  <2> QED BY <1>2, <2>1, <2>2
<1>3. QED
  BY <1>1, <1>2, InvHolds, PTL DEF Spec, ReadersWritersSpec, Promise!Spec
-----------------------------------------------------------------------------
(***************************************************************************)
(* Writer fairness                                                         *)
(***************************************************************************)

\* A dispatch lets in a prefix of the queue.
LEMMA DispatchInOrder ==
  ASSUME NEW q, NEW modes, NEW readers, NEW writing, NEW st,
         Dispatchable(q, modes, readers, writing, st),
         Dispatch(q, modes, readers, writing, st),
         NEW k \in 1..Len(q), NEW l \in 1..Len(q), k < l,
         stage'[q[l]] = "granted"
  PROVE  stage'[q[k]] = "granted"
<1> DEFINE n == Grantable(q, modes, readers, writing)
           granted == {q[i] : i \in 1..n}
<1>1. /\ q \in Seq(Callers) /\ modes \in [Callers -> Modes]
      /\ readers \in Nat /\ writing \in BOOLEAN
      /\ \A i, j \in 1..Len(q) : q[i] = q[j] => i = j
      /\ \A i \in 1..Len(q) : q[i] \in Callers /\ st[q[i]] = "waiting"
  BY DEF Dispatchable, Elements
<1>2. n \in 0..Len(q)
  BY <1>1, GrantableSpec
<1>3. stage' = [c \in Callers |-> IF c \in granted THEN "granted" ELSE st[c]]
  BY DEF Dispatch
<1> HIDE DEF n
<1>4. q[l] \in granted
  BY <1>1, <1>3
<1>5. l \in 1..n
  BY <1>1, <1>2, <1>4
<1>6. q[k] \in granted
  BY <1>2, <1>5
<1>7. QED
  BY <1>1, <1>3, <1>6

\* The waiters left by Without stand in their old order.
LEMMA WithoutKeepsOrder ==
  ASSUME NEW q \in Seq(Callers), NEW c \in Elements(q),
         NEW i \in 1..Len(q), NEW j \in 1..Len(q), i < j, q[i] # c, q[j] # c
  PROVE  \E k, l \in 1..Len(Without(q, c)) :
           k < l /\ Without(q, c)[k] = q[i] /\ Without(q, c)[l] = q[j]
<1> DEFINE at == CHOOSE x \in 1..Len(q) : q[x] = c
           w  == [x \in 1..(Len(q) - 1) |-> IF x < at THEN q[x] ELSE q[x + 1]]
<1>1. at \in 1..Len(q) /\ q[at] = c
  BY DEF Elements
<1>2. Without(q, c) = w
  BY DEF Without
<1> HIDE DEF at
<1>3. Len(w) = Len(q) - 1
  BY <1>1
<1>4. i # at /\ j # at
  BY <1>1
<1>5. CASE j < at
  <2>1. i \in 1..(Len(q) - 1) /\ j \in 1..(Len(q) - 1) /\ w[i] = q[i] /\ w[j] = q[j]
    BY <1>1, <1>5
  <2> QED BY <1>2, <1>3, <2>1
<1>6. CASE i < at /\ at < j
  <2>1. /\ i \in 1..(Len(q) - 1) /\ j - 1 \in 1..(Len(q) - 1) /\ i < j - 1
        /\ w[i] = q[i] /\ w[j - 1] = q[j]
    BY <1>1, <1>6
  <2> QED BY <1>2, <1>3, <2>1
<1>7. CASE at < i
  <2>1. /\ i - 1 \in 1..(Len(q) - 1) /\ j - 1 \in 1..(Len(q) - 1) /\ i - 1 < j - 1
        /\ w[i - 1] = q[i] /\ w[j - 1] = q[j]
    BY <1>1, <1>7
  <2> QED BY <1>2, <1>3, <2>1
<1>8. QED BY <1>1, <1>4, <1>5, <1>6, <1>7

\* Nobody overtakes a waiter that stays in the queue, so a writer waits only
\* for those that came before it.
THEOREM GateNoOvertaking == Spec => NoOvertaking
<1>1. ASSUME Inv, [Next]_vars,
             NEW i \in 1..Len(queue), NEW j \in 1..Len(queue), i < j,
             stage'[queue[j]] = "granted"
      PROVE  stage'[queue[i]] # "waiting"
  <2>1. /\ queue \in Seq(Callers)
        /\ \A k \in 1..Len(queue) : queue[k] \in Callers /\ stage[queue[k]] = "waiting"
        /\ stage \in [Callers -> Stages]
        /\ queue[i] # queue[j]
    BY <1>1 DEF Inv, TypeOK, QueueIsTheWaiters, Waiting
  <2>2. ASSUME NEW c \in Callers, NEW m \in Modes, Request(c, m)
        PROVE  stage'[queue[i]] = "granted"
    <3> DEFINE q == Append(queue, c)
    <3>1. /\ i \in 1..Len(q) /\ j \in 1..Len(q)
          /\ q[i] = queue[i] /\ q[j] = queue[j]
      BY <2>1
    <3>2. /\ Dispatchable(q, mode', activeReaders, writerActive,
                           [stage EXCEPT ![c] = "waiting"])
          /\ Dispatch(q, mode', activeReaders, writerActive,
                      [stage EXCEPT ![c] = "waiting"])
      BY <1>1, <2>2, RequestDispatches DEF Request
    <3> HIDE DEF q
    <3> QED BY <1>1, <3>1, <3>2, DispatchInOrder
  <2>3. ASSUME NEW c \in Callers, Abort(c), stage[c] = "waiting"
        PROVE  stage'[queue[i]] # "waiting"
    <3> DEFINE st == [stage EXCEPT ![c] = "idle"]
               q  == Without(queue, c)
               granted == {q[x] : x \in 1..Grantable(q, mode, activeReaders, writerActive)}
    <3>1. Dispatchable(q, mode, activeReaders, writerActive, st)
      BY <1>1, <2>3, AbortDispatches
    <3>2. Dispatch(q, mode, activeReaders, writerActive, st)
      BY <2>3 DEF Abort
    <3>3. stage' = [d \in Callers |-> IF d \in granted THEN "granted" ELSE st[d]]
      BY <3>2 DEF Dispatch
    <3>4. c \in Elements(queue)
      BY <1>1, <2>3 DEF Inv, QueueIsTheWaiters, Waiting, Elements
    <3>5. stage'[c] = "idle"
      <4>1. c \notin Elements(q)
        BY <1>1, <2>1, <3>4, WithoutSpec DEF Inv, QueueIsTheWaiters
      <4>2. Grantable(q, mode, activeReaders, writerActive) \in 0..Len(q)
        <5> HIDE DEF q, st
        <5> QED BY <3>1, GrantableSpec DEF Dispatchable
      <4>3. granted \subseteq Elements(q)
        <5> HIDE DEF q
        <5> QED BY <3>1, <4>2 DEF Elements, Dispatchable
      <4> HIDE DEF granted, q
      <4> QED BY <2>1, <3>3, <4>1, <4>3
    <3>6. CASE queue[i] = c
      BY <3>5, <3>6
    <3>7. CASE queue[i] # c
      <4>1. queue[j] # c
        BY <1>1, <3>5
      <4>2. PICK k, l \in 1..Len(q) : k < l /\ q[k] = queue[i] /\ q[l] = queue[j]
        BY <1>1, <2>1, <3>4, <3>7, <4>1, WithoutKeepsOrder
      <4> HIDE DEF q, st
      <4> QED BY <1>1, <3>1, <3>2, <4>2, DispatchInOrder
    <3> QED BY <3>6, <3>7
  <2>4. ASSUME NEW c \in Callers, GiveUp(c) \/ Finish(c)
        PROVE  stage'[queue[i]] = "granted"
    <3>1. stage[c] \in {"granted", "running"} /\ Release(c)
      BY <2>4 DEF GiveUp, Finish
    <3>2. \E readers, writing :
            /\ Dispatchable(queue, mode, readers, writing, [stage EXCEPT ![c] = "idle"])
            /\ Dispatch(queue, mode, readers, writing, [stage EXCEPT ![c] = "idle"])
      BY <1>1, <3>1, ReleaseDispatches
    <3> QED BY <1>1, <3>2, DispatchInOrder
  <2>5. ASSUME NEW c \in Callers,
               \/ Begin(c)
               \/ Renew(c)
               \/ Abort(c) /\ stage[c] # "waiting"
        PROVE  FALSE
    <3>1. stage'[queue[j]] = "waiting"
      BY <2>1, <2>5 DEF Begin, Renew, Abort
    <3> QED BY <1>1, <3>1
  <2>6. CASE UNCHANGED vars
    BY <1>1, <2>1, <2>6 DEF vars
  <2> QED BY <1>1, <2>2, <2>3, <2>4, <2>5, <2>6 DEF Next
<1>2. Inv /\ [Next]_vars =>
        (\A i, j \in 1..Len(queue) :
           i < j /\ stage'[queue[j]] = "granted" => stage'[queue[i]] # "waiting")
  BY <1>1
<1>3. QED
  BY <1>2, InvHolds, PTL DEF Spec, NoOvertaking

-----------------------------------------------------------------------------
(***************************************************************************)
(* The writer of a connection (ThreadStream)                               *)
(***************************************************************************)

\* A request, and messages up to sequence number n.
Asks == {"resume", "read", "compact", "interrupt"}
Recs(n) == [kind : {"record"}, seq : 0..n, units : Units]
Resps(n) == [kind : {"response"}, seq : 0..n, units : Answers, to : Asks \cup {"refused"}]
Msgs(n) == Recs(n) \cup Resps(n)

\* No response is in q; or one, and nothing newer than it is before it.
Silent(q) == \A j \in 1..Len(q) : ~Stream!IsResponse(q[j])
Ordered(q, c) ==
  \A j \in 1..Len(q) : Stream!IsResponse(q[j]) =>
    /\ c <= q[j].seq
    /\ \A i \in 1..Len(q) : (i < j => q[i].seq <= q[j].seq) /\ (Stream!IsResponse(q[i]) => i = j)
\* Response m may be put behind q, the client being at c.
Follows(m, q, c) == c <= m.seq /\ Silent(q) /\ \A i \in 1..Len(q) : q[i].seq <= m.seq

IsWriter(w) ==
  w = [total |-> w.total, ordinary |-> w.ordinary, queue |-> w.queue, barrier |-> w.barrier,
       held |-> w.held, responseWaiters |-> w.responseWaiters, ordinaryWaiters |-> w.ordinaryWaiters]

\* What the writer has scheduled and holds, the thread being at n and the client at c.
QueueOK(w, n, c) ==
  /\ IsWriter(w) /\ w.barrier \in BOOLEAN
  /\ w.queue \in Seq(Msgs(n)) /\ w.held \in Seq(Recs(n))
  /\ Ordered(w.queue, c)
  /\ ~w.barrier => w.held = <<>>

\* A response waits alone, and what is newer than it is not scheduled.
WaitersOK(w, n, c) ==
  /\ w.ordinaryWaiters \in Seq(Recs(n)) /\ w.responseWaiters \in Seq(Resps(n))
  /\ w.responseWaiters # <<>> =>
       /\ w.barrier /\ Len(w.responseWaiters) = 1
       /\ Follows(w.responseWaiters[1], w.queue, c)

\* The barrier stands from the beginning of a request until its response is scheduled.
HandlingOK ==
  /\ phase # "open" => handling = "none" /\ inbound = <<>> /\ writer.ordinaryWaiters = <<>>
  /\ handling \in Asks => writer.barrier /\ writer.responseWaiters = <<>> /\ Silent(writer.queue)
  /\ handling = "none" => /\ ~writer.barrier /\ writer.responseWaiters = <<>>
                          /\ phase = "open" => Silent(writer.queue)
  /\ handling = "responding" /\ writer.responseWaiters = <<>> => ~writer.barrier

StreamTypes ==
  /\ seq \in Nat /\ phase \in {"open", "draining", "closed"}
  /\ inbound \in Seq(Asks) /\ handling \in Asks \cup {"none", "responding"}
  /\ client \in [seq : 0..seq, applied : SUBSET Nat, stale : BOOLEAN, recovering : BOOLEAN]

StreamOK ==
  /\ StreamTypes
  /\ QueueOK(writer, seq, client.seq) /\ WaitersOK(writer, seq, client.seq)
  /\ HandlingOK
  /\ Stream!FreshIsComplete

\* A sequence of some members is one of more.
LEMMA SeqMore == ASSUME NEW A, NEW B, A \subseteq B, NEW s \in Seq(A) PROVE s \in Seq(B)
OBVIOUS

\* The kinds of messages, and what was one stays one.
LEMMA MsgsGrow ==
  ASSUME NEW n \in Nat
  PROVE  /\ Recs(n) \subseteq Recs(n + 1) /\ Resps(n) \subseteq Resps(n + 1) /\ Msgs(n) \subseteq Msgs(n + 1)
         /\ Recs(n) \subseteq Msgs(n) /\ Resps(n) \subseteq Msgs(n)
         /\ \A m \in Recs(n) : ~Stream!IsResponse(m) /\ m.seq \in 0..n
         /\ \A m \in Resps(n) : Stream!IsResponse(m) /\ m.seq \in 0..n /\ m.to \in Asks \cup {"refused"}
<1>1. \A k : k \in 0..n => k \in 0..(n + 1)
  OBVIOUS
<1>2. Recs(n) \subseteq Recs(n + 1)
  BY <1>1 DEF Recs
<1>3. Resps(n) \subseteq Resps(n + 1)
  BY <1>1 DEF Resps
<1>4. \A m \in Recs(n) : ~Stream!IsResponse(m) /\ m.seq \in 0..n
  BY DEF Recs, Stream!IsResponse
<1>5. \A m \in Resps(n) : Stream!IsResponse(m) /\ m.seq \in 0..n /\ m.to \in Asks \cup {"refused"}
  BY DEF Resps, Stream!IsResponse
<1> QED BY <1>2, <1>3, <1>4, <1>5 DEF Msgs

\* Records may be put behind a queue.
LEMMA OrderedMore ==
  ASSUME NEW n \in Nat, NEW c \in Nat, NEW q \in Seq(Msgs(n)), NEW h \in Seq(Recs(n)), Ordered(q, c)
  PROVE  q \o h \in Seq(Msgs(n)) /\ Ordered(q \o h, c) /\ (Silent(q) => Silent(q \o h))
<1> DEFINE p == q \o h
<1>1. /\ Len(q) \in Nat /\ Len(h) \in Nat /\ Len(p) = Len(q) + Len(h)
      /\ \A i \in 1..Len(q) : p[i] = q[i] /\ q[i] \in Msgs(n)
      /\ \A i \in 1..Len(h) : p[Len(q) + i] = h[i] /\ h[i] \in Recs(n)
  OBVIOUS
<1>2. \A i \in 1..Len(p) : i \in 1..Len(q) \/ (i - Len(q) \in 1..Len(h) /\ i = Len(q) + (i - Len(q)))
  BY <1>1
<1>3. \A i \in 1..Len(h) : ~Stream!IsResponse(h[i])
  BY <1>1, MsgsGrow
<1>4. p \in Seq(Msgs(n))
  <2>1. h \in Seq(Msgs(n))
    BY MsgsGrow, SeqMore
  <2> QED BY <2>1
<1> HIDE DEF p
<1>5. \A j \in 1..Len(p) : Stream!IsResponse(p[j]) => j \in 1..Len(q) /\ p[j] = q[j] /\ Stream!IsResponse(q[j])
  BY <1>1, <1>2, <1>3
<1>6. Ordered(p, c)
  <2> SUFFICES ASSUME NEW j \in 1..Len(p), Stream!IsResponse(p[j]), NEW i \in 1..Len(p)
               PROVE  c <= p[j].seq /\ (i < j => p[i].seq <= p[j].seq) /\ (Stream!IsResponse(p[i]) => i = j)
    BY DEF Ordered
  <2>1. j \in 1..Len(q) /\ p[j] = q[j] /\ Stream!IsResponse(q[j])
    BY <1>5
  <2>2. i < j => i \in 1..Len(q) /\ p[i] = q[i]
    BY <1>1, <2>1
  <2> QED BY <1>5, <2>1, <2>2 DEF Ordered
<1>7. Silent(q) => Silent(p)
  BY <1>5 DEF Silent
<1> QED BY <1>4, <1>6, <1>7 DEF p

\* So may a response, if nothing in the queue is newer.
LEMMA OrderedResponse ==
  ASSUME NEW n \in Nat, NEW c \in Nat, NEW q \in Seq(Msgs(n)), NEW m \in Resps(n), Follows(m, q, c)
  PROVE  Append(q, m) \in Seq(Msgs(n)) /\ Ordered(Append(q, m), c)
<1> DEFINE p == Append(q, m)
<1>1. /\ Len(q) \in Nat /\ Len(p) = Len(q) + 1 /\ p[Len(q) + 1] = m
      /\ \A i \in 1..Len(q) : p[i] = q[i]
      /\ \A i \in 1..(Len(q) + 1) : i \in 1..Len(q) \/ i = Len(q) + 1
  OBVIOUS
<1>2. p \in Seq(Msgs(n))
  BY MsgsGrow
<1> HIDE DEF p
<1>3. \A i \in 1..Len(q) : ~Stream!IsResponse(p[i]) /\ p[i].seq <= m.seq
  BY <1>1 DEF Follows, Silent
<1>4. \A j \in 1..Len(p) : Stream!IsResponse(p[j]) => j = Len(q) + 1
  BY <1>1, <1>3
<1>5. Ordered(p, c)
  <2> SUFFICES ASSUME NEW j \in 1..Len(p), Stream!IsResponse(p[j]), NEW i \in 1..Len(p)
               PROVE  c <= p[j].seq /\ (i < j => p[i].seq <= p[j].seq) /\ (Stream!IsResponse(p[i]) => i = j)
    BY DEF Ordered
  <2>1. j = Len(q) + 1 /\ p[j] = m
    BY <1>1, <1>4
  <2>2. i < j => i \in 1..Len(q)
    BY <1>1, <2>1
  <2> QED BY <1>3, <1>4, <2>1, <2>2 DEF Follows
<1> QED BY <1>2, <1>5 DEF p

\* The first message leaves the queue: nothing behind it is older than the client
\* becomes.
LEMMA OrderedRest ==
  ASSUME NEW n \in Nat, NEW c \in Nat, NEW q \in Seq(Msgs(n)), q # <<>>, Ordered(q, c)
  PROVE  /\ Head(q) \in Msgs(n) /\ Tail(q) \in Seq(Msgs(n))
         /\ Stream!IsResponse(Head(q)) => c <= Head(q).seq /\ Silent(Tail(q))
         /\ Silent(q) => Silent(Tail(q)) /\ ~Stream!IsResponse(Head(q))
         /\ \A d \in Nat : d <= c \/ (d <= Head(q).seq /\ ~Stream!IsResponse(Head(q))) => Ordered(Tail(q), d)
         /\ \A d \in Nat : Silent(Tail(q)) => Ordered(Tail(q), d)
<1> DEFINE p == Tail(q)
<1>1. /\ Len(q) \in Nat \ {0} /\ Len(p) = Len(q) - 1 /\ Head(q) = q[1] /\ p \in Seq(Msgs(n))
      /\ \A i \in 1..Len(p) : p[i] = q[i + 1]
      /\ \A i \in 1..Len(q) : q[i] \in Msgs(n)
  OBVIOUS
<1> HIDE DEF p
<1>2. /\ 1 \in 1..Len(q) /\ Head(q) \in Msgs(n)
      /\ \A i \in 1..Len(p) : i + 1 \in 1..Len(q) /\ i + 1 # 1 /\ 1 < i + 1
  BY <1>1
<1>3. Stream!IsResponse(Head(q)) => c <= Head(q).seq /\ Silent(p)
  <2> SUFFICES ASSUME Stream!IsResponse(q[1]) PROVE c <= q[1].seq /\ \A i \in 1..Len(p) : ~Stream!IsResponse(p[i])
    BY <1>1 DEF Silent
  <2>1. c <= q[1].seq /\ \A i \in 1..Len(q) : Stream!IsResponse(q[i]) => i = 1
    BY <1>2 DEF Ordered
  <2> QED BY <1>1, <1>2, <2>1
<1>4. Silent(q) => Silent(p) /\ ~Stream!IsResponse(Head(q))
  BY <1>1, <1>2 DEF Silent
<1>5. \A d \in Nat : Silent(p) => Ordered(p, d)
  BY DEF Silent, Ordered
<1>6. ASSUME NEW d \in Nat, d <= c \/ (d <= Head(q).seq /\ ~Stream!IsResponse(Head(q))) PROVE Ordered(p, d)
  <2> SUFFICES ASSUME NEW j \in 1..Len(p), Stream!IsResponse(p[j]), NEW i \in 1..Len(p)
               PROVE  d <= p[j].seq /\ (i < j => p[i].seq <= p[j].seq) /\ (Stream!IsResponse(p[i]) => i = j)
    BY DEF Ordered
  <2>1. /\ p[j] = q[j + 1] /\ p[i] = q[i + 1] /\ j + 1 \in 1..Len(q) /\ i + 1 \in 1..Len(q) /\ 1 < j + 1
        /\ (i < j => i + 1 < j + 1) /\ (i + 1 = j + 1 => i = j)
    BY <1>1, <1>2
  <2>2. /\ c <= q[j + 1].seq /\ q[1].seq <= q[j + 1].seq
        /\ (i + 1 < j + 1 => q[i + 1].seq <= q[j + 1].seq) /\ (Stream!IsResponse(q[i + 1]) => i + 1 = j + 1)
    BY <1>2, <2>1 DEF Ordered
  <2>3. q[1].seq \in Nat /\ q[j + 1].seq \in Nat
    <3>1. \A m \in Msgs(n) : m.seq \in 0..n
      BY MsgsGrow DEF Msgs
    <3>2. q[1] \in Msgs(n) /\ q[j + 1] \in Msgs(n)
      BY <1>1, <1>2, <2>1
    <3>3. \A k : k \in 0..n => k \in Nat
      OBVIOUS
    <3> QED BY <3>1, <3>2, <3>3
  <2>4. d <= q[j + 1].seq
    BY <1>1, <1>6, <2>2, <2>3
  <2> QED BY <2>1, <2>2, <2>4
<1> QED BY <1>1, <1>2, <1>3, <1>4, <1>5, <1>6 DEF p

-----------------------------------------------------------------------------
(***************************************************************************)
(* What is admitted                                                        *)
(***************************************************************************)

\* What becomes of the queue when a record is admitted to it.
LEMMA AdmitRecord ==
  ASSUME NEW n \in Nat, NEW c \in Nat, NEW w, QueueOK(w, n, c), NEW m \in Recs(n)
  PROVE  LET a == Stream!Admit(w, m)
         IN  /\ QueueOK(a, n, c)
             /\ a.barrier = w.barrier /\ a.responseWaiters = w.responseWaiters
             /\ a.ordinaryWaiters = w.ordinaryWaiters
             /\ Silent(w.queue) => Silent(a.queue)
             /\ w.barrier => a.queue = w.queue
<1> DEFINE r == Stream!Reserve(w, m)
           q == Append(w.queue, m)
           h == Append(w.held, m)
<1>1. r = [w EXCEPT !.total = r.total, !.ordinary = r.ordinary]
  BY DEF Stream!Reserve, QueueOK, IsWriter
<1> HIDE DEF r
<1>2. /\ IsWriter(r) /\ r.barrier = w.barrier /\ r.queue = w.queue /\ r.held = w.held
      /\ r.responseWaiters = w.responseWaiters /\ r.ordinaryWaiters = w.ordinaryWaiters
  BY <1>1 DEF QueueOK, IsWriter
<1>3. /\ w.queue \in Seq(Msgs(n)) /\ w.held \in Seq(Recs(n)) /\ w.barrier \in BOOLEAN
      /\ Ordered(w.queue, c) /\ (~w.barrier => w.held = <<>>)
  BY DEF QueueOK
<1>4. ~Stream!IsResponse(m)
  BY MsgsGrow
<1>5. h \in Seq(Recs(n))
  BY <1>3
<1>6. q \in Seq(Msgs(n)) /\ Ordered(q, c) /\ (Silent(w.queue) => Silent(q))
  <2>1. <<m>> \in Seq(Recs(n)) /\ q = w.queue \o <<m>>
    BY <1>3
  <2> HIDE DEF q
  <2> QED BY <1>3, <2>1, OrderedMore
<1>7. Stream!Admit(w, m) = IF ~w.barrier THEN [r EXCEPT !.queue = q] ELSE [r EXCEPT !.held = h]
  BY <1>2, <1>4 DEF Stream!Admit, Stream!WriteAdmitted, r
<1> HIDE DEF q, h
<1>8. CASE ~w.barrier
  <2>1. Stream!Admit(w, m) = [r EXCEPT !.queue = q]
    BY <1>7, <1>8
  <2> DEFINE a == [r EXCEPT !.queue = q]
  <2>2. /\ IsWriter(a) /\ a.queue = q /\ a.held = r.held /\ a.barrier = r.barrier
        /\ a.responseWaiters = r.responseWaiters /\ a.ordinaryWaiters = r.ordinaryWaiters
    BY <1>2 DEF IsWriter
  <2> HIDE DEF a
  <2>3. QueueOK(a, n, c)
    BY <1>2, <1>3, <1>6, <2>2 DEF QueueOK
  <2> QED BY <1>2, <1>6, <1>8, <2>1, <2>2, <2>3 DEF a
<1>9. CASE w.barrier
  <2>1. Stream!Admit(w, m) = [r EXCEPT !.held = h]
    BY <1>7, <1>9
  <2> DEFINE a == [r EXCEPT !.held = h]
  <2>2. /\ IsWriter(a) /\ a.queue = r.queue /\ a.held = h /\ a.barrier = r.barrier
        /\ a.responseWaiters = r.responseWaiters /\ a.ordinaryWaiters = r.ordinaryWaiters
    BY <1>2 DEF IsWriter
  <2> HIDE DEF a
  <2>3. QueueOK(a, n, c)
    BY <1>2, <1>3, <1>5, <1>9, <2>2 DEF QueueOK
  <2> QED BY <1>2, <1>9, <2>1, <2>2, <2>3 DEF a
<1> QED BY <1>3, <1>8, <1>9

\* And when the response that the barrier is for is admitted: what was held follows it.
LEMMA AdmitResponse ==
  ASSUME NEW n \in Nat, NEW c \in Nat, NEW w, QueueOK(w, n, c), w.barrier,
         NEW m \in Resps(n), Follows(m, w.queue, c)
  PROVE  LET a == Stream!Admit(w, m)
         IN  /\ QueueOK(a, n, c) /\ ~a.barrier
             /\ a.responseWaiters = w.responseWaiters /\ a.ordinaryWaiters = w.ordinaryWaiters
<1> DEFINE r == Stream!Reserve(w, m)
           q == Append(w.queue, m) \o w.held
           none == <<>>
           no == FALSE
<1>1. r = [w EXCEPT !.total = r.total, !.ordinary = r.ordinary]
  BY DEF Stream!Reserve, QueueOK, IsWriter
<1> HIDE DEF r
<1>2. /\ IsWriter(r) /\ r.barrier = w.barrier /\ r.queue = w.queue /\ r.held = w.held
      /\ r.responseWaiters = w.responseWaiters /\ r.ordinaryWaiters = w.ordinaryWaiters
  BY <1>1 DEF QueueOK, IsWriter
<1>3. /\ w.queue \in Seq(Msgs(n)) /\ w.held \in Seq(Recs(n)) /\ Ordered(w.queue, c)
  BY DEF QueueOK
<1>4. Stream!IsResponse(m)
  BY MsgsGrow
<1>5. q \in Seq(Msgs(n)) /\ Ordered(q, c)
  <2> DEFINE p == Append(w.queue, m)
  <2>1. p \in Seq(Msgs(n)) /\ Ordered(p, c)
    BY <1>3, OrderedResponse
  <2> HIDE DEF p
  <2> QED BY <1>3, <2>1, OrderedMore DEF p
<1>6. Stream!Admit(w, m) = [r EXCEPT !.barrier = no, !.held = none, !.queue = q]
  BY <1>2, <1>4 DEF Stream!Admit, Stream!WriteAdmitted, r
<1>7. none \in Seq(Recs(n))
  OBVIOUS
<1> DEFINE a == [r EXCEPT !.barrier = no, !.held = none, !.queue = q]
<1>8. none = <<>> /\ no = FALSE
  OBVIOUS
<1> HIDE DEF q, none, no
<1>9. a = [r EXCEPT !.barrier = no, !.held = none, !.queue = q]
  OBVIOUS
<1> HIDE DEF a
<1>10. /\ IsWriter(a) /\ a.queue = q /\ a.held = none /\ a.barrier = no
       /\ a.responseWaiters = r.responseWaiters /\ a.ordinaryWaiters = r.ordinaryWaiters
  BY <1>2, <1>9 DEF IsWriter
<1>11. QueueOK(a, n, c)
  BY <1>5, <1>7, <1>8, <1>10 DEF QueueOK
<1> QED BY <1>2, <1>6, <1>8, <1>10, <1>11 DEF a

-----------------------------------------------------------------------------
(***************************************************************************)
(* The loops of drainAdmissionWaiters                                      *)
(***************************************************************************)

\* Served is computed along the waiters, one at a time.
LEMMA ServedUnfolds ==
  ASSUME NEW w, NEW T, NEW ws \in Seq(T)
  PROVE  /\ Stream!Served(w, ws)[0] = w
         /\ \A k \in 1..Len(ws) : Stream!Served(w, ws)[k] = Stream!Admit(Stream!Served(w, ws)[k - 1], ws[k])
<1> DEFINE Step(u, k) == Stream!Admit(u, ws[k])
           Body(f, k) == IF k = 0 THEN w ELSE Step(f[k - 1], k)
           Good(f, m) == f = [k \in 0..m |-> Body(f, k)]
           Bad == {m \in 0..Len(ws) : ~ \E f : Good(f, m)}
<1>1. Len(ws) \in Nat
  OBVIOUS
<1>2. \E f : Good(f, 0)
  <2> DEFINE f == [k \in 0..0 |-> w]
  <2>1. f = [k \in 0..0 |-> Body(f, k)]
    <3>1. \A k \in 0..0 : Body(f, k) = w
      OBVIOUS
    <3> HIDE DEF Body
    <3> QED BY <3>1
  <2> QED BY <2>1
<1>3. ASSUME NEW m \in 1..Len(ws), NEW f, Good(f, m - 1)
      PROVE  \E g : Good(g, m)
  <2> DEFINE g == [k \in 0..m |-> IF k = m THEN Step(f[m - 1], m) ELSE f[k]]
  <2> HIDE DEF Step
  <2>1. m \in Nat /\ m - 1 \in Nat /\ m # 0 /\ m - 1 \in 0..(m - 1) /\ m - 1 # m
        /\ \A k \in 0..m : k = m \/ (k \in 0..(m - 1) /\ k # m)
    BY <1>1
  <2>2. \A k \in 0..(m - 1) : k \in 0..m /\ k # m
    BY <1>1
  <2>3. g[m] = Step(f[m - 1], m) /\ \A k \in 0..(m - 1) : g[k] = f[k]
    BY <2>1, <2>2
  <2>4. \A k \in 0..(m - 1) : f[k] = Body(f, k)
    <3> HIDE DEF Body
    <3> QED BY <1>3
  <2>5. \A k \in 0..(m - 1) : k # 0 => k - 1 \in 0..(m - 1)
    BY <1>1
  <2>6. \A k \in 0..m : g[k] = Body(g, k)
    <3> HIDE DEF g
    <3> QED BY <2>1, <2>2, <2>3, <2>4, <2>5
  <2>7. \E e : e = g
    OBVIOUS
  <2>8. g = [k \in 0..m |-> g[k]]
    OBVIOUS
  <2> HIDE DEF g, Body
  <2>9. g = [k \in 0..m |-> Body(g, k)]
    BY <2>6, <2>8
  <2> QED BY <2>9
<1>4. Bad = {}
  <2> SUFFICES ASSUME Bad # {} PROVE FALSE
    OBVIOUS
  <2>1. Bad \in SUBSET Nat
    BY <1>1
  <2>2. PICK m \in Bad : \A y \in Bad : m <= y
    <3> HIDE DEF Bad
    <3> QED BY <2>1, LeastElement
  <2>3. m \in 0..Len(ws) /\ ~ \E f : Good(f, m)
    OBVIOUS
  <2> HIDE DEF Good
  <2>4. m # 0
    BY <2>3, <1>2
  <2>5. m \in 1..Len(ws) /\ m - 1 \in 0..Len(ws)
    BY <2>3, <2>4, <1>1
  <2>6. ~ \E f : Good(f, m - 1)
    BY <2>3, <2>5, <1>3
  <2>7. m - 1 \in Bad
    BY <2>5, <2>6
  <2> QED BY <2>2, <2>7, <2>5
<1>5. PICK f : Good(f, Len(ws))
  <2> HIDE DEF Good
  <2> QED BY <1>4, <1>1
<1>6. \E g : g = [k \in 0..Len(ws) |-> IF k = 0 THEN w ELSE Stream!Admit(g[k - 1], ws[k])]
  BY <1>5, Zenon
<1> DEFINE G == CHOOSE g : g = [k \in 0..Len(ws) |-> IF k = 0 THEN w ELSE Stream!Admit(g[k - 1], ws[k])]
<1>7. G = [k \in 0..Len(ws) |-> IF k = 0 THEN w ELSE Stream!Admit(G[k - 1], ws[k])]
  BY <1>6, Zenon
<1>8. Stream!Served(w, ws) = G
  BY Zenon DEF Stream!Served
<1> HIDE DEF G
<1>9. 0 \in 0..Len(ws) /\ \A k \in 1..Len(ws) : k \in 0..Len(ws) /\ k # 0
  BY <1>1
<1>10. \A k \in 0..Len(ws) : G[k] = IF k = 0 THEN w ELSE Stream!Admit(G[k - 1], ws[k])
  BY <1>7, Zenon
<1> QED BY <1>8, <1>9, <1>10

\* k of the waiters ws are admitted, after each of which the writer is as f says.
Admits(w, ws, k, f) ==
  /\ k \in 0..Len(ws) /\ f[0] = w
  /\ \A j \in 1..k : f[j] = Stream!Admit(f[j - 1], ws[j])
  /\ k = Len(ws) \/ ~Stream!CanAdmit(f[k], ws[k + 1])
  /\ Stream!Loop(w, ws).w = f[k] /\ Stream!Loop(w, ws).left = SubSeq(ws, k + 1, Len(ws))

\* A loop admits waiters in their order for as long as they fit.
LEMMA LoopIs ==
  ASSUME NEW w, NEW T, NEW ws \in Seq(T)
  PROVE  \E k, f : Admits(w, ws, k, f)
<1> DEFINE f == Stream!Served(w, ws)
           fits(k) == Stream!CanAdmit(f[k], ws[k + 1])
           stops(k) == k = Len(ws) \/ ~fits(k)
           before(k) == \A j \in 1..k : Stream!CanAdmit(f[j - 1], ws[j])
           E == {k \in 0..Len(ws) : stops(k)}
<1>1. f[0] = w /\ \A j \in 1..Len(ws) : f[j] = Stream!Admit(f[j - 1], ws[j])
  BY ServedUnfolds
<1>2. Stream!LoopEnds(w, ws) = CHOOSE k \in 0..Len(ws) : before(k) /\ (k = Len(ws) \/ ~Stream!CanAdmit(f[k], ws[k + 1]))
  BY Zenon DEF Stream!LoopEnds
<1>3. /\ Stream!Loop(w, ws).w = f[Stream!LoopEnds(w, ws)]
      /\ Stream!Loop(w, ws).left = SubSeq(ws, Stream!LoopEnds(w, ws) + 1, Len(ws))
  BY DEF Stream!Loop
<1> HIDE DEF f
<1>4. Len(ws) \in Nat
  OBVIOUS
<1>5. \E k \in 0..Len(ws) : before(k) /\ stops(k)
  <2> HIDE DEF fits
  <2>1. E \in SUBSET Nat /\ Len(ws) \in E
    BY <1>4
  <2>2. PICK k \in E : \A y \in E : k <= y
    <3> HIDE DEF E
    <3> QED BY <2>1, LeastElement
  <2>3. k \in 0..Len(ws) /\ stops(k)
    OBVIOUS
  <2>4. \A j \in 1..k : j - 1 \in 0..Len(ws) /\ j - 1 # Len(ws) /\ ~(k <= j - 1) /\ j = (j - 1) + 1
    BY <1>4, <2>3
  <2>5. \A j \in 1..k : fits(j - 1)
    BY <2>2, <2>4
  <2>6. before(k)
    <3> USE DEF fits
    <3> QED BY <2>4, <2>5
  <2> HIDE DEF stops, before
  <2> QED BY <2>3, <2>6
<1> DEFINE ends == Stream!LoopEnds(w, ws)
<1>6. ends \in 0..Len(ws) /\ before(ends) /\ stops(ends)
  <2> DEFINE P(k) == before(k) /\ stops(k)
  <2>1. ends = CHOOSE k \in 0..Len(ws) : P(k)
    BY <1>2, Zenon
  <2>2. \E k \in 0..Len(ws) : P(k)
    BY <1>5
  <2> HIDE DEF P, ends
  <2>3. ends \in 0..Len(ws) /\ P(ends)
    BY <2>1, <2>2
  <2> QED BY <2>3 DEF P
<1> HIDE DEF ends
<1>7. \A j \in 1..ends : j \in 1..Len(ws)
  BY <1>4, <1>6
<1>8. Admits(w, ws, ends, f)
  BY <1>1, <1>3, <1>6, <1>7 DEF Admits, ends
<1> QED BY <1>8

\* What the loop over the records that wait keeps.
LEMMA RecordsLoop ==
  ASSUME NEW n \in Nat, NEW c \in Nat, NEW w, QueueOK(w, n, c), NEW ws \in Seq(Recs(n))
  PROVE  LET l == Stream!Loop(w, ws)
         IN  /\ QueueOK(l.w, n, c) /\ l.w.barrier = w.barrier
             /\ Silent(w.queue) => Silent(l.w.queue)
             /\ l.left \in Seq(Recs(n))
<1> DEFINE P(u) == QueueOK(u, n, c) /\ u.barrier = w.barrier /\ (Silent(w.queue) => Silent(u.queue))
           vs == ws
<1>1. vs \in Seq(Recs(n)) /\ Len(vs) \in Nat
  OBVIOUS
<1> HIDE DEF vs
<1>2. PICK k, f : Admits(w, vs, k, f)
  BY <1>1, LoopIs
<1>3. /\ k \in 0..Len(vs) /\ f[0] = w
      /\ \A j \in 1..k : f[j] = Stream!Admit(f[j - 1], vs[j])
      /\ Stream!Loop(w, vs).w = f[k] /\ Stream!Loop(w, vs).left = SubSeq(vs, k + 1, Len(vs))
  BY <1>2 DEF Admits
<1>4. Len(vs) \in Nat /\ k \in Nat /\ \A j \in 1..k : vs[j] \in Recs(n)
  BY <1>1, <1>3
<1>5. P(f[0])
  BY <1>3
<1>6. ASSUME NEW j \in 1..k, P(f[j - 1]) PROVE P(f[j])
  <2> DEFINE u == f[j - 1]
             a == Stream!Admit(u, vs[j])
  <2>1. QueueOK(u, n, c) /\ u.barrier = w.barrier /\ (Silent(w.queue) => Silent(u.queue))
    BY <1>6
  <2> HIDE DEF u
  <2>2. QueueOK(a, n, c) /\ a.barrier = u.barrier /\ (Silent(u.queue) => Silent(a.queue))
    BY <1>4, <2>1, AdmitRecord
  <2>3. f[j] = a
    BY <1>3 DEF u
  <2> HIDE DEF a
  <2> QED BY <2>1, <2>2, <2>3
<1> DEFINE Bad == {j \in 0..k : ~P(f[j])}
<1>7. Bad = {}
  <2> HIDE DEF P
  <2> SUFFICES ASSUME Bad # {} PROVE FALSE
    OBVIOUS
  <2>1. Bad \in SUBSET Nat
    BY <1>4
  <2>2. PICK j \in Bad : \A y \in Bad : j <= y
    <3> HIDE DEF Bad
    <3> QED BY <2>1, LeastElement
  <2>3. j \in 0..k /\ ~P(f[j])
    OBVIOUS
  <2>4. j \in 1..k /\ j - 1 \in 0..k
    BY <1>4, <1>5, <2>3
  <2>5. j - 1 \in Bad
    BY <1>6, <2>3, <2>4
  <2> QED BY <2>2, <2>4, <2>5
<1>8. P(f[k])
  <2> HIDE DEF P
  <2> QED BY <1>4, <1>7
<1>9. SubSeq(vs, k + 1, Len(vs)) \in Seq(Recs(n))
  BY <1>1, <1>4
<1> QED BY <1>3, <1>8, <1>9 DEF vs

\* The loop over the response that waits: it goes on waiting, or is scheduled and ends the barrier.
LEMMA ResponsesLoop ==
  ASSUME NEW n \in Nat, NEW c \in Nat, NEW w, QueueOK(w, n, c), WaitersOK(w, n, c)
  PROVE  LET l == Stream!Loop(w, w.responseWaiters)
         IN  \/ l.w = w /\ l.left = w.responseWaiters
             \/ w.responseWaiters # <<>> /\ l.left = <<>> /\ QueueOK(l.w, n, c) /\ ~l.w.barrier
<1> DEFINE ws == w.responseWaiters
<1>1. /\ ws \in Seq(Resps(n)) /\ Len(ws) \in Nat
      /\ ws # <<>> => w.barrier /\ Len(ws) = 1 /\ Follows(ws[1], w.queue, c)
      /\ ws = <<>> => Len(ws) = 0
  BY DEF WaitersOK
<1> HIDE DEF ws
<1>2. PICK k, f : Admits(w, ws, k, f)
  BY <1>1, LoopIs
<1>3. /\ k \in 0..Len(ws) /\ f[0] = w
      /\ \A j \in 1..k : f[j] = Stream!Admit(f[j - 1], ws[j])
      /\ Stream!Loop(w, ws).w = f[k] /\ Stream!Loop(w, ws).left = SubSeq(ws, k + 1, Len(ws))
  BY <1>2 DEF Admits
<1>4. CASE k = 0
  <2>1. SubSeq(ws, 1, Len(ws)) = ws
    BY <1>1
  <2> QED BY <1>3, <1>4, <2>1 DEF ws
<1>5. CASE k # 0
  <2>1. ws # <<>> /\ k = 1 /\ Len(ws) = 1 /\ ws[1] \in Resps(n)
    BY <1>1, <1>3, <1>5
  <2>2. f[1] = Stream!Admit(w, ws[1])
    BY <1>3, <2>1
  <2>3. QueueOK(f[1], n, c) /\ ~f[1].barrier
    BY <1>1, <2>1, <2>2, AdmitResponse
  <2>4. SubSeq(ws, 2, 1) = <<>>
    BY <1>1
  <2> QED BY <1>3, <2>1, <2>3, <2>4 DEF ws
<1> QED BY <1>4, <1>5

\* What is sent makes room for what waits, a response first.
LEMMA Drained ==
  ASSUME NEW n \in Nat, NEW c \in Nat, NEW w, QueueOK(w, n, c), WaitersOK(w, n, c)
  PROVE  LET d == Stream!DrainAdmissionWaiters(w)
         IN  /\ QueueOK(d, n, c) /\ WaitersOK(d, n, c)
             /\ w.responseWaiters = <<>> => /\ d.responseWaiters = <<>> /\ d.barrier = w.barrier
                                            /\ Silent(w.queue) => Silent(d.queue)
             /\ w.responseWaiters # <<>> /\ d.responseWaiters = <<>> => ~d.barrier
<1> DEFINE first  == Stream!Loop(w, w.responseWaiters)
           second == IF first.left = <<>> THEN Stream!Loop(first.w, w.ordinaryWaiters)
                     ELSE [w |-> first.w, left |-> w.ordinaryWaiters]
           d == [second.w EXCEPT !.responseWaiters = first.left, !.ordinaryWaiters = second.left]
<1>1. Stream!DrainAdmissionWaiters(w) = d
  BY DEF Stream!DrainAdmissionWaiters
<1>2. \/ first.w = w /\ first.left = w.responseWaiters
      \/ w.responseWaiters # <<>> /\ first.left = <<>> /\ QueueOK(first.w, n, c) /\ ~first.w.barrier
  BY ResponsesLoop
<1> HIDE DEF first
<1>3. first.left # <<>> => second.w = first.w /\ second.left = w.ordinaryWaiters
  OBVIOUS
<1>4. first.left = <<>> => second = Stream!Loop(first.w, w.ordinaryWaiters)
  OBVIOUS
<1> HIDE DEF second
<1>5. w.ordinaryWaiters \in Seq(Recs(n)) /\ w.responseWaiters \in Seq(Resps(n))
  BY DEF WaitersOK
<1>6. QueueOK(first.w, n, c)
  BY <1>2
<1>7. /\ QueueOK(second.w, n, c) /\ second.w.barrier = first.w.barrier
      /\ Silent(first.w.queue) => Silent(second.w.queue)
      /\ second.left \in Seq(Recs(n))
  BY <1>3, <1>4, <1>5, <1>6, RecordsLoop
<1>8. /\ IsWriter(d) /\ d.queue = second.w.queue /\ d.held = second.w.held /\ d.barrier = second.w.barrier
      /\ d.responseWaiters = first.left /\ d.ordinaryWaiters = second.left
  <2>1. d = [second.w EXCEPT !.responseWaiters = first.left, !.ordinaryWaiters = second.left]
    OBVIOUS
  <2>2. IsWriter(second.w)
    BY <1>7 DEF QueueOK
  <2> HIDE DEF d
  <2> QED BY <2>1, <2>2 DEF IsWriter
<1> HIDE DEF d
<1>9. QueueOK(d, n, c)
  BY <1>7, <1>8 DEF QueueOK
<1>10. WaitersOK(d, n, c)
  <2>1. CASE first.left = <<>>
    <3>1. first.left \in Seq(Resps(n))
      BY <2>1
    <3> QED BY <1>7, <1>8, <2>1, <3>1 DEF WaitersOK
  <2>2. CASE first.left # <<>>
    BY <1>2, <1>3, <1>8, <2>2 DEF WaitersOK
  <2> QED BY <2>1, <2>2
<1> QED BY <1>1, <1>2, <1>7, <1>8, <1>9, <1>10

-----------------------------------------------------------------------------
(***************************************************************************)
(* What is written, taken and stopped                                      *)
(***************************************************************************)

\* A record is written: admitted, or put behind the records that wait.
LEMMA WriteRecord ==
  ASSUME NEW n \in Nat, NEW c \in Nat, NEW w, QueueOK(w, n, c), WaitersOK(w, n, c), NEW m \in Recs(n)
  PROVE  LET d == Stream!Write(w, m)
         IN  /\ QueueOK(d, n, c) /\ WaitersOK(d, n, c)
             /\ d.barrier = w.barrier /\ d.responseWaiters = w.responseWaiters
             /\ Silent(w.queue) => Silent(d.queue)
<1>1. ~Stream!IsResponse(m)
  BY MsgsGrow
<1>2. CASE Stream!CanAdmit(w, m)
  <2> DEFINE a == Stream!Admit(w, m)
  <2>1. Stream!Write(w, m) = a
    BY <1>2 DEF Stream!Write
  <2>2. /\ QueueOK(a, n, c) /\ a.barrier = w.barrier /\ a.responseWaiters = w.responseWaiters
        /\ a.ordinaryWaiters = w.ordinaryWaiters /\ (Silent(w.queue) => Silent(a.queue))
        /\ w.barrier => a.queue = w.queue
    BY AdmitRecord
  <2> HIDE DEF a
  <2>3. WaitersOK(a, n, c)
    BY <2>2 DEF WaitersOK
  <2> QED BY <2>1, <2>2, <2>3
<1>3. CASE ~Stream!CanAdmit(w, m)
  <2> DEFINE os == Append(w.ordinaryWaiters, m)
             a == [w EXCEPT !.ordinaryWaiters = os]
  <2>1. Stream!Write(w, m) = a
    BY <1>1, <1>3 DEF Stream!Write
  <2>2. os \in Seq(Recs(n))
    BY DEF WaitersOK
  <2>3. a = [w EXCEPT !.ordinaryWaiters = os]
    OBVIOUS
  <2> HIDE DEF os, a
  <2>4. /\ IsWriter(a) /\ a.queue = w.queue /\ a.held = w.held /\ a.barrier = w.barrier
        /\ a.responseWaiters = w.responseWaiters /\ a.ordinaryWaiters = os
    BY <2>3 DEF QueueOK, IsWriter
  <2>5. QueueOK(a, n, c)
    BY <2>4 DEF QueueOK
  <2>6. WaitersOK(a, n, c)
    BY <2>2, <2>4 DEF WaitersOK
  <2> QED BY <2>1, <2>4, <2>5, <2>6
<1> QED BY <1>2, <1>3

\* The response to the request of the barrier is written: admitted, or it waits.
LEMMA WriteResponse ==
  ASSUME NEW n \in Nat, NEW c \in Nat, NEW w, QueueOK(w, n, c), WaitersOK(w, n, c), w.barrier,
         w.responseWaiters = <<>>, NEW m \in Resps(n), Follows(m, w.queue, c)
  PROVE  LET d == Stream!Write(w, m)
         IN  /\ QueueOK(d, n, c) /\ WaitersOK(d, n, c)
             /\ d.responseWaiters = <<>> => ~d.barrier
<1>1. Stream!IsResponse(m)
  BY MsgsGrow
<1>2. CASE Stream!CanAdmit(w, m)
  <2> DEFINE a == Stream!Admit(w, m)
  <2>1. Stream!Write(w, m) = a
    BY <1>2 DEF Stream!Write
  <2>2. /\ QueueOK(a, n, c) /\ ~a.barrier /\ a.responseWaiters = w.responseWaiters
        /\ a.ordinaryWaiters = w.ordinaryWaiters
    BY AdmitResponse
  <2> HIDE DEF a
  <2>3. WaitersOK(a, n, c)
    BY <2>2 DEF WaitersOK
  <2> QED BY <2>1, <2>2, <2>3
<1>3. CASE ~Stream!CanAdmit(w, m)
  <2> DEFINE rs == Append(w.responseWaiters, m)
             a == [w EXCEPT !.responseWaiters = rs]
  <2>1. Stream!Write(w, m) = a
    BY <1>1, <1>3 DEF Stream!Write
  <2>2. rs \in Seq(Resps(n)) /\ Len(rs) = 1 /\ rs[1] = m /\ rs # <<>>
    BY DEF WaitersOK
  <2>3. a = [w EXCEPT !.responseWaiters = rs]
    OBVIOUS
  <2> HIDE DEF rs, a
  <2>4. /\ IsWriter(a) /\ a.queue = w.queue /\ a.held = w.held /\ a.barrier = w.barrier
        /\ a.responseWaiters = rs /\ a.ordinaryWaiters = w.ordinaryWaiters
    BY <2>3 DEF QueueOK, IsWriter
  <2>5. QueueOK(a, n, c)
    BY <2>4 DEF QueueOK
  <2>6. WaitersOK(a, n, c)
    BY <2>2, <2>4 DEF WaitersOK
  <2> QED BY <2>1, <2>2, <2>4, <2>5, <2>6
<1> QED BY <1>2, <1>3

\* The first message is taken, which brings the client to d.
LEMMA Taken ==
  ASSUME NEW n \in Nat, NEW c \in Nat, NEW w, QueueOK(w, n, c), WaitersOK(w, n, c), w.queue # <<>>,
         NEW d \in Nat, Stream!IsResponse(Head(w.queue)) \/ d <= c \/ d <= Head(w.queue).seq
  PROVE  LET f == Stream!Freed([w EXCEPT !.queue = Tail(@)], Head(w.queue))
         IN  /\ QueueOK(f, n, d) /\ WaitersOK(f, n, d)
             /\ f.barrier = w.barrier /\ f.responseWaiters = w.responseWaiters
             /\ f.ordinaryWaiters = w.ordinaryWaiters /\ f.queue = Tail(w.queue)
<1> DEFINE m == Head(w.queue)
           q == Tail(w.queue)
           t == [w EXCEPT !.queue = q]
           f == Stream!Freed(t, m)
<1>1. /\ w.queue \in Seq(Msgs(n)) /\ w.held \in Seq(Recs(n)) /\ w.barrier \in BOOLEAN
      /\ Ordered(w.queue, c) /\ (~w.barrier => w.held = <<>>) /\ IsWriter(w)
  BY DEF QueueOK
<1>2. /\ m \in Msgs(n) /\ q \in Seq(Msgs(n))
      /\ Stream!IsResponse(m) => c <= m.seq /\ Silent(q)
      /\ Silent(w.queue) => Silent(q) /\ ~Stream!IsResponse(m)
      /\ \A e \in Nat : e <= c \/ (e <= m.seq /\ ~Stream!IsResponse(m)) => Ordered(q, e)
      /\ \A e \in Nat : Silent(q) => Ordered(q, e)
  BY <1>1, OrderedRest
<1>3. w.queue[1] = m /\ 1 \in 1..Len(w.queue) /\ \A i \in 1..Len(q) : i + 1 \in 1..Len(w.queue) /\ q[i] = w.queue[i + 1]
  BY <1>1
<1> HIDE DEF q
<1>4. t = [w EXCEPT !.queue = q]
  OBVIOUS
<1>5. f = [t EXCEPT !.total = f.total, !.ordinary = f.ordinary]
  <2>1. IsWriter(t)
    <3> HIDE DEF t
    <3> QED BY <1>1, <1>4 DEF IsWriter
  <2> HIDE DEF t
  <2> QED BY <2>1 DEF Stream!Freed, IsWriter
<1> HIDE DEF t, f
<1>6. /\ IsWriter(f) /\ f.queue = q /\ f.held = w.held /\ f.barrier = w.barrier
      /\ f.responseWaiters = w.responseWaiters /\ f.ordinaryWaiters = w.ordinaryWaiters
  BY <1>1, <1>4, <1>5 DEF IsWriter
<1> HIDE DEF m
<1>7. Stream!IsResponse(m) \/ d <= c \/ d <= m.seq
  BY DEF m
<1>8. Ordered(q, d)
  BY <1>2, <1>7
<1>9. QueueOK(f, n, d)
  BY <1>1, <1>2, <1>6, <1>8 DEF QueueOK
<1>10. WaitersOK(f, n, d)
  <2> DEFINE r == w.responseWaiters[1]
  <2>1. w.ordinaryWaiters \in Seq(Recs(n)) /\ w.responseWaiters \in Seq(Resps(n))
    BY DEF WaitersOK
  <2>2. ASSUME w.responseWaiters # <<>>
        PROVE  w.barrier /\ Len(w.responseWaiters) = 1 /\ Follows(r, q, d)
    <3>1. w.barrier /\ Len(w.responseWaiters) = 1 /\ Follows(r, w.queue, c)
      BY <2>2 DEF WaitersOK
    <3> HIDE DEF r
    <3>2. ~Stream!IsResponse(m) /\ Silent(q) /\ m.seq <= r.seq /\ c <= r.seq
      BY <1>2, <1>3, <3>1 DEF Follows
    <3>3. \A i \in 1..Len(q) : q[i].seq <= r.seq
      BY <1>3, <3>1 DEF Follows
    <3>4. d <= r.seq
      <4>1. m.seq \in Nat /\ r.seq \in Nat
        <5>1. \A k : k \in 0..n => k \in Nat
          OBVIOUS
        <5>2. \A x \in Msgs(n) : x.seq \in 0..n
          BY MsgsGrow DEF Msgs
        <5>3. r \in Resps(n)
          BY <2>1, <3>1 DEF r
        <5> QED BY <1>2, <5>1, <5>2, <5>3, MsgsGrow
      <4> QED BY <1>7, <3>2, <4>1
    <3> QED BY <3>1, <3>2, <3>3, <3>4 DEF Follows
  <2> QED BY <1>6, <2>1, <2>2 DEF WaitersOK
<1>11. f = Stream!Freed([w EXCEPT !.queue = Tail(@)], Head(w.queue))
  BY DEF f, t, q, m
<1> QED BY <1>6, <1>9, <1>10, <1>11 DEF q

\* What is so of the writer stays so while the thread goes on.
LEMMA WriterGrows ==
  ASSUME NEW n \in Nat, NEW c, NEW w, QueueOK(w, n, c), WaitersOK(w, n, c)
  PROVE  QueueOK(w, n + 1, c) /\ WaitersOK(w, n + 1, c)
<1>1. Recs(n) \subseteq Recs(n + 1) /\ Resps(n) \subseteq Resps(n + 1) /\ Msgs(n) \subseteq Msgs(n + 1)
  BY MsgsGrow
<1>2. w.queue \in Seq(Msgs(n + 1)) /\ w.held \in Seq(Recs(n + 1))
  BY <1>1, SeqMore DEF QueueOK
<1>3. w.ordinaryWaiters \in Seq(Recs(n + 1)) /\ w.responseWaiters \in Seq(Resps(n + 1))
  BY <1>1, SeqMore DEF WaitersOK
<1> QED BY <1>2, <1>3 DEF QueueOK, WaitersOK

\* After stopAccepting what was scheduled is all there is.
LEMMA Stopped ==
  ASSUME NEW n \in Nat, NEW c, NEW w, QueueOK(w, n, c)
  PROVE  LET s == Stream!StopAccepting(w)
         IN  /\ IsWriter(s) /\ QueueOK(s, n, c) /\ WaitersOK(s, n, c)
             /\ ~s.barrier /\ s.responseWaiters = <<>> /\ s.ordinaryWaiters = <<>>
<1> DEFINE s == Stream!StopAccepting(w)
           none == <<>>
           no == FALSE
<1>1. s = [w EXCEPT !.total = s.total, !.ordinary = s.ordinary, !.barrier = no, !.held = none,
                    !.responseWaiters = none, !.ordinaryWaiters = none]
  <2>1. IsWriter(w)
    BY DEF QueueOK
  <2> QED BY <2>1 DEF Stream!StopAccepting, IsWriter
<1>2. none = <<>> /\ no = FALSE /\ none \in Seq(Recs(n)) /\ none \in Seq(Resps(n))
  OBVIOUS
<1> HIDE DEF s, none, no
<1>3. /\ IsWriter(s) /\ s.queue = w.queue /\ s.held = none /\ s.barrier = no
      /\ s.responseWaiters = none /\ s.ordinaryWaiters = none
  BY <1>1 DEF QueueOK, IsWriter
<1>4. QueueOK(s, n, c)
  BY <1>2, <1>3 DEF QueueOK
<1>5. WaitersOK(s, n, c)
  BY <1>2, <1>3 DEF WaitersOK
<1> QED BY <1>2, <1>3, <1>4, <1>5 DEF s

\* A new connection satisfies the inductive invariant.
LEMMA StreamInit == Stream!Init => StreamOK
<1> SUFFICES ASSUME Stream!Init PROVE StreamOK
  OBVIOUS
<1> DEFINE none == <<>>
           nothing == {}
           no == FALSE
<1>1. /\ none = <<>> /\ no = FALSE /\ no \in BOOLEAN
      /\ none \in Seq(Recs(0)) /\ none \in Seq(Resps(0)) /\ none \in Seq(Msgs(0))
      /\ none \in Seq(Asks) /\ Len(none) = 0 /\ nothing \in SUBSET Nat /\ nothing = 1..0
  OBVIOUS
<1>2. /\ seq = 0 /\ phase = "open" /\ handling = "none" /\ inbound = none
      /\ writer = [total |-> 0, ordinary |-> 0, queue |-> none, barrier |-> no, held |-> none,
                   responseWaiters |-> none, ordinaryWaiters |-> none]
      /\ client = [seq |-> 0, applied |-> nothing, stale |-> no, recovering |-> no]
  BY DEF Stream!Init
<1> HIDE DEF none, nothing, no
<1>3. /\ IsWriter(writer) /\ writer.queue = none /\ writer.held = none /\ writer.barrier = no
      /\ writer.responseWaiters = none /\ writer.ordinaryWaiters = none
  BY <1>2 DEF IsWriter
<1>4. StreamTypes
  <2>1. client \in [seq : 0..0, applied : SUBSET Nat, stale : BOOLEAN, recovering : BOOLEAN]
    BY <1>1, <1>2
  <2> QED BY <1>1, <1>2, <2>1 DEF StreamTypes, Asks
<1>5. QueueOK(writer, seq, client.seq) /\ WaitersOK(writer, seq, client.seq)
  BY <1>1, <1>2, <1>3 DEF QueueOK, WaitersOK, Ordered
<1>6. HandlingOK
  BY <1>1, <1>2, <1>3 DEF HandlingOK, Asks, Silent
<1>7. Stream!FreshIsComplete
  BY <1>1, <1>2 DEF Stream!FreshIsComplete
<1> QED BY <1>4, <1>5, <1>6, <1>7 DEF StreamOK

\* A connection that fails leaves nothing, and the client knows.
LEMMA FailsOK ==
  ASSUME StreamTypes, QueueOK(writer, seq, client.seq), seq' \in Nat, seq <= seq', Stream!Fails
  PROVE  StreamOK' /\ client'.seq = client.seq
<1> DEFINE s == Stream!StopAccepting(writer)
           none == <<>>
           no == FALSE
           yes == TRUE
<1>1. /\ none = <<>> /\ no = FALSE /\ yes = TRUE /\ no \in BOOLEAN /\ yes \in BOOLEAN
      /\ none \in Seq(Recs(seq')) /\ none \in Seq(Resps(seq'))
      /\ none \in Seq(Msgs(seq')) /\ none \in Seq(Asks) /\ Len(none) = 0
  OBVIOUS
<1>2. /\ IsWriter(s) /\ ~s.barrier /\ s.barrier \in BOOLEAN
      /\ s.responseWaiters = none /\ s.ordinaryWaiters = none /\ s.held = none
  <2>1. IsWriter(s) /\ QueueOK(s, seq, client.seq) /\ ~s.barrier /\ s.responseWaiters = <<>> /\ s.ordinaryWaiters = <<>>
    BY Stopped DEF StreamTypes
  <2> QED BY <2>1 DEF QueueOK
<1>3. /\ phase' = "closed" /\ handling' = "none" /\ inbound' = none
      /\ writer' = [s EXCEPT !.queue = none, !.total = 0, !.ordinary = 0]
      /\ client' = [client EXCEPT !.stale = yes, !.recovering = no]
  BY DEF Stream!Fails
<1> HIDE DEF s, none, no, yes
<1>4. /\ IsWriter(writer') /\ writer'.queue = none /\ writer'.held = none
      /\ ~writer'.barrier /\ writer'.barrier \in BOOLEAN
      /\ writer'.responseWaiters = none /\ writer'.ordinaryWaiters = none
  BY <1>2, <1>3 DEF IsWriter
<1>5. StreamTypes' /\ client'.seq = client.seq /\ client'.stale
  <2>1. client \in [seq : 0..seq', applied : SUBSET Nat, stale : BOOLEAN, recovering : BOOLEAN]
    <3>1. 0..seq \subseteq 0..seq'
      BY DEF StreamTypes
    <3> QED BY <3>1 DEF StreamTypes
  <2>2. client' \in [seq : 0..seq', applied : SUBSET Nat, stale : BOOLEAN, recovering : BOOLEAN]
        /\ client'.seq = client.seq /\ client'.stale
    BY <1>1, <1>3, <2>1
  <2> QED BY <1>1, <1>3, <2>2 DEF StreamTypes
<1>6. QueueOK(writer, seq, client.seq)' /\ WaitersOK(writer, seq, client.seq)'
  BY <1>1, <1>4 DEF QueueOK, WaitersOK, Ordered, IsWriter
<1>7. HandlingOK'
  BY <1>1, <1>3, <1>4 DEF HandlingOK, Asks
<1> QED BY <1>5, <1>6, <1>7 DEF StreamOK, Stream!FreshIsComplete

-----------------------------------------------------------------------------
(***************************************************************************)
(* The steps                                                               *)
(***************************************************************************)

\* A record is published: written to the open connection, which it may overload.
LEMMA PublishOK ==
  ASSUME StreamOK, Stream!Publish
  PROVE  StreamOK' /\ client'.seq >= client.seq
<1>1. /\ StreamTypes /\ HandlingOK /\ Stream!FreshIsComplete
      /\ QueueOK(writer, seq, client.seq) /\ WaitersOK(writer, seq, client.seq)
  BY DEF StreamOK
<1>2. seq \in Nat /\ seq' = seq + 1 /\ client.seq \in 0..seq /\ client.seq \in Nat /\ 0..seq \subseteq 0..seq'
  BY <1>1 DEF StreamTypes, Stream!Publish
<1>3. QueueOK(writer, seq', client.seq) /\ WaitersOK(writer, seq', client.seq)
  BY <1>1, <1>2, WriterGrows
<1>4. ASSUME phase' = phase, inbound' = inbound, handling' = handling, client' = client,
             QueueOK(writer', seq', client.seq), WaitersOK(writer', seq', client.seq), HandlingOK'
      PROVE  StreamOK' /\ client'.seq >= client.seq
  <2>1. StreamTypes'
    BY <1>1, <1>2, <1>4 DEF StreamTypes
  <2>2. QueueOK(writer, seq, client.seq)' /\ WaitersOK(writer, seq, client.seq)'
    BY <1>4
  <2>3. Stream!FreshIsComplete'
    BY <1>1, <1>4 DEF Stream!FreshIsComplete
  <2> QED BY <1>2, <1>4, <2>1, <2>2, <2>3 DEF StreamOK
<1>5. CASE phase # "open"
  <2>1. UNCHANGED <<phase, writer, inbound, handling, client>>
    BY <1>5 DEF Stream!Publish
  <2>2. HandlingOK'
    BY <1>1, <2>1 DEF HandlingOK
  <2> QED BY <1>3, <1>4, <2>1, <2>2
<1>6. CASE phase = "open"
  <2>1. PICK u \in Units :
          IF Stream!Overloads(writer, Stream!Record(seq', u)) THEN Stream!Fails
          ELSE /\ writer' = Stream!Write(writer, Stream!Record(seq', u))
               /\ UNCHANGED <<phase, inbound, handling, client, requests, causes>>
    BY <1>6 DEF Stream!Publish
  <2> DEFINE m == Stream!Record(seq', u)
  <2>2. m \in Recs(seq')
    BY <1>2 DEF Recs, Stream!Record
  <2> HIDE DEF m
  <2>3. CASE Stream!Fails
    BY <1>1, <1>2, <2>3, FailsOK
  <2>4. CASE writer' = Stream!Write(writer, m) /\ UNCHANGED <<phase, inbound, handling, client>>
    <3>1. /\ QueueOK(writer', seq', client.seq) /\ WaitersOK(writer', seq', client.seq)
          /\ writer'.barrier = writer.barrier /\ writer'.responseWaiters = writer.responseWaiters
          /\ Silent(writer.queue) => Silent(writer'.queue)
      BY <1>2, <1>3, <2>2, <2>4, WriteRecord
    <3>2. HandlingOK'
      BY <1>1, <1>6, <2>4, <3>1 DEF HandlingOK
    <3> QED BY <1>4, <2>4, <3>1, <3>2
  <2> QED BY <2>1, <2>3, <2>4 DEF m
<1> QED BY <1>5, <1>6

\* The barrier goes up for the next request.
LEMMA BeginRequestOK ==
  ASSUME StreamOK, Stream!BeginRequest
  PROVE  StreamOK' /\ client'.seq >= client.seq
<1>1. /\ StreamTypes /\ HandlingOK /\ Stream!FreshIsComplete
      /\ QueueOK(writer, seq, client.seq) /\ WaitersOK(writer, seq, client.seq)
  BY DEF StreamOK
<1> DEFINE yes == TRUE
<1>2. /\ phase = "open" /\ handling = "none" /\ inbound # <<>> /\ handling' = Head(inbound) /\ inbound' = Tail(inbound)
      /\ writer' = [writer EXCEPT !.barrier = yes] /\ seq' = seq /\ phase' = phase /\ client' = client
  BY DEF Stream!BeginRequest
<1>3. yes = TRUE /\ yes \in BOOLEAN
  OBVIOUS
<1> HIDE DEF yes
<1>4. /\ IsWriter(writer') /\ writer'.queue = writer.queue /\ writer'.held = writer.held /\ writer'.barrier = yes
      /\ writer'.responseWaiters = writer.responseWaiters /\ writer'.ordinaryWaiters = writer.ordinaryWaiters
  BY <1>1, <1>2 DEF QueueOK, IsWriter
<1>5. handling' \in Asks /\ inbound' \in Seq(Asks)
  BY <1>1, <1>2 DEF StreamTypes
<1>6. StreamTypes'
  BY <1>1, <1>2, <1>5 DEF StreamTypes
<1>7. QueueOK(writer, seq, client.seq)'
  <2>1. QueueOK(writer', seq, client.seq)
    BY <1>1, <1>3, <1>4 DEF QueueOK
  <2> QED BY <1>2, <2>1
<1>8. writer.responseWaiters = <<>> /\ Silent(writer.queue)
  BY <1>1, <1>2 DEF HandlingOK
<1>9. WaitersOK(writer, seq, client.seq)'
  BY <1>1, <1>2, <1>4, <1>8 DEF WaitersOK
<1>10. HandlingOK'
  BY <1>2, <1>3, <1>4, <1>5, <1>8 DEF HandlingOK, Asks
<1>11. Stream!FreshIsComplete'
  BY <1>1, <1>2 DEF Stream!FreshIsComplete
<1>12. client'.seq >= client.seq
  BY <1>1, <1>2 DEF StreamTypes
<1> QED BY <1>6, <1>7, <1>9, <1>10, <1>11, <1>12 DEF StreamOK

\* The request is answered: nothing in the queue is newer than the answer.
LEMMA RespondOK ==
  ASSUME StreamOK, Stream!Respond
  PROVE  StreamOK' /\ client'.seq >= client.seq
<1>1. /\ StreamTypes /\ HandlingOK /\ Stream!FreshIsComplete
      /\ QueueOK(writer, seq, client.seq) /\ WaitersOK(writer, seq, client.seq)
  BY DEF StreamOK
<1>2. /\ phase = "open" /\ handling \in Asks /\ handling' = "responding"
      /\ seq' = seq /\ phase' = phase /\ inbound' = inbound /\ client' = client
  BY DEF Stream!Respond, Stream!Commands, Asks
<1>3. PICK to \in Asks \cup {"refused"}, u \in Answers : writer' = Stream!Write(writer, Stream!Response(to, seq, u))
  BY <1>2 DEF Stream!Respond
<1> DEFINE m == Stream!Response(to, seq, u)
<1>4. seq \in Nat /\ client.seq \in 0..seq /\ client.seq \in Nat
  BY <1>1 DEF StreamTypes
<1>5. m \in Resps(seq) /\ m.seq = seq
  BY <1>3, <1>4 DEF Resps, Stream!Response
<1> HIDE DEF m
<1>6. writer.barrier /\ writer.responseWaiters = <<>> /\ Silent(writer.queue)
  BY <1>1, <1>2 DEF HandlingOK
<1>7. Follows(m, writer.queue, client.seq)
  <2>1. \A x \in Msgs(seq) : x.seq \in 0..seq
    BY <1>4, MsgsGrow DEF Msgs
  <2>2. \A i \in 1..Len(writer.queue) : writer.queue[i] \in Msgs(seq)
    BY <1>1 DEF QueueOK
  <2>3. \A i \in 1..Len(writer.queue) : writer.queue[i].seq <= seq
    BY <1>4, <2>1, <2>2
  <2> QED BY <1>4, <1>5, <1>6, <2>3 DEF Follows
<1>8. /\ QueueOK(writer', seq, client.seq) /\ WaitersOK(writer', seq, client.seq)
      /\ writer'.responseWaiters = <<>> => ~writer'.barrier
  <2>1. writer' = Stream!Write(writer, m)
    BY <1>3 DEF m
  <2> QED BY <1>1, <1>4, <1>5, <1>6, <1>7, <2>1, WriteResponse
<1>9. QueueOK(writer, seq, client.seq)' /\ WaitersOK(writer, seq, client.seq)'
  BY <1>2, <1>8
<1>10. StreamTypes'
  BY <1>1, <1>2 DEF StreamTypes
<1>11. HandlingOK'
  BY <1>2, <1>8 DEF HandlingOK, Asks
<1>12. Stream!FreshIsComplete'
  BY <1>1, <1>2 DEF Stream!FreshIsComplete
<1>13. client'.seq >= client.seq
  BY <1>2, <1>4
<1> QED BY <1>9, <1>10, <1>11, <1>12, <1>13 DEF StreamOK

\* What the client makes of the message it receives.
LEMMA Received ==
  ASSUME StreamTypes, QueueOK(writer, seq, client.seq), writer.queue # <<>>, Stream!FreshIsComplete, Stream!Send
  PROVE  /\ client' \in [seq : 0..seq, applied : SUBSET Nat, stale : BOOLEAN, recovering : BOOLEAN]
         /\ Stream!FreshIsComplete' /\ client'.seq >= client.seq
         /\ Stream!IsResponse(Head(writer.queue)) \/ client'.seq <= client.seq \/ client'.seq <= Head(writer.queue).seq
<1> DEFINE m == Head(writer.queue)
<1>1. /\ seq \in Nat /\ client \in [seq : 0..seq, applied : SUBSET Nat, stale : BOOLEAN, recovering : BOOLEAN]
      /\ ~client.stale => client.applied = 1..client.seq
  BY DEF StreamTypes, Stream!FreshIsComplete
<1>2. m \in Msgs(seq) /\ (Stream!IsResponse(m) => client.seq <= m.seq)
  BY <1>1, OrderedRest DEF QueueOK
<1>3. m.seq \in 0..seq
  BY <1>1, <1>2, MsgsGrow DEF Msgs
<1>4. IF Stream!IsResponse(m) THEN client' = Stream!Answered(client, m)
      ELSE client' = [Stream!Reduce(client, m.seq) EXCEPT !.recovering = @ \/ Stream!Recovers(client, m.seq)]
  BY DEF Stream!Send
<1> HIDE DEF m
<1> DEFINE yes == TRUE
           no == FALSE
<1>5. yes = TRUE /\ no = FALSE /\ yes \in BOOLEAN /\ no \in BOOLEAN
  OBVIOUS
<1>6. CASE Stream!IsResponse(m)
  <2>1. \/ client' = client
        \/ client' = [client EXCEPT !.recovering = no]
        \/ \E r \in BOOLEAN :
             client' = [client EXCEPT !.seq = m.seq, !.applied = 1..m.seq, !.stale = no, !.recovering = r]
    <3>1. client' = Stream!Answered(client, m)
      BY <1>4, <1>6
    <3>2. CASE m.to \in Stream!Commands
      BY <3>1, <3>2 DEF Stream!Answered, Stream!Commands
    <3>3. CASE m.to \notin Stream!Commands /\ m.to = "refused"
      BY <3>1, <3>3 DEF Stream!Answered
    <3>4. CASE m.to \notin Stream!Commands /\ m.to # "refused"
      <4> DEFINE r == IF m.to = "resume" THEN FALSE ELSE client.recovering
      <4>1. r \in BOOLEAN
        BY <1>1
      <4>2. client' = [client EXCEPT !.seq = m.seq, !.applied = 1..m.seq, !.stale = no, !.recovering = r]
        BY <1>1, <3>1, <3>4 DEF Stream!Answered
      <4> QED BY <4>1, <4>2
    <3> QED BY <3>2, <3>3, <3>4
  <2> HIDE DEF no
  <2>2. CASE client' = client
    BY <1>1, <1>6, <2>2 DEF Stream!FreshIsComplete, m
  <2>3. CASE client' = [client EXCEPT !.recovering = no]
    <3>1. /\ client' \in [seq : 0..seq, applied : SUBSET Nat, stale : BOOLEAN, recovering : BOOLEAN]
          /\ client'.seq = client.seq /\ client'.applied = client.applied /\ client'.stale = client.stale
      BY <1>1, <1>5, <2>3
    <3> QED BY <1>1, <1>6, <3>1 DEF Stream!FreshIsComplete, m
  <2>4. ASSUME NEW r \in BOOLEAN,
               client' = [client EXCEPT !.seq = m.seq, !.applied = 1..m.seq, !.stale = no, !.recovering = r]
        PROVE  /\ client' \in [seq : 0..seq, applied : SUBSET Nat, stale : BOOLEAN, recovering : BOOLEAN]
               /\ client'.seq = m.seq /\ client'.applied = 1..m.seq
    <3> DEFINE a == 1..m.seq
    <3>1. a \in SUBSET Nat /\ client' = [client EXCEPT !.seq = m.seq, !.applied = a, !.stale = no, !.recovering = r]
      BY <1>3, <2>4
    <3> HIDE DEF a
    <3>2. /\ client' \in [seq : 0..seq, applied : SUBSET Nat, stale : BOOLEAN, recovering : BOOLEAN]
          /\ client'.seq = m.seq /\ client'.applied = a
      BY <1>1, <1>3, <1>5, <3>1
    <3> QED BY <3>2 DEF a
  <2>5. CASE client'.seq = m.seq /\ client'.applied = 1..m.seq
             /\ client' \in [seq : 0..seq, applied : SUBSET Nat, stale : BOOLEAN, recovering : BOOLEAN]
    BY <1>1, <1>2, <1>3, <1>6, <2>5 DEF Stream!FreshIsComplete, m
  <2> QED BY <2>1, <2>2, <2>3, <2>4, <2>5
<1>7. CASE ~Stream!IsResponse(m)
  <2> DEFINE n == m.seq
             a == client.applied \cup {n}
             s == client.stale \/ n # client.seq + 1
             r == client.recovering \/ Stream!Recovers(client, n)
  <2>1. a \in SUBSET Nat /\ s \in BOOLEAN /\ r \in BOOLEAN
    BY <1>1, <1>3
  <2>2. CASE n <= client.seq
    <3>1. client' = [client EXCEPT !.recovering = r]
      BY <1>1, <1>4, <1>7, <2>2 DEF Stream!Reduce
    <3> HIDE DEF r
    <3>2. /\ client' \in [seq : 0..seq, applied : SUBSET Nat, stale : BOOLEAN, recovering : BOOLEAN]
          /\ client'.seq = client.seq /\ client'.applied = client.applied /\ client'.stale = client.stale
      BY <1>1, <2>1, <3>1
    <3> QED BY <1>1, <3>2 DEF Stream!FreshIsComplete, m
  <2>3. CASE ~(n <= client.seq)
    <3>1. client' = [[client EXCEPT !.seq = n, !.applied = a, !.stale = s] EXCEPT !.recovering = r]
      <4>1. Stream!Reduce(client, n) = [client EXCEPT !.seq = n, !.applied = a, !.stale = s]
        BY <1>1, <2>3 DEF Stream!Reduce
      <4> DEFINE u == Stream!Reduce(client, n)
      <4>2. client' = [u EXCEPT !.recovering = u.recovering \/ Stream!Recovers(client, n)]
        BY <1>4, <1>7
      <4>3. u.recovering = client.recovering
        <5> HIDE DEF a, s
        <5> QED BY <1>1, <4>1
      <4> HIDE DEF u, a, s
      <4> QED BY <4>1, <4>2, <4>3 DEF u
    <3>2. ~s => a = 1..n
      BY <1>1, <1>3, <2>3
    <3> HIDE DEF a, s, r
    <3>3. /\ client' \in [seq : 0..seq, applied : SUBSET Nat, stale : BOOLEAN, recovering : BOOLEAN]
          /\ client'.seq = n /\ client'.applied = a /\ client'.stale = s
      BY <1>1, <1>3, <2>1, <3>1
    <3> QED BY <1>1, <1>3, <2>3, <3>2, <3>3 DEF Stream!FreshIsComplete, m
  <2> QED BY <2>2, <2>3
<1> QED BY <1>6, <1>7

\* A message is taken, what waited is let in, and the client applies it.
LEMMA SendOK ==
  ASSUME StreamOK, Stream!Send
  PROVE  StreamOK' /\ client'.seq >= client.seq
<1>1. /\ StreamTypes /\ HandlingOK /\ Stream!FreshIsComplete
      /\ QueueOK(writer, seq, client.seq) /\ WaitersOK(writer, seq, client.seq)
  BY DEF StreamOK
<1> DEFINE m == Head(writer.queue)
           f == Stream!Freed([writer EXCEPT !.queue = Tail(@)], m)
<1>2. /\ phase # "closed" /\ writer.queue # <<>>
      /\ writer' = (IF phase = "open" THEN Stream!DrainAdmissionWaiters(f) ELSE f)
      /\ Stream!IsResponse(m) => handling' = "none" /\ inbound' = inbound
      /\ ~Stream!IsResponse(m) => /\ handling' = handling
                             /\ inbound' = IF phase = "open" /\ Stream!Recovers(client, m.seq)
                                           THEN Append(inbound, "resume") ELSE inbound
      /\ seq' = seq /\ phase' = phase
  BY DEF Stream!Send
<1>3. seq \in Nat /\ client.seq \in 0..seq /\ client.seq \in Nat
  BY <1>1 DEF StreamTypes
<1>4. /\ client' \in [seq : 0..seq, applied : SUBSET Nat, stale : BOOLEAN, recovering : BOOLEAN]
      /\ Stream!FreshIsComplete' /\ client'.seq >= client.seq /\ client'.seq \in Nat
      /\ Stream!IsResponse(m) \/ client'.seq <= client.seq \/ client'.seq <= m.seq
  BY <1>1, <1>2, <1>3, Received
<1>5. /\ QueueOK(f, seq, client'.seq) /\ WaitersOK(f, seq, client'.seq)
      /\ f.barrier = writer.barrier /\ f.responseWaiters = writer.responseWaiters
      /\ f.ordinaryWaiters = writer.ordinaryWaiters /\ f.queue = Tail(writer.queue)
  BY <1>1, <1>2, <1>3, <1>4, Taken
<1>6. /\ Stream!IsResponse(m) => Silent(f.queue) /\ ~Silent(writer.queue)
      /\ Silent(writer.queue) => Silent(f.queue)
  BY <1>1, <1>2, <1>3, <1>5, OrderedRest DEF QueueOK
<1> HIDE DEF f, m
<1>7. /\ QueueOK(writer', seq, client'.seq) /\ WaitersOK(writer', seq, client'.seq)
      /\ f.responseWaiters = <<>> => /\ writer'.responseWaiters = <<>> /\ writer'.barrier = f.barrier
                                     /\ Silent(f.queue) => Silent(writer'.queue)
      /\ f.responseWaiters # <<>> /\ writer'.responseWaiters = <<>> => ~writer'.barrier \/ phase # "open"
      /\ phase # "open" => writer'.ordinaryWaiters = writer.ordinaryWaiters
  <2>1. CASE phase = "open"
    BY <1>2, <1>3, <1>4, <1>5, <2>1, Drained
  <2>2. CASE phase # "open"
    BY <1>2, <1>5, <2>2
  <2> QED BY <2>1, <2>2
<1>8. QueueOK(writer, seq, client.seq)' /\ WaitersOK(writer, seq, client.seq)'
  BY <1>2, <1>7
<1>9. StreamTypes'
  <2>1. inbound' \in Seq(Asks)
    <3>1. "resume" \in Asks /\ inbound \in Seq(Asks)
      BY <1>1 DEF StreamTypes, Asks
    <3>2. Append(inbound, "resume") \in Seq(Asks)
      BY <3>1
    <3> QED BY <1>2, <3>1, <3>2
  <2>2. handling' \in Asks \cup {"none", "responding"}
    BY <1>1, <1>2 DEF StreamTypes
  <2> QED BY <1>1, <1>2, <1>4, <2>1, <2>2 DEF StreamTypes
<1>10. HandlingOK'
  <2>1. CASE Stream!IsResponse(m)
    <3>1. writer.responseWaiters = <<>>
      <4>1. writer.responseWaiters # <<>> => Silent(writer.queue)
        BY <1>1 DEF WaitersOK, Follows
      <4> QED BY <1>6, <2>1, <4>1
    <3>2. ~writer.barrier
      BY <1>1, <1>6, <2>1, <3>1 DEF HandlingOK, StreamTypes
    <3> QED BY <1>1, <1>2, <1>5, <1>6, <1>7, <2>1, <3>1, <3>2 DEF HandlingOK, Asks
  <2>2. CASE ~Stream!IsResponse(m)
    <3>1. handling' = handling /\ (phase # "open" => inbound' = inbound)
      BY <1>2, <2>2
    <3> QED BY <1>1, <1>2, <1>5, <1>6, <1>7, <3>1 DEF HandlingOK, Asks
  <2> QED BY <2>1, <2>2
<1> QED BY <1>4, <1>8, <1>9, <1>10 DEF StreamOK

\* A request is received.
LEMMA AskOK ==
  ASSUME StreamOK, Stream!Ask
  PROVE  StreamOK' /\ client'.seq >= client.seq
<1>1. StreamTypes /\ HandlingOK
  BY DEF StreamOK
<1>2. /\ phase = "open" /\ seq' = seq /\ phase' = phase /\ writer' = writer /\ handling' = handling /\ client' = client
  BY DEF Stream!Ask
<1>3. inbound' \in Seq(Asks)
  <2>1. PICK what \in Asks : inbound' = Append(inbound, what)
    BY DEF Stream!Ask, Stream!Commands, Asks
  <2> QED BY <1>1, <2>1 DEF StreamTypes
<1>4. StreamTypes' /\ client'.seq >= client.seq
  BY <1>1, <1>2, <1>3 DEF StreamTypes
<1>5. HandlingOK'
  BY <1>1, <1>2 DEF HandlingOK
<1> QED BY <1>2, <1>4, <1>5 DEF StreamOK, Stream!FreshIsComplete

\* The steps that end the connection.
LEMMA EndsOK ==
  ASSUME StreamOK, Stream!TimesOut \/ Stream!Break \/ Stream!Close \/ Stream!Closed
  PROVE  StreamOK' /\ client'.seq >= client.seq
<1>1. /\ StreamTypes /\ HandlingOK /\ Stream!FreshIsComplete
      /\ QueueOK(writer, seq, client.seq) /\ WaitersOK(writer, seq, client.seq)
  BY DEF StreamOK
<1>2. seq \in Nat /\ client.seq \in Nat /\ seq' = seq
  BY <1>1 DEF StreamTypes, Stream!TimesOut, Stream!Break, Stream!Close, Stream!Closed
<1>3. CASE Stream!TimesOut \/ Stream!Break
  BY <1>1, <1>2, <1>3, FailsOK DEF Stream!TimesOut, Stream!Break
<1>4. CASE Stream!Close
  <2> DEFINE s == Stream!StopAccepting(writer)
             none == <<>>
  <2>1. /\ phase' = "draining" /\ writer' = s /\ inbound' = none /\ handling' = "none" /\ client' = client
    BY <1>4 DEF Stream!Close
  <2>2. /\ QueueOK(s, seq, client.seq) /\ WaitersOK(s, seq, client.seq)
        /\ ~s.barrier /\ s.responseWaiters = <<>> /\ s.ordinaryWaiters = <<>>
    BY <1>1, <1>2, Stopped
  <2>3. none \in Seq(Asks) /\ none = <<>>
    OBVIOUS
  <2> HIDE DEF s, none
  <2>4. StreamTypes' /\ client'.seq >= client.seq
    BY <1>1, <1>2, <2>1, <2>3 DEF StreamTypes
  <2>5. QueueOK(writer, seq, client.seq)' /\ WaitersOK(writer, seq, client.seq)'
    BY <1>2, <2>1, <2>2
  <2>6. HandlingOK'
    BY <2>1, <2>2, <2>3 DEF HandlingOK, Asks
  <2> QED BY <1>1, <2>1, <2>4, <2>5, <2>6 DEF StreamOK, Stream!FreshIsComplete
<1>5. CASE Stream!Closed
  <2> DEFINE no == FALSE
  <2>1. /\ phase = "draining" /\ phase' = "closed" /\ client' = [client EXCEPT !.recovering = no]
        /\ writer' = writer /\ inbound' = inbound /\ handling' = handling
    BY <1>5 DEF Stream!Closed
  <2>2. no \in BOOLEAN
    OBVIOUS
  <2> HIDE DEF no
  <2>3. /\ client' \in [seq : 0..seq, applied : SUBSET Nat, stale : BOOLEAN, recovering : BOOLEAN]
        /\ client'.seq = client.seq /\ client'.applied = client.applied /\ client'.stale = client.stale
    BY <1>1, <2>1, <2>2 DEF StreamTypes
  <2>4. StreamTypes' /\ client'.seq >= client.seq
    BY <1>1, <1>2, <2>1, <2>3 DEF StreamTypes
  <2>5. QueueOK(writer, seq, client.seq)' /\ WaitersOK(writer, seq, client.seq)'
    BY <1>1, <1>2, <2>1, <2>3
  <2>6. HandlingOK'
    BY <1>1, <2>1 DEF HandlingOK
  <2>7. Stream!FreshIsComplete'
    BY <1>1, <2>3 DEF Stream!FreshIsComplete
  <2> QED BY <2>4, <2>5, <2>6, <2>7 DEF StreamOK
<1> QED BY <1>3, <1>4, <1>5

\* Every step keeps the inductive invariant, and the projection does not go back.
LEMMA StreamNext ==
  ASSUME StreamOK, [Stream!Next]_Stream!vars
  PROVE  StreamOK' /\ client'.seq >= client.seq
<1>1. CASE UNCHANGED Stream!vars
  <2>1. /\ seq' = seq /\ phase' = phase /\ writer' = writer /\ inbound' = inbound
        /\ handling' = handling /\ client' = client
    BY <1>1 DEF Stream!vars
  <2>2. client.seq \in Nat
    BY DEF StreamOK, StreamTypes
  <2> QED BY <2>1, <2>2 DEF StreamOK, StreamTypes, HandlingOK, Stream!FreshIsComplete
<1>2. CASE Stream!Next
  BY <1>2, PublishOK, BeginRequestOK, RespondOK, SendOK, AskOK, EndsOK DEF Stream!Next
<1> QED BY <1>1, <1>2

\* server-connection.ts ProtocolMessageWriter and event-reducer.ts: whatever waits
\* for room, is held behind a response or is lost with the connection, a projection
\* that is not stale has applied every record up to its sequence number.
THEOREM Fresh == ConnectionSpec => []FreshIsComplete
<1>1. StreamOK /\ [Stream!Next]_Stream!vars => StreamOK'
  BY StreamNext
<1>2. StreamOK => FreshIsComplete
  BY DEF StreamOK, FreshIsComplete
<1> QED BY StreamInit, <1>1, <1>2, PTL DEF ConnectionSpec, Stream!Spec

\* server-connection.ts writeAdmitted, thread-client.ts:113 and 257: the projection
\* never goes back, for no record is sent that a snapshot behind it does not have.
THEOREM Forward == ConnectionSpec => NeverGoesBack
<1>1. StreamOK /\ [Stream!Next]_Stream!vars => StreamOK'
  BY StreamNext
<1>2. StreamOK /\ [Stream!Next]_Stream!vars => [client'.seq >= client.seq]_Stream!vars
  BY StreamNext
<1> QED BY StreamInit, <1>1, <1>2, PTL DEF ConnectionSpec, Stream!Spec, NeverGoesBack, Stream!NeverGoesBack
=============================================================================
