--------------------------- MODULE ThreadPoolProofs ---------------------------
(***************************************************************************)
(* Proofs about ThreadPool, for any connections, requests and generations. *)
(*                                                                         *)
(* The generations are loaded one at a time and in order; the lease says   *)
(* which one is on its way in or out (PhasesOK), and a handler that goes   *)
(* on goes on with it (CallOK).  What keeps a generation loaded is counted *)
(* in its state and done elsewhere: its holds are the handlers that        *)
(* operate on it, and it leaves with none, without a turn and without a    *)
(* request (StateOK).  The pool's subscriptions and the state's            *)
(* subscribers may differ by connections that are closed (SubscribedOK).   *)
(* A request moves from one controller to the next: it is asked of an open *)
(* connection or of nobody, and of nobody only while no controller is      *)
(* there, which needs to know whom it was asked of before (RequestOK).     *)
(*                                                                         *)
(* Each step changes one generation.  The proofs say first what it becomes *)
(* (Becomes), then what that means for each part of the invariant.         *)
(***************************************************************************)
EXTENDS ThreadPool, SequenceTheorems, FiniteSetTheorems, WellFoundedInduction, TLAPS

\* A generation, a question of a request, a request, a handler.
States ==
  [phase : {"none", "reading", "open", "closing", "closed"},
   subscribers : Seq(Conns), turn : BOOLEAN, subscriptions : SUBSET Conns,
   holds : Nat, timer : BOOLEAN]
Asks == [conn : Conns \cup {Nobody}, tried : SUBSET Conns, failed : BOOLEAN]
Asked == [phase : {"none", "pending", "resolved", "rejected", "over"},
          gen : 0..MaxGen, refused : BOOLEAN, ask : Asks]
Handlers == [kind : {"none", "awaits resume", "awaits operation", "resumes", "operates",
                     "holds", "starts"}, gen : 0..MaxGen]

\* The type; a state's holds are numbers, and the invariant says which.
Types ==
  /\ current \in 0..MaxGen /\ lease \in 0..MaxGen /\ closing \in BOOLEAN /\ stuck \in BOOLEAN
  /\ loading \in {"no", "acquires", "reads"}
  /\ states \in [Gens -> States] /\ \A g \in Gens : IsInjective(states[g].subscribers)
  /\ conn \in [Conns -> {"open", "closed", "released"}]
  /\ call \in [Conns -> Handlers]
  /\ request \in [Requests -> Asked]
  /\ causes \subseteq {"lateAttach", "lateTurn"}

\* A generation is loaded, open while entries has it, and closes: one at a
\* time, with the lease, and in the order of their numbers.
PhasesOK ==
  /\ \A g \in Gens : states[g].phase = "open" <=> current = g
  /\ \A g \in Gens : states[g].phase \in {"reading", "open", "closing"} <=> lease = g
  /\ loading = "reads" => lease # 0 /\ states[lease].phase = "reading"
  /\ \E n \in 0..MaxGen : Used = 1..n

\* What a handler that goes on goes on with.
CallOK(c) ==
  /\ call[c].kind \in {"resumes", "operates"} => call[c].gen = current /\ current # 0
  /\ Calls(c, "holds") => call[c].gen \in Gens /\ states[call[c].gen].phase \in {"open", "closing", "closed"}
  /\ Calls(c, "starts") =>
       /\ call[c].gen = 1 /\ lease = 1 /\ 1 \in Gens /\ states[1].phase = "reading" /\ loading # "reads"
       /\ \A d \in Conns : Calls(d, "starts") => d = c

\* The handlers that hold g.
Holders(g) == {c \in Conns : Calls(c, "holds") /\ call[c].gen = g}

\* Nothing has been done with a generation that is not loaded yet, and nothing
\* is left to do when one is unloaded.
StateOK(g) ==
  /\ states[g].holds = Cardinality(Holders(g))
  /\ states[g].phase \in {"none", "reading"} =>
       /\ ~states[g].turn /\ states[g].subscribers = <<>> /\ states[g].subscriptions = {}
       /\ Pending(g) = {}
  /\ states[g].phase \in {"closing", "closed"} /\ ~closing =>
       states[g].holds = 0 /\ ~states[g].turn /\ Pending(g) = {}

\* Who is subscribed is published to, until a message finds the connection closed.
SubscribedOK(g) ==
  /\ ToSet(states[g].subscribers) \subseteq states[g].subscriptions
  /\ g = current => \A c \in states[g].subscriptions :
       /\ conn[c] = "open" => c \in ToSet(states[g].subscribers)
       /\ "lateAttach" \notin causes => conn[c] # "released"

\* A request is asked of a connection that is open; unless one has failed, all
\* others it was asked of are closed.
AskOK(q, open) ==
  /\ q.phase # "none" => q.gen \in Gens
  /\ q.phase = "none" \/ q.ask.conn = Nobody => q.ask = NotAsked
  /\ q.ask.conn # Nobody => q.ask.conn \in open
  /\ ~q.ask.failed => \A c \in q.ask.tried : c = q.ask.conn \/ c \notin open

\* It waits only while no controller is there.
WaitOK(q, open, subscribed) ==
  q.phase = "pending" /\ q.ask.conn = Nobody => Controllers \cap open \cap subscribed = {}

\* What is said of a request, while its thread is loaded and after.
RequestOK(r) ==
  /\ AskOK(request[r], Open)
  /\ request[r].gen = current /\ current # 0 =>
       WaitOK(request[r], Open, states[current].subscriptions)

\* The inductive invariant.
IInv ==
  /\ Types /\ PhasesOK
  /\ \A c \in Conns : CallOK(c)
  /\ \A g \in Gens : StateOK(g) /\ SubscribedOK(g)
  /\ \A r \in Requests : RequestOK(r)

\* A set of numbers that is not empty has a least member.
LEMMA LeastNat ==
  ASSUME NEW S \in SUBSET Nat, S # {}
  PROVE  \E x \in S : \A y \in S : x <= y
<1> DEFINE R == {p \in Nat \X Nat : p[1] < p[2]}
<1>1. IsWellFoundedOn(R, Nat)
  BY NatLessThanWellFounded DEF OpToRel
<1>2. \E x \in S : \A y \in S : ~(<<y, x>> \in R)
  <2> HIDE DEF R
  <2> QED BY <1>1, WFMin
<1>3. PICK x \in S : \A y \in S : ~(<<y, x>> \in R)
  BY <1>2
<1>4. ASSUME NEW y \in S PROVE x <= y
  <2>1. y < x => <<y, x>> \in R
    <3> DEFINE p == <<y, x>>
    <3>1. p \in Nat \X Nat /\ p[1] = y /\ p[2] = x
      OBVIOUS
    <3> QED BY <3>1
  <2> QED BY <2>1, <1>3
<1> QED BY <1>4

\* Kept is computed along the sequence, one member at a time.
LEMMA KeptUnfolds ==
  ASSUME NEW T, NEW s \in Seq(T), NEW S
  PROVE  \E f : /\ f[0] = <<>> /\ Kept(s, S) = f[Len(s)]
                /\ \A n \in 1..Len(s) :
                     f[n] = IF s[n] \in S THEN Append(f[n - 1], s[n]) ELSE f[n - 1]
<1> DEFINE Body(f, n) == IF n = 0 THEN <<>>
                         ELSE IF s[n] \in S THEN Append(f[n - 1], s[n]) ELSE f[n - 1]
           Good(f, m) == f \in [0..m -> Seq(T)] /\ \A n \in 0..m : f[n] = Body(f, n)
           Bad == {m \in 0..Len(s) : ~ \E f : Good(f, m)}
<1>1. Len(s) \in Nat /\ <<>> \in Seq(T) /\ \A n \in 1..Len(s) : s[n] \in T
  OBVIOUS
<1>2. \E f : Good(f, 0)
  <2>1. Good([n \in 0..0 |-> <<>>], 0)
    BY <1>1
  <2> QED
    BY <2>1
<1>3. ASSUME NEW m \in 1..Len(s), \E f : Good(f, m - 1)
      PROVE  \E f : Good(f, m)
  <2>1. PICK f : Good(f, m - 1)
    BY <1>3
  <2>2. m \in Nat /\ m - 1 \in Nat /\ m # 0 /\ m - 1 \in 0..(m - 1) /\ s[m] \in T
    BY <1>1
  <2>3. Body(f, m) \in Seq(T)
    BY <2>1, <2>2
  <2> DEFINE g == [n \in 0..m |-> IF n = m THEN Body(f, m) ELSE f[n]]
  <2>4. \A n \in 0..(m - 1) : g[n] = f[n]
    BY <2>2
  <2>5. g \in [0..m -> Seq(T)]
    <3>1. \A n \in 0..m : n = m \/ n \in 0..(m - 1)
      BY <2>2
    <3>2. \A n \in 0..(m - 1) : f[n] \in Seq(T)
      BY <2>1
    <3> HIDE DEF Body
    <3> QED
      BY <3>1, <3>2, <2>3
  <2>6. ASSUME NEW n \in 0..m PROVE g[n] = Body(g, n)
    <3>1. CASE n = m
      <4>1. g[m - 1] = f[m - 1] /\ g[m] = Body(f, m)
        BY <2>2, <2>4
      <4> HIDE DEF g
      <4> QED
        BY <4>1, <3>1, <2>2
    <3>2. CASE n \in 0..(m - 1) /\ n # 0
      <4>1. n - 1 \in 0..(m - 1) /\ n # 0
        BY <3>2, <2>2
      <4>2. g[n] = f[n] /\ g[n - 1] = f[n - 1] /\ f[n] = Body(f, n)
        BY <4>1, <3>2, <2>4, <2>1
      <4> HIDE DEF g
      <4> QED
        BY <4>1, <4>2
    <3>3. CASE n = 0
      <4>1. 0 \in 0..(m - 1)
        BY <2>2
      <4>2. g[0] = f[0] /\ f[0] = Body(f, 0)
        BY <2>4, <2>1, <4>1
      <4> HIDE DEF g
      <4> QED
        BY <3>3, <4>2
    <3> QED
      BY <3>1, <3>2, <3>3, <2>2
  <2>7. Good(g, m)
    <3> HIDE DEF g, Body
    <3> QED
      BY <2>5, <2>6
  <2> QED
    BY <2>7
<1>4. Bad = {}
  <2> SUFFICES ASSUME Bad # {} PROVE FALSE
    OBVIOUS
  <2>1. Bad \in SUBSET Nat
    BY <1>1
  <2>2. PICK m \in Bad : \A y \in Bad : m <= y
    <3> HIDE DEF Bad
    <3> QED
      BY <2>1, LeastNat
  <2>3. m \in 0..Len(s) /\ ~ \E f : Good(f, m)
    OBVIOUS
  <2> HIDE DEF Good
  <2>4. m # 0
    BY <2>3, <1>2
  <2>5. m \in 1..Len(s) /\ m - 1 \in 0..Len(s)
    BY <2>3, <2>4, <1>1
  <2>6. ~ \E f : Good(f, m - 1)
    BY <2>3, <2>5, <1>3
  <2>7. m - 1 \in Bad
    BY <2>5, <2>6
  <2> QED
    BY <2>2, <2>7, <2>5
<1>5. PICK f : Good(f, Len(s))
  <2> HIDE DEF Good
  <2> QED
    BY <1>4, <1>1
<1>6. \E g : g = [n \in 0..Len(s) |-> IF n = 0 THEN <<>> ELSE IF s[n] \in S THEN Append(g[n - 1], s[n]) ELSE g[n - 1]]
  <2>1. f = [n \in 0..Len(s) |-> IF n = 0 THEN <<>> ELSE IF s[n] \in S THEN Append(f[n - 1], s[n]) ELSE f[n - 1]]
    BY <1>5
  <2> QED
    BY <2>1
<1> DEFINE G == CHOOSE g : g = [n \in 0..Len(s) |-> IF n = 0 THEN <<>> ELSE IF s[n] \in S THEN Append(g[n - 1], s[n]) ELSE g[n - 1]]
<1>7. G = [n \in 0..Len(s) |-> IF n = 0 THEN <<>> ELSE IF s[n] \in S THEN Append(G[n - 1], s[n]) ELSE G[n - 1]]
  BY <1>6, Zenon
<1>8. Kept(s, S) = G[Len(s)]
  BY Zenon DEF Kept
<1> HIDE DEF G
<1>9. 0 \in 0..Len(s) /\ \A n \in 1..Len(s) : n \in 0..Len(s) /\ n # 0
  BY <1>1
<1>10. \A n \in 0..Len(s) : G[n] = IF n = 0 THEN <<>> ELSE IF s[n] \in S THEN Append(G[n - 1], s[n]) ELSE G[n - 1]
  BY <1>7, Zenon
<1> QED
  BY <1>8, <1>9, <1>10

\* Kept keeps the members that are in S, and no member twice.
LEMMA KeptIs ==
  ASSUME NEW T, NEW s \in Seq(T), NEW S
  PROVE  /\ Kept(s, S) \in Seq(T)
         /\ ToSet(Kept(s, S)) = ToSet(s) \cap S
         /\ IsInjective(s) => IsInjective(Kept(s, S))
<1>1. PICK f : /\ f[0] = <<>> /\ Kept(s, S) = f[Len(s)]
               /\ \A n \in 1..Len(s) :
                    f[n] = IF s[n] \in S THEN Append(f[n - 1], s[n]) ELSE f[n - 1]
  BY KeptUnfolds
<1> DEFINE First(n) == {s[i] : i \in 1..n}
           Good(n) == /\ f[n] \in Seq(T)
                      /\ ToSet(f[n]) = First(n) \cap S
                      /\ IsInjective(s) => IsInjective(f[n])
           Bad == {n \in 0..Len(s) : ~Good(n)}
<1>2. Len(s) \in Nat /\ <<>> \in Seq(T) /\ \A n \in 1..Len(s) : s[n] \in T
  OBVIOUS
<1>3. Good(0)
  <2>1. First(0) = {} /\ ToSet(<<>>) = {}
    BY DEF ToSet
  <2>2. IsInjective(<<>>)
    BY DEF IsInjective
  <2> HIDE DEF First
  <2> QED
    BY <2>1, <2>2, <1>1, <1>2
<1>4. ASSUME NEW n \in 1..Len(s), Good(n - 1) PROVE Good(n)
  <2>1. n \in Nat /\ n - 1 \in Nat /\ s[n] \in T
    BY <1>2
  <2>2. First(n) = First(n - 1) \cup {s[n]}
    <3>1. \A i : i \in 1..n <=> i \in 1..(n - 1) \/ i = n
      BY <2>1
    <3> QED
      BY <3>1
  <2>3. CASE s[n] \notin S
    <3>1. f[n] = f[n - 1]
      BY <1>1, <2>3
    <3> HIDE DEF First
    <3> QED
      BY <3>1, <1>4, <2>2, <2>3
  <2>4. CASE s[n] \in S
    <3>1. f[n] = Append(f[n - 1], s[n])
      BY <1>1, <2>4
    <3> DEFINE a == f[n - 1]
    <3>2. a \in Seq(T) /\ ToSet(a) = First(n - 1) \cap S /\ Len(a) \in Nat
      BY <1>4
    <3>3. /\ f[n] \in Seq(T) /\ Len(f[n]) = Len(a) + 1 /\ f[n][Len(a) + 1] = s[n]
          /\ \A i \in 1..Len(a) : f[n][i] = a[i]
      BY <3>1, <3>2, <2>1
    <3>4. \A i : i \in 1..(Len(a) + 1) <=> i \in 1..Len(a) \/ i = Len(a) + 1
      BY <3>2
    <3>5. ToSet(f[n]) = ToSet(a) \cup {s[n]}
      <4>1. DOMAIN f[n] = 1..(Len(a) + 1) /\ DOMAIN a = 1..Len(a)
        BY <3>2, <3>3
      <4> HIDE DEF a
      <4> QED
        BY <4>1, <3>3, <3>4 DEF ToSet
    <3>6. ToSet(f[n]) = First(n) \cap S
      <4> HIDE DEF First, a
      <4> QED
        BY <3>2, <3>5, <2>2, <2>4
    <3>7. ASSUME IsInjective(s) PROVE IsInjective(f[n])
      <4>1. s[n] \notin ToSet(a)
        <5>1. \A i \in 1..(n - 1) : s[i] # s[n]
          <6>1. \A i \in 1..(n - 1) : i \in DOMAIN s /\ n \in DOMAIN s /\ i # n
            BY <1>2, <2>1
          <6> QED
            BY <6>1, <3>7 DEF IsInjective
        <5>2. s[n] \notin First(n - 1)
          BY <5>1
        <5> HIDE DEF First, a
        <5> QED
          BY <5>2, <3>2
      <4>2. IsInjective(a)
        BY <1>4, <3>7
      <4>3. DOMAIN f[n] = 1..(Len(a) + 1) /\ DOMAIN a = 1..Len(a)
        BY <3>2, <3>3
      <4>4. \A i \in 1..Len(a) : a[i] # s[n]
        <5> HIDE DEF a
        <5> QED
          BY <4>1, <4>3 DEF ToSet
      <4>5. \A i, j \in 1..(Len(a) + 1) : f[n][i] = f[n][j] => i = j
        <5> HIDE DEF a
        <5>1. \A i, j \in 1..Len(a) : a[i] = a[j] => i = j
          BY <4>2, <4>3 DEF IsInjective
        <5> QED
          BY <5>1, <4>4, <3>3, <3>4
      <4> QED
        BY <4>3, <4>5 DEF IsInjective
    <3> HIDE DEF First, a
    <3> QED
      BY <3>3, <3>6, <3>7
  <2> HIDE DEF Good
  <2> QED
    BY <2>3, <2>4
<1>5. Bad = {}
  <2> SUFFICES ASSUME Bad # {} PROVE FALSE
    OBVIOUS
  <2>1. Bad \in SUBSET Nat
    BY <1>2
  <2>2. PICK m \in Bad : \A y \in Bad : m <= y
    <3> HIDE DEF Bad
    <3> QED
      BY <2>1, LeastNat
  <2> HIDE DEF Good
  <2>3. m \in 0..Len(s) /\ ~Good(m)
    OBVIOUS
  <2>4. m # 0
    BY <2>3, <1>3
  <2>5. m \in 1..Len(s) /\ m - 1 \in 0..Len(s)
    BY <2>3, <2>4, <1>2
  <2>6. m - 1 \in Bad
    BY <2>3, <2>5, <1>4
  <2> QED
    BY <2>2, <2>5, <2>6
<1>6. Good(Len(s))
  <2> HIDE DEF Good
  <2> QED
    BY <1>5, <1>2
<1>7. First(Len(s)) = ToSet(s)
  BY DEF ToSet
<1> HIDE DEF First
<1> QED
  BY <1>1, <1>6, <1>7

\* Setting the timer changes nothing else.
LEMMA Scheduled ==
  ASSUME NEW s \in States
  PROVE  /\ ScheduleUnload(s) \in States
         /\ ScheduleUnload(s).phase = s.phase /\ ScheduleUnload(s).turn = s.turn
         /\ ScheduleUnload(s).holds = s.holds
         /\ ScheduleUnload(s).subscribers = s.subscribers
         /\ ScheduleUnload(s).subscriptions = s.subscriptions
BY DEF ScheduleUnload, States

\* Append adds one member.
LEMMA Appended ==
  ASSUME NEW s \in Seq(Conns), NEW c \in Conns
  PROVE  /\ Append(s, c) \in Seq(Conns)
         /\ ToSet(Append(s, c)) = ToSet(s) \cup {c}
         /\ IsInjective(s) /\ c \notin ToSet(s) => IsInjective(Append(s, c))
<1>1. /\ Append(s, c) \in Seq(Conns) /\ Len(s) \in Nat
      /\ DOMAIN s = 1..Len(s) /\ DOMAIN Append(s, c) = 1..(Len(s) + 1)
      /\ Append(s, c)[Len(s) + 1] = c /\ \A i \in 1..Len(s) : Append(s, c)[i] = s[i]
  OBVIOUS
<1> DEFINE a == Append(s, c)
<1> HIDE DEF a
<1>2. \A i : i \in 1..(Len(s) + 1) <=> i \in 1..Len(s) \/ i = Len(s) + 1
  BY <1>1
<1>3. /\ a \in Seq(Conns) /\ DOMAIN a = 1..(Len(s) + 1)
      /\ a[Len(s) + 1] = c /\ \A i \in 1..Len(s) : a[i] = s[i]
  BY <1>1 DEF a
<1>4. ToSet(a) = ToSet(s) \cup {c}
  BY <1>1, <1>2, <1>3 DEF ToSet
<1>5. ASSUME IsInjective(s), c \notin ToSet(s) PROVE IsInjective(a)
  <2>1. \A i \in 1..Len(s) : s[i] # c
    BY <1>5, <1>1 DEF ToSet
  <2>2. \A i, j \in 1..Len(s) : s[i] = s[j] => i = j
    BY <1>5, <1>1 DEF IsInjective
  <2>3. \A i, j \in 1..(Len(s) + 1) : a[i] = a[j] => i = j
    BY <2>1, <2>2, <1>2, <1>3
  <2> QED
    BY <2>3, <1>3 DEF IsInjective
<1> QED
  BY <1>3, <1>4, <1>5 DEF a

\* A connection that attaches is subscribed, and published to if it was not.
LEMMA Attaches ==
  ASSUME NEW s \in States, NEW c \in Conns, IsInjective(s.subscribers),
         ToSet(s.subscribers) \subseteq s.subscriptions
  PROVE  LET a == Attached(s, c)
         IN  /\ a \in States /\ IsInjective(a.subscribers)
             /\ a.phase = s.phase /\ a.turn = s.turn /\ a.holds = s.holds
             /\ a.subscriptions = s.subscriptions \cup {c}
             /\ ToSet(a.subscribers) \subseteq a.subscriptions
             /\ ToSet(s.subscribers) \subseteq ToSet(a.subscribers)
             /\ c \notin s.subscriptions => c \in ToSet(a.subscribers)
<1>1. s.subscribers \in Seq(Conns) /\ s.subscriptions \subseteq Conns
  BY DEF States
<1>2. /\ Append(s.subscribers, c) \in Seq(Conns)
      /\ ToSet(Append(s.subscribers, c)) = ToSet(s.subscribers) \cup {c}
      /\ c \notin s.subscriptions => IsInjective(Append(s.subscribers, c))
  BY <1>1, Appended
<1>3. CASE c \in s.subscriptions
  BY <1>3 DEF Attached, States
<1>4. CASE c \notin s.subscriptions
  <2>1. Attached(s, c) = [s EXCEPT !.timer = FALSE, !.subscriptions = s.subscriptions \cup {c},
                                   !.subscribers = Append(s.subscribers, c)]
    BY <1>4 DEF Attached
  <2> QED
    BY <2>1, <1>1, <1>2, <1>4 DEF States
<1> QED
  BY <1>3, <1>4

\* One that leaves is neither subscribed nor published to.
LEMMA Detaches ==
  ASSUME NEW s \in States, NEW c \in Conns, IsInjective(s.subscribers),
         ToSet(s.subscribers) \subseteq s.subscriptions
  PROVE  LET a == Detached(s, c)
         IN  /\ a \in States /\ IsInjective(a.subscribers)
             /\ a.phase = s.phase /\ a.turn = s.turn /\ a.holds = s.holds
             /\ a.subscriptions = s.subscriptions \ {c}
             /\ ToSet(a.subscribers) = ToSet(s.subscribers) \ {c}
<1>1. s.subscribers \in Seq(Conns) /\ s.subscriptions \subseteq Conns
  BY DEF States
<1>2. /\ Kept(s.subscribers, Conns \ {c}) \in Seq(Conns)
      /\ ToSet(Kept(s.subscribers, Conns \ {c})) = ToSet(s.subscribers) \cap (Conns \ {c})
      /\ IsInjective(Kept(s.subscribers, Conns \ {c}))
  BY <1>1, KeptIs
<1>3. CASE c \notin s.subscriptions
  BY <1>3 DEF Detached
<1>4. CASE c \in s.subscriptions
  <2> DEFINE t == [s EXCEPT !.subscriptions = s.subscriptions \ {c},
                            !.subscribers = Kept(s.subscribers, Conns \ {c})]
  <2>1. Detached(s, c) = ScheduleUnload(t)
    BY <1>4 DEF Detached
  <2>2. /\ t \in States /\ t.phase = s.phase /\ t.turn = s.turn /\ t.holds = s.holds
        /\ t.subscriptions = s.subscriptions \ {c}
        /\ t.subscribers = Kept(s.subscribers, Conns \ {c})
    BY <1>1, <1>2 DEF States
  <2> HIDE DEF t
  <2>3. ToSet(t.subscribers) = ToSet(s.subscribers) \ {c}
    BY <1>1, <1>2, <2>2
  <2> QED
    BY <2>1, <2>2, <2>3, <1>2, Scheduled
<1> QED
  BY <1>3, <1>4

\* A dispatch asks a connection that is open, or nobody; nobody without a
\* failure means that every controller was tried before.
LEMMA Dispatches ==
  ASSUME NEW s \in States, NEW a \in Asks, NEW open \in SUBSET Conns
  PROVE  LET d == Dispatch(s, a, open)
         IN  /\ d \in Asks
             /\ d.conn # Nobody => d.conn \in open
             /\ d.conn # Nobody /\ ~d.failed => ~a.failed /\ d.tried \subseteq a.tried \cup {d.conn}
             /\ d.conn = Nobody /\ ~d.failed => /\ d = NotAsked
                                                /\ ToSet(s.subscribers) \cap Controllers \subseteq a.tried
             /\ d.conn = Nobody /\ a.failed => d.failed
<1> DEFINE cs   == Candidates(s, a.tried)
           live == {i \in DOMAIN cs : cs[i] \in open}
           d    == Dispatch(s, a, open)
<1>1. /\ cs \in Seq(Conns) /\ ToSet(cs) = ToSet(s.subscribers) \cap (Controllers \ a.tried)
      /\ a.tried \subseteq Conns /\ a.failed \in BOOLEAN /\ Nobody \notin Conns
  <2>1. s.subscribers \in Seq(Conns) /\ a.tried \subseteq Conns /\ a.failed \in BOOLEAN
    BY DEF States, Asks
  <2> QED
    BY <2>1, KeptIs, ControllersAssumption DEF Candidates
<1>2. Len(cs) \in Nat /\ DOMAIN cs = 1..Len(cs) /\ \A i \in DOMAIN cs : cs[i] \in Conns
  BY <1>1
<1>3. NotAsked \in Asks /\ NotAsked.conn = Nobody /\ NotAsked.failed = FALSE /\ NotAsked.tried = {}
  BY DEF NotAsked, Asks
<1>4. CASE live = {}
  <2>1. d = [NotAsked EXCEPT !.failed = a.failed \/ cs # <<>>]
    BY <1>4 DEF Dispatch
  <2> HIDE DEF d
  <2>2. d \in Asks /\ d.conn = Nobody /\ (d.failed <=> a.failed \/ cs # <<>>) /\ (~d.failed => d = NotAsked)
    BY <2>1, <1>1, <1>3 DEF NotAsked, Asks
  <2>3. cs = <<>> => ToSet(s.subscribers) \cap Controllers \subseteq a.tried
    <3>1. ToSet(<<>>) = {}
      BY DEF ToSet
    <3> QED
      BY <3>1, <1>1
  <2> HIDE DEF cs
  <2>4. /\ d \in Asks
        /\ d.conn # Nobody => d.conn \in open
        /\ d.conn # Nobody /\ ~d.failed => ~a.failed /\ d.tried \subseteq a.tried \cup {d.conn}
        /\ d.conn = Nobody /\ ~d.failed => /\ d = NotAsked
                                           /\ ToSet(s.subscribers) \cap Controllers \subseteq a.tried
        /\ d.conn = Nobody /\ a.failed => d.failed
    BY <2>2, <2>3
  <2> QED
    BY <2>4 DEF d
<1>5. CASE live # {}
  <2>1. live \in SUBSET Nat
    BY <1>2
  <2>2. \E i \in live : \A j \in live : i <= j
    <3> HIDE DEF live
    <3> QED
      BY <2>1, <1>5, LeastNat
  <2> DEFINE i == CHOOSE i \in live : \A j \in live : i <= j
  <2>3. i \in live
    <3> HIDE DEF live
    <3> QED
      BY <2>2
  <2>4. d = [conn |-> cs[i], tried |-> a.tried \cup {cs[j] : j \in 1..i}, failed |-> a.failed \/ i > 1]
    BY <1>5, Zenon DEF Dispatch
  <2> HIDE DEF i, d
  <2>5. i \in DOMAIN cs /\ cs[i] \in open /\ i \in Nat /\ i >= 1
    BY <2>3, <1>2
  <2>6. \A j \in 1..i : cs[j] \in Conns
    BY <2>5, <1>2
  <2> HIDE DEF cs, live
  <2>7. d \in Asks /\ d.conn = cs[i] /\ d.conn # Nobody
    BY <2>4, <2>5, <2>6, <1>1, <1>2 DEF Asks
  <2>8. ~d.failed => ~a.failed /\ d.tried \subseteq a.tried \cup {d.conn}
    <3>1. d.failed = (a.failed \/ i > 1) /\ d.tried = a.tried \cup {cs[j] : j \in 1..i}
      BY <2>4
    <3>2. ~d.failed => ~a.failed /\ i = 1
      <4>1. i > 1 \/ i = 1
        BY <2>5
      <4> QED
        BY <4>1, <3>1
    <3> QED
      BY <3>1, <3>2, <2>7
  <2>9. /\ d \in Asks
        /\ d.conn # Nobody => d.conn \in open
        /\ d.conn # Nobody /\ ~d.failed => ~a.failed /\ d.tried \subseteq a.tried \cup {d.conn}
        /\ d.conn = Nobody /\ ~d.failed => /\ d = NotAsked
                                           /\ ToSet(s.subscribers) \cap Controllers \subseteq a.tried
        /\ d.conn = Nobody /\ a.failed => d.failed
    BY <2>5, <2>7, <2>8
  <2> QED
    BY <2>9 DEF d
<1> QED
  BY <1>4, <1>5

\* A dispatch leaves the request pending or rejects it, and never revives it.
LEMMA DispatchedIs ==
  ASSUME NEW q \in Asked, NEW a \in Asks
  PROVE  LET d == Dispatched(q, a)
         IN  /\ d \in Asked /\ d.gen = q.gen
             /\ d.phase # "none" => q.phase # "none"
             /\ d.phase = "none" => q.phase = "none"
             /\ d.phase = "pending" => q.phase = "pending" /\ ~(a.conn = Nobody /\ a.failed)
             /\ d.ask = IF a.conn = Nobody /\ a.failed THEN NotAsked ELSE a
<1>1. NotAsked \in Asks
  BY DEF NotAsked, Asks
<1> QED
  BY <1>1 DEF Dispatched, Asked

\* What the type says of the parts of the variables.
LEMMA Shapes ==
  ASSUME Types
  PROVE  /\ DOMAIN states = Gens /\ DOMAIN call = Conns /\ DOMAIN conn = Conns
         /\ DOMAIN request = Requests /\ Nobody \notin Conns /\ MaxGen \in Nat
         /\ current \in Nat /\ lease \in Nat /\ (current # 0 => current \in Gens)
         /\ (lease # 0 => lease \in Gens) /\ 0 \notin Gens
         /\ \A g \in Gens : states[g] \in States /\ g \in Nat
         /\ \A c \in Conns : call[c] \in Handlers /\ (call[c].gen # 0 => call[c].gen \in Gens)
         /\ \A r \in Requests : request[r] \in Asked /\ request[r].ask \in Asks
         /\ Open \subseteq Conns
<1>1. MaxGen \in Nat /\ Nobody \notin Conns
  BY MaxGenAssumption, ControllersAssumption
<1>2. \A g : g \in 0..MaxGen /\ g # 0 => g \in Gens
  BY <1>1 DEF Gens
<1>3. \A r \in Requests : request[r] \in Asked /\ request[r].ask \in Asks
  BY DEF Types, Asked
<1>4. \A c \in Conns : call[c] \in Handlers /\ call[c].gen \in 0..MaxGen
  BY DEF Types, Handlers
<1>5. 0 \notin Gens /\ \A g \in Gens : g \in Nat
  BY <1>1 DEF Gens
<1> QED
  BY <1>1, <1>2, <1>3, <1>4, <1>5 DEF Types, Open

\* A generation with these fields, whatever its timer.
Record(t, phase, turn, holds, subscribers, subscriptions) ==
  /\ t \in States /\ t.phase = phase /\ t.turn = turn /\ t.holds = holds
  /\ t.subscribers = subscribers /\ t.subscriptions = subscriptions

\* The updates of the actions make these records.
LEMMA Records ==
  ASSUME NEW s \in States, NEW p \in {"none", "reading", "open", "closing", "closed"},
         NEW b \in BOOLEAN, NEW n \in Nat, NEW q \in Seq(Conns)
  PROVE  /\ Record([s EXCEPT !.phase = p], p, s.turn, s.holds, s.subscribers, s.subscriptions)
         /\ Record([s EXCEPT !.timer = b], s.phase, s.turn, s.holds, s.subscribers, s.subscriptions)
         /\ Record([s EXCEPT !.phase = p, !.timer = b], p, s.turn, s.holds, s.subscribers, s.subscriptions)
         /\ Record([s EXCEPT !.phase = p, !.turn = b, !.subscribers = q], p, b, s.holds, q, s.subscriptions)
         /\ Record([s EXCEPT !.subscribers = q], s.phase, s.turn, s.holds, q, s.subscriptions)
         /\ Record([s EXCEPT !.turn = b], s.phase, b, s.holds, s.subscribers, s.subscriptions)
         /\ Record([s EXCEPT !.timer = b, !.holds = n], s.phase, s.turn, n, s.subscribers, s.subscriptions)
         /\ Record([s EXCEPT !.holds = n, !.turn = b], s.phase, b, n, s.subscribers, s.subscriptions)
BY DEF Record, States

\* So does the state that register makes.
LEMMA FirstRecord ==
  ASSUME NEW c \in Conns
  PROVE  Record([NoState EXCEPT !.phase = "open", !.subscriptions = {c}, !.subscribers = <<c>>],
                "open", FALSE, 0, <<c>>, {c})
<1>1. <<c>> \in Seq(Conns) /\ <<>> \in Seq(Conns)
  OBVIOUS
<1> DEFINE q == <<c>>
<1> HIDE DEF q
<1>2. Record([NoState EXCEPT !.phase = "open", !.subscriptions = {c}, !.subscribers = q],
             "open", FALSE, 0, q, {c})
  BY <1>1 DEF q, Record, States, NoState
<1> QED
  BY <1>2 DEF q

\* The generation g gets these fields, and no other changes.
Becomes(g, phase, turn, holds, subscribers, subscriptions) ==
  \E s : /\ states' = [states EXCEPT ![g] = s]
         /\ Record(s, phase, turn, holds, subscribers, subscriptions)

\* What Becomes says of each generation.
LEMMA BecomesMeans ==
  ASSUME Types, NEW g \in Gens, NEW phase, NEW turn, NEW holds, NEW subscribers, NEW subscriptions,
         Becomes(g, phase, turn, holds, subscribers, subscriptions)
  PROVE  /\ states' \in [Gens -> States]
         /\ \A h \in Gens \ {g} : states'[h] = states[h]
         /\ states'[g].phase = phase /\ states'[g].turn = turn /\ states'[g].holds = holds
         /\ states'[g].subscribers = subscribers /\ states'[g].subscriptions = subscriptions
<1>1. states \in [Gens -> States]
  BY DEF Types
<1>2. PICK s : states' = [states EXCEPT ![g] = s] /\ Record(s, phase, turn, holds, subscribers, subscriptions)
  BY DEF Becomes
<1>3. s \in States
  BY <1>2 DEF Record
<1>4. states'[g] = s /\ states' \in [Gens -> States] /\ \A h \in Gens \ {g} : states'[h] = states[h]
  BY <1>1, <1>2, <1>3
<1> QED
  BY <1>2, <1>4 DEF Record

\* A timer that fires unloads what entries has, or changes a timer only.
LEMMA Timers ==
  ASSUME Types, NEW g \in Gens, TimerFires(g)
  PROVE  \/ /\ Becomes(g, states[g].phase, states[g].turn, states[g].holds, states[g].subscribers,
                       states[g].subscriptions)
            /\ UNCHANGED current
         \/ current # 0 /\ Unloads(current)
<1>1. states[g] \in States /\ DOMAIN states = Gens
  BY Shapes
<1> DEFINE s == [states[g] EXCEPT !.timer = FALSE]
<1>2. Record(s, states[g].phase, states[g].turn, states[g].holds, states[g].subscribers, states[g].subscriptions)
  <2>1. <<>> \in Seq(Conns)
    OBVIOUS
  <2> QED
    BY <1>1, <2>1, Records
<1>3. Record(ScheduleUnload(s), states[g].phase, states[g].turn, states[g].holds, states[g].subscribers,
             states[g].subscriptions)
  BY <1>2, Scheduled DEF Record
<1>4. \/ states' = [states EXCEPT ![g] = s] /\ UNCHANGED current
      \/ states' = [states EXCEPT ![g] = ScheduleUnload(s)] /\ UNCHANGED current
      \/ current # 0 /\ Unloads(current)
  BY <1>1 DEF TimerFires, Refused
<1> HIDE DEF s
<1> QED
  BY <1>2, <1>3, <1>4 DEF Becomes

\* What unloading makes of a generation.
LEMMA Unloading ==
  ASSUME Types, NEW g \in Gens,
         states' = [states EXCEPT ![g].phase = "closing", ![g].timer = FALSE]
  PROVE  Becomes(g, "closing", states[g].turn, states[g].holds, states[g].subscribers, states[g].subscriptions)
<1>1. states[g] \in States /\ DOMAIN states = Gens /\ <<>> \in Seq(Conns) /\ states[g].holds \in Nat
  BY Shapes DEF States
<1> DEFINE s == [states[g] EXCEPT !.phase = "closing", !.timer = FALSE]
<1>2. Record(s, "closing", states[g].turn, states[g].holds, states[g].subscribers, states[g].subscriptions)
  BY <1>1, Records
<1>3. states' = [states EXCEPT ![g] = s]
  BY <1>1
<1> HIDE DEF s
<1> QED
  BY <1>2, <1>3 DEF Becomes

\* What the close of a state makes of it.
LEMMA ClosingState ==
  ASSUME Types, NEW g \in Gens, StateClosed(g)
  PROVE  Becomes(g, "closed", FALSE, states[g].holds, <<>>, states[g].subscriptions)
<1>1. states[g] \in States /\ DOMAIN states = Gens /\ <<>> \in Seq(Conns) /\ states[g].holds \in Nat
  BY Shapes DEF States
<1> DEFINE s == [states[g] EXCEPT !.phase = "closed", !.turn = FALSE, !.subscribers = <<>>]
<1>2. Record(s, "closed", FALSE, states[g].holds, <<>>, states[g].subscriptions)
  BY <1>1, Records
<1>3. states' = [states EXCEPT ![g] = s]
  BY <1>1 DEF StateClosed
<1> HIDE DEF s
<1> QED
  BY <1>2, <1>3 DEF Becomes

\* What a record that is published makes of it.
LEMMA Publishing ==
  ASSUME Types, NEW g \in Gens, Publish(g)
  PROVE  Becomes(g, states[g].phase, states[g].turn, states[g].holds,
                 Kept(states[g].subscribers, Open), states[g].subscriptions)
<1>1. states[g] \in States /\ DOMAIN states = Gens /\ states[g].holds \in Nat
      /\ states[g].subscribers \in Seq(Conns)
  BY Shapes DEF States
<1> DEFINE q == Kept(states[g].subscribers, Open)
           s == [states[g] EXCEPT !.subscribers = q]
<1>2. states' = [states EXCEPT ![g] = s]
  BY <1>1 DEF Publish, Open
<1>3. q \in Seq(Conns)
  BY <1>1, KeptIs
<1> HIDE DEF q
<1>4. Record(s, states[g].phase, states[g].turn, states[g].holds, q, states[g].subscriptions)
  BY <1>1, <1>3, Records
<1> HIDE DEF s
<1>5. Becomes(g, states[g].phase, states[g].turn, states[g].holds, q, states[g].subscriptions)
  BY <1>2, <1>4 DEF Becomes
<1> QED
  BY <1>5 DEF q

\* What the end of a turn makes of it.
LEMMA EndingTurn ==
  ASSUME Types, NEW g \in Gens, TurnEnds(g)
  PROVE  Becomes(g, states[g].phase, FALSE, states[g].holds, states[g].subscribers, states[g].subscriptions)
<1>1. states[g] \in States /\ DOMAIN states = Gens /\ <<>> \in Seq(Conns) /\ states[g].holds \in Nat
  BY Shapes DEF States
<1> DEFINE s == [states[g] EXCEPT !.turn = FALSE]
<1>2. Record(s, states[g].phase, FALSE, states[g].holds, states[g].subscribers, states[g].subscriptions)
  BY <1>1, Records
<1>3. states' = [states EXCEPT ![g] = s]
  BY <1>1 DEF TurnEnds
<1> HIDE DEF s
<1> QED
  BY <1>2, <1>3 DEF Becomes

\* What starting or failing to read it makes of it.
LEMMA Loading ==
  ASSUME Types, NEW g \in Gens, NEW p \in {"reading", "closed"}, states' = [states EXCEPT ![g].phase = p]
  PROVE  Becomes(g, p, states[g].turn, states[g].holds, states[g].subscribers, states[g].subscriptions)
<1>1. states[g] \in States /\ DOMAIN states = Gens /\ <<>> \in Seq(Conns) /\ states[g].holds \in Nat
  BY Shapes DEF States
<1> DEFINE s == [states[g] EXCEPT !.phase = p]
<1>2. Record(s, p, states[g].turn, states[g].holds, states[g].subscribers, states[g].subscriptions)
  BY <1>1, Records
<1>3. states' = [states EXCEPT ![g] = s]
  BY <1>1
<1> HIDE DEF s
<1> QED
  BY <1>2, <1>3 DEF Becomes

\* What the end of its load makes of it.
LEMMA LoadEnds ==
  ASSUME Types, lease \in Gens, LoadReturns
  PROVE  Becomes(lease, "open", states[lease].turn, states[lease].holds, states[lease].subscribers,
                 states[lease].subscriptions)
<1>1. states[lease] \in States /\ DOMAIN states = Gens /\ <<>> \in Seq(Conns) /\ states[lease].holds \in Nat
  BY Shapes DEF States
<1> DEFINE s == [states[lease] EXCEPT !.phase = "open"]
<1>2. Record(s, "open", states[lease].turn, states[lease].holds, states[lease].subscribers, states[lease].subscriptions)
  BY <1>1, Records
<1>3. Record(ScheduleUnload(s), "open", states[lease].turn, states[lease].holds, states[lease].subscribers,
             states[lease].subscriptions)
  BY <1>2, Scheduled DEF Record
<1>4. states' = [states EXCEPT ![lease] = ScheduleUnload(s)]
  BY <1>1 DEF LoadReturns
<1> HIDE DEF s
<1> QED
  BY <1>3, <1>4 DEF Becomes

\* What a subscription makes of it.
LEMMA Subscribing ==
  ASSUME Types, NEW c \in Conns, NEW g \in Gens, Subscribe(c, g),
         ToSet(states[g].subscribers) \subseteq states[g].subscriptions
  PROVE  \E q \in Seq(Conns) :
           /\ Becomes(g, states[g].phase, states[g].turn, states[g].holds, q, states[g].subscriptions \cup {c})
           /\ IsInjective(q) /\ ToSet(states[g].subscribers) \subseteq ToSet(q)
           /\ ToSet(q) \subseteq states[g].subscriptions \cup {c}
           /\ c \notin states[g].subscriptions => c \in ToSet(q)
           /\ q = Attached(states[g], c).subscribers
<1>1. states[g] \in States /\ IsInjective(states[g].subscribers)
  BY Shapes DEF Types
<1> DEFINE a == Attached(states[g], c)
<1>2. /\ a \in States /\ IsInjective(a.subscribers)
      /\ a.phase = states[g].phase /\ a.turn = states[g].turn /\ a.holds = states[g].holds
      /\ a.subscriptions = states[g].subscriptions \cup {c}
      /\ ToSet(a.subscribers) \subseteq a.subscriptions
      /\ ToSet(states[g].subscribers) \subseteq ToSet(a.subscribers)
      /\ c \notin states[g].subscriptions => c \in ToSet(a.subscribers)
  BY <1>1, Attaches
<1>3. states' = [states EXCEPT ![g] = ScheduleUnload(a)]
  BY DEF Subscribe
<1> HIDE DEF a
<1>4. Record(ScheduleUnload(a), states[g].phase, states[g].turn, states[g].holds, a.subscribers,
             states[g].subscriptions \cup {c})
  BY <1>2, Scheduled DEF Record
<1>5. Becomes(g, states[g].phase, states[g].turn, states[g].holds, a.subscribers, states[g].subscriptions \cup {c})
  BY <1>3, <1>4 DEF Becomes
<1>6. a.subscribers \in Seq(Conns)
  BY <1>2 DEF States
<1> QED
  BY <1>2, <1>5, <1>6 DEF a

\* What an operation that begins makes of it.
LEMMA Holding ==
  ASSUME Types, NEW c \in Conns, call[c].gen \in Gens, Holds(c)
  PROVE  LET g == call[c].gen
         IN  Becomes(g, states[g].phase, states[g].turn, states[g].holds + 1, states[g].subscribers,
                     states[g].subscriptions)
<1> DEFINE g == call[c].gen
           n == states[g].holds + 1
           s == [states[g] EXCEPT !.timer = FALSE, !.holds = n]
<1>1. states[g] \in States /\ DOMAIN states = Gens /\ <<>> \in Seq(Conns) /\ n \in Nat
  BY Shapes DEF States
<1>2. states' = [states EXCEPT ![g] = s]
  BY <1>1 DEF Holds
<1> HIDE DEF n, g
<1>3. Record(s, states[g].phase, states[g].turn, n, states[g].subscribers, states[g].subscriptions)
  BY <1>1, Records
<1> HIDE DEF s
<1>4. Becomes(g, states[g].phase, states[g].turn, n, states[g].subscribers, states[g].subscriptions)
  BY <1>2, <1>3 DEF Becomes
<1> QED
  BY <1>4 DEF n, g

\* What an operation that ends makes of it.
LEMMA EndingOperation ==
  ASSUME Types, NEW c \in Conns, call[c].gen \in Gens, OperationEnds(c),
         states[call[c].gen].holds - 1 \in Nat
  PROVE  LET g == call[c].gen
         IN  \E b \in BOOLEAN :
               /\ Becomes(g, states[g].phase, b, states[g].holds - 1, states[g].subscribers,
                          states[g].subscriptions)
               /\ b => states[g].turn \/ states[g].phase = "open"
<1> DEFINE g == call[c].gen
           n == states[g].holds - 1
           t(b) == states[g].turn \/ b
           s(b) == [states[g] EXCEPT !.holds = n, !.turn = t(b)]
<1>1. states[g] \in States /\ DOMAIN states = Gens /\ <<>> \in Seq(Conns) /\ n \in Nat
      /\ states[g].turn \in BOOLEAN
  BY Shapes DEF States
<1>2. PICK b \in {FALSE, states[g].phase = "open"} :
        states' = [states EXCEPT ![g] = ScheduleUnload([states[g] EXCEPT !.holds = states[g].holds - 1,
                                                                        !.turn = states[g].turn \/ b])]
  BY Zenon DEF OperationEnds
<1>3. states' = [states EXCEPT ![g] = ScheduleUnload(s(b))]
  BY <1>2, Zenon
<1>4. t(b) \in BOOLEAN /\ (t(b) => states[g].turn \/ states[g].phase = "open")
  BY <1>1
<1> DEFINE u == t(b)
<1> HIDE DEF t, n, g
<1>5. Record(s(b), states[g].phase, u, n, states[g].subscribers, states[g].subscriptions)
  BY <1>1, <1>4, Records
<1> HIDE DEF s, u
<1>6. Record(ScheduleUnload(s(b)), states[g].phase, u, n, states[g].subscribers, states[g].subscriptions)
  BY <1>5, Scheduled DEF Record
<1>7. Becomes(g, states[g].phase, u, n, states[g].subscribers, states[g].subscriptions)
  BY <1>3, <1>6 DEF Becomes
<1>8. u \in BOOLEAN /\ (u => states[g].turn \/ states[g].phase = "open")
  BY <1>4 DEF u
<1> QED
  BY <1>7, <1>8 DEF n, g

\* What register makes of it.
LEMMA Registering ==
  ASSUME Types, NEW c \in Conns, Registered(c)
  PROVE  Becomes(1, "open", FALSE, 0, <<c>>, {c})
BY FirstRecord DEF Registered, Becomes

\* What a connection that leaves makes of it.
LEMMA Leaving ==
  ASSUME Types, NEW c \in Conns, NEW g \in Gens, states' = [states EXCEPT ![g] = Detached(@, c)],
         ToSet(states[g].subscribers) \subseteq states[g].subscriptions
  PROVE  \E q \in Seq(Conns) :
           /\ Becomes(g, states[g].phase, states[g].turn, states[g].holds, q, states[g].subscriptions \ {c})
           /\ IsInjective(q) /\ ToSet(q) = ToSet(states[g].subscribers) \ {c}
<1>1. states[g] \in States /\ IsInjective(states[g].subscribers) /\ DOMAIN states = Gens
  BY Shapes DEF Types
<1> DEFINE a == Detached(states[g], c)
<1>2. /\ a \in States /\ IsInjective(a.subscribers)
      /\ a.phase = states[g].phase /\ a.turn = states[g].turn /\ a.holds = states[g].holds
      /\ a.subscriptions = states[g].subscriptions \ {c}
      /\ ToSet(a.subscribers) = ToSet(states[g].subscribers) \ {c}
  BY <1>1, Detaches
<1>3. states' = [states EXCEPT ![g] = a]
  BY <1>1
<1> HIDE DEF a
<1>4. Becomes(g, states[g].phase, states[g].turn, states[g].holds, a.subscribers, states[g].subscriptions \ {c})
  BY <1>2, <1>3 DEF Becomes, Record
<1>5. a.subscribers \in Seq(Conns)
  BY <1>2 DEF States
<1> QED
  BY <1>2, <1>4, <1>5

\* The steps that change a generation or the entry.
LEMMA Actions ==
  ASSUME Next
  PROVE  \/ UNCHANGED <<states, current>>
         \/ \E g \in Gens : TimerFires(g) \/ StateClosed(g) \/ TurnEnds(g) \/ Publish(g)
         \/ \E c \in Conns : \/ Archive(c) \/ Resumed(c) \/ Holds(c) \/ OperationEnds(c) \/ Registered(c)
                             \/ Release(c) \/ Start(c) \/ Unsubscribe(c)
         \/ LoadAcquires \/ LoadFails \/ LoadReturns \/ PoolClose
<1>1. ASSUME NEW c \in Conns, Resume(c) \/ Operate(c) \/ Close(c) PROVE UNCHANGED <<states, current>>
  BY <1>1 DEF Resume, Operate, Close
<1>2. ASSUME NEW r \in Requests, Answer(r) \/ Cancel(r) \/ \E g \in Gens : Create(g, r)
      PROVE  UNCHANGED <<states, current>>
  BY <1>2 DEF Answer, Cancel, Create
<1>3. ASSUME NEW g \in Gens, StateSticks(g) PROVE UNCHANGED <<states, current>>
  BY <1>3 DEF StateSticks
<1> QED
  BY <1>1, <1>2, <1>3 DEF Next, Work

\* The generations keep their type, and nobody is published to twice.
LEMMA StatesStep ==
  ASSUME IInv, Next
  PROVE  states' \in [Gens -> States] /\ \A g \in Gens : IsInjective(states'[g].subscribers)
<1>1. /\ Types /\ DOMAIN states = Gens /\ (current # 0 => current \in Gens)
      /\ (lease # 0 => lease \in Gens) /\ \A g \in Gens : states[g] \in States
      /\ \A c \in Conns : call[c].gen # 0 => call[c].gen \in Gens
  BY Shapes DEF IInv
<1>2. states \in [Gens -> States] /\ \A g \in Gens : IsInjective(states[g].subscribers)
  BY <1>1 DEF Types
<1>3. \A g \in Gens : ToSet(states[g].subscribers) \subseteq states[g].subscriptions
  BY DEF IInv, SubscribedOK
<1>4. ASSUME NEW g \in Gens, NEW phase, NEW turn, NEW holds, NEW subscribers, NEW subscriptions,
             Becomes(g, phase, turn, holds, subscribers, subscriptions), IsInjective(subscribers)
      PROVE  states' \in [Gens -> States] /\ \A h \in Gens : IsInjective(states'[h].subscribers)
  <2>1. /\ states' \in [Gens -> States] /\ states'[g].subscribers = subscribers
        /\ \A h \in Gens \ {g} : states'[h] = states[h]
    BY <1>1, <1>4, BecomesMeans
  <2> QED
    BY <2>1, <1>2, <1>4
<1>5. IsInjective(<<>>) /\ \A c : IsInjective(<<c>>)
  BY DEF IsInjective
<1>6. ASSUME NEW g \in Gens, states' = [states EXCEPT ![g].phase = "closing", ![g].timer = FALSE]
      PROVE  states' \in [Gens -> States] /\ \A h \in Gens : IsInjective(states'[h].subscribers)
  BY <1>1, <1>2, <1>4, <1>6, Unloading
<1>7. ASSUME NEW g \in Gens, TimerFires(g) \/ StateClosed(g) \/ TurnEnds(g) \/ Publish(g)
      PROVE  states' \in [Gens -> States] /\ \A h \in Gens : IsInjective(states'[h].subscribers)
  <2>1. CASE TimerFires(g)
    <3>1. CASE current # 0 /\ Unloads(current)
      BY <3>1, <1>1, <1>6 DEF Unloads
    <3> QED
      BY <2>1, <3>1, <1>1, <1>2, <1>4, Timers
  <2>2. CASE StateClosed(g)
    BY <2>2, <1>1, <1>4, <1>5, ClosingState
  <2>3. CASE TurnEnds(g)
    BY <2>3, <1>1, <1>2, <1>4, EndingTurn
  <2>4. CASE Publish(g)
    <3>1. IsInjective(Kept(states[g].subscribers, Open))
      BY <1>1, <1>2, KeptIs DEF States
    <3> QED
      BY <2>4, <3>1, <1>1, <1>4, Publishing
  <2> QED
    BY <1>7, <2>1, <2>2, <2>3, <2>4
<1>8. ASSUME NEW c \in Conns, Archive(c) \/ Resumed(c) \/ Holds(c) \/ OperationEnds(c) \/ Registered(c)
      PROVE  states' \in [Gens -> States] /\ \A h \in Gens : IsInjective(states'[h].subscribers)
  <2>1. CASE Archive(c)
    BY <2>1, <1>1, <1>6 DEF Archive, Unloads
  <2>2. CASE Resumed(c)
    <3>1. call[c].gen \in Gens
      BY <2>2, <1>1 DEF Resumed, Calls, IInv, CallOK
    <3>2. Subscribe(c, call[c].gen)
      BY <2>2 DEF Resumed
    <3> QED
      <4> DEFINE g == call[c].gen
      <4>1. PICK q \in Seq(Conns) :
              /\ Becomes(g, states[g].phase, states[g].turn, states[g].holds, q, states[g].subscriptions \cup {c})
              /\ IsInjective(q)
        BY <3>1, <3>2, <1>1, <1>3, Subscribing
      <4> HIDE DEF g
      <4>2. g \in Gens
        BY <3>1 DEF g
      <4> QED
        BY <4>1, <4>2, <1>4
  <2>3. CASE Holds(c)
    <3>1. call[c].gen \in Gens
      BY <2>3, <1>1 DEF Holds, Calls, IInv, CallOK
    <3> QED
      BY <2>3, <3>1, <1>1, <1>2, <1>4, Holding
  <2>4. CASE OperationEnds(c)
    <3>1. call[c].gen \in Gens
      BY <2>4 DEF OperationEnds, IInv, CallOK
    <3>2. states[call[c].gen].holds - 1 \in Nat
      <4>1. states[call[c].gen].holds = Cardinality(Holders(call[c].gen)) /\ states[call[c].gen].holds \in Nat
        BY <3>1, <1>1 DEF IInv, StateOK, States
      <4>2. c \in Holders(call[c].gen) /\ IsFiniteSet(Holders(call[c].gen))
        BY <2>4, ConnsAssumption, FS_Subset DEF Holders, OperationEnds
      <4>3. states[call[c].gen].holds # 0
        BY <4>1, <4>2, FS_EmptySet
      <4> QED
        BY <4>1, <4>3
    <3> QED
      BY <2>4, <3>1, <3>2, <1>1, <1>2, <1>4, EndingOperation
  <2>5. CASE Registered(c)
    <3>1. 1 \in Gens
      BY <2>5 DEF Registered, IInv, CallOK
    <3> QED
      BY <2>5, <3>1, <1>1, <1>4, <1>5, Registering
  <2> QED
    BY <1>8, <2>1, <2>2, <2>3, <2>4, <2>5
<1>9. ASSUME NEW c \in Conns, Release(c) \/ Unsubscribe(c)
      PROVE  states' \in [Gens -> States] /\ \A h \in Gens : IsInjective(states'[h].subscribers)
  <2>1. states' = states \/ (current # 0 /\ states' = [states EXCEPT ![current] = Detached(@, c)])
    <3>1. CASE Release(c)
      <4> DEFINE X == [states EXCEPT ![current] = Detached(@, c)]
      <4>1. states' = IF current = 0 THEN states ELSE X
        BY <3>1 DEF Release
      <4> HIDE DEF X
      <4>2. states' = states \/ (current # 0 /\ states' = X)
        BY <4>1
      <4> QED
        BY <4>2 DEF X
    <3>2. CASE Unsubscribe(c)
      BY <3>2 DEF Unsubscribe
    <3> QED
      BY <1>9, <3>1, <3>2
  <2> QED
    BY <2>1, <1>1, <1>2, <1>3, <1>4, Leaving
<1>10. ASSUME NEW c \in Conns, Start(c)
       PROVE  states' \in [Gens -> States] /\ \A h \in Gens : IsInjective(states'[h].subscribers)
  <2>1. 1 \in Gens /\ states' = [states EXCEPT ![1].phase = "reading"]
    BY <1>10 DEF Start
  <2> QED
    BY <2>1, <1>1, <1>2, <1>4, Loading
<1>11. ASSUME LoadAcquires \/ LoadFails \/ LoadReturns \/ PoolClose
       PROVE  states' \in [Gens -> States] /\ \A h \in Gens : IsInjective(states'[h].subscribers)
  <2>1. CASE LoadAcquires
    <3>1. PICK g \in Gens : states' = [states EXCEPT ![g].phase = "reading"]
      BY <2>1 DEF LoadAcquires
    <3> QED
      BY <3>1, <1>1, <1>2, <1>4, Loading
  <2>2. CASE LoadFails
    <3>1. states' = states \/ (lease \in Gens /\ states' = [states EXCEPT ![lease].phase = "closed"])
      <4>1. loading = "reads" => lease \in Gens
        BY <1>1 DEF IInv, PhasesOK
      <4> DEFINE X == [states EXCEPT ![lease].phase = "closed"]
      <4>2. states' = states \/ (loading = "reads" /\ states' = X)
        BY <2>2 DEF LoadFails
      <4> HIDE DEF X
      <4>3. states' = states \/ (lease \in Gens /\ states' = X)
        BY <4>1, <4>2
      <4> QED
        BY <4>3 DEF X
    <3> QED
      BY <3>1, <1>1, <1>2, <1>4, Loading
  <2>3. CASE LoadReturns
    <3>1. lease \in Gens
      BY <2>3, <1>1 DEF LoadReturns, IInv, PhasesOK
    <3> QED
      BY <2>3, <3>1, <1>1, <1>2, <1>4, LoadEnds
  <2>4. CASE PoolClose
    <3>1. states' = states \/ (current # 0 /\ states' = [states EXCEPT ![current].phase = "closing", ![current].timer = FALSE])
      <4> DEFINE X == [states EXCEPT ![current].phase = "closing", ![current].timer = FALSE]
      <4>1. states' = IF current = 0 THEN states ELSE X
        BY <2>4 DEF PoolClose
      <4> HIDE DEF X
      <4>2. states' = states \/ (current # 0 /\ states' = X)
        BY <4>1
      <4> QED
        BY <4>2 DEF X
    <3> QED
      BY <3>1, <1>1, <1>2, <1>6
  <2> QED
    BY <1>11, <2>1, <2>2, <2>3, <2>4
<1>12. CASE UNCHANGED states
  BY <1>12, <1>2
<1> QED
  BY <1>7, <1>8, <1>9, <1>10, <1>11, <1>12, Actions

\* A request that is dispatched is asked of whom it should be.
LEMMA DispatchKeeps ==
  ASSUME NEW q \in Asked, q.phase # "none", q.gen \in Gens,
         NEW s \in States, NEW a \in Asks, NEW open \in SUBSET Conns,
         ~a.failed => \A c \in a.tried : c \notin open
  PROVE  LET d == Dispatched(q, Dispatch(s, a, open))
         IN  d \in Asked /\ d.gen = q.gen /\ AskOK(d, open) /\ WaitOK(d, open, ToSet(s.subscribers))
<1> DEFINE b == Dispatch(s, a, open)
           d == Dispatched(q, b)
<1>1. /\ b \in Asks
      /\ b.conn # Nobody => b.conn \in open
      /\ b.conn # Nobody /\ ~b.failed => ~a.failed /\ b.tried \subseteq a.tried \cup {b.conn}
      /\ b.conn = Nobody /\ ~b.failed => /\ b = NotAsked
                                         /\ ToSet(s.subscribers) \cap Controllers \subseteq a.tried
      /\ b.conn = Nobody /\ a.failed => b.failed
  BY Dispatches
<1> HIDE DEF b
<1>2. /\ d \in Asked /\ d.gen = q.gen /\ d.phase # "none"
      /\ d.phase = "pending" => ~(b.conn = Nobody /\ b.failed)
      /\ d.ask = IF b.conn = Nobody /\ b.failed THEN NotAsked ELSE b
  BY <1>1, DispatchedIs
<1> HIDE DEF d
<1>3. NotAsked.conn = Nobody /\ NotAsked.tried = {}
  BY DEF NotAsked
<1>4. AskOK(d, open)
  <2>1. CASE b.conn = Nobody
    <3>1. d.ask = NotAsked
      BY <2>1, <1>1, <1>2
    <3> QED
      BY <3>1, <1>2, <1>3 DEF AskOK
  <2>2. CASE b.conn # Nobody
    BY <2>2, <1>1, <1>2 DEF AskOK
  <2> QED
    BY <2>1, <2>2
<1>5. WaitOK(d, open, ToSet(s.subscribers))
  <2> SUFFICES ASSUME d.phase = "pending", d.ask.conn = Nobody
               PROVE  Controllers \cap open \cap ToSet(s.subscribers) = {}
    BY DEF WaitOK
  <2>1. b.conn = Nobody /\ ~b.failed
    BY <1>2
  <2>2. ToSet(s.subscribers) \cap Controllers \subseteq a.tried /\ ~a.failed
    BY <2>1, <1>1
  <2> QED
    BY <2>2
<1> QED
  BY <1>2, <1>4, <1>5 DEF d, b

\* A request that is asked of somebody has been created.
LEMMA AskedFacts ==
  ASSUME IInv, NEW r \in Requests
  PROVE  /\ request[r] \in Asked /\ request[r].ask \in Asks
         /\ request[r].ask.conn \in Conns => /\ request[r].phase # "none" /\ request[r].gen \in Gens
                                             /\ states[request[r].gen] \in States
         /\ request[r].phase = "none" => request[r].ask = NotAsked
<1>1. /\ request[r] \in Asked /\ request[r].ask \in Asks /\ Nobody \notin Conns
      /\ \A g \in Gens : states[g] \in States
  BY Shapes DEF IInv
<1>2. AskOK(request[r], Open) /\ NotAsked.conn = Nobody
  BY DEF IInv, RequestOK, NotAsked
<1> QED
  BY <1>1, <1>2 DEF AskOK

\* What a handler that goes on has in hand.
LEMMA Quietly ==
  ASSUME IInv, NEW c \in Conns
  PROVE  /\ Resumed(c) \/ Holds(c) => call[c].gen \in Gens /\ call[c].gen = current
         /\ OperationEnds(c) => call[c].gen \in Gens /\ states[call[c].gen].holds - 1 \in Nat
         /\ Registered(c) => /\ 1 \in Gens /\ lease = 1 /\ states[1].phase = "reading" /\ current = 0
                             /\ loading # "reads"
<1>1. /\ Types /\ (current # 0 => current \in Gens)
      /\ \A d \in Conns : call[d].gen # 0 => call[d].gen \in Gens
      /\ \A g \in Gens : states[g] \in States
  BY Shapes DEF IInv
<1>2. CallOK(c) /\ PhasesOK
  BY DEF IInv
<1>3. Resumed(c) \/ Holds(c) => call[c].gen \in Gens /\ call[c].gen = current
  BY <1>1, <1>2 DEF CallOK, Resumed, Holds, Calls
<1>4. ASSUME OperationEnds(c) PROVE call[c].gen \in Gens /\ states[call[c].gen].holds - 1 \in Nat
  <2>1. call[c].gen \in Gens
    BY <1>2, <1>4 DEF CallOK, OperationEnds
  <2>2. states[call[c].gen].holds = Cardinality(Holders(call[c].gen)) /\ states[call[c].gen].holds \in Nat
    BY <2>1, <1>1 DEF IInv, StateOK, States
  <2>3. c \in Holders(call[c].gen) /\ IsFiniteSet(Holders(call[c].gen))
    BY <1>4, ConnsAssumption, FS_Subset DEF Holders, OperationEnds
  <2>4. states[call[c].gen].holds # 0
    BY <2>2, <2>3, FS_EmptySet
  <2> QED
    BY <2>1, <2>2, <2>4
<1>5. ASSUME Registered(c)
      PROVE  /\ 1 \in Gens /\ lease = 1 /\ states[1].phase = "reading" /\ current = 0
             /\ loading # "reads"
  <2>1. 1 \in Gens /\ lease = 1 /\ states[1].phase = "reading" /\ loading # "reads"
    BY <1>2, <1>5 DEF CallOK, Registered
  <2>2. current # 0 => states[current].phase = "open" /\ current = lease
    BY <1>1, <1>2 DEF PhasesOK
  <2> QED
    BY <2>1, <2>2
<1> QED
  BY <1>3, <1>4, <1>5

\* Where the requests are left alone, no connection becomes subscribed to the
\* thread that they belong to.
LEMMA SubscriptionsKeep ==
  ASSUME IInv, Next, UNCHANGED request
  PROVE  \/ /\ current' = current
            /\ current # 0 => states'[current].subscriptions \subseteq states[current].subscriptions
         \/ current' = 0
         \/ current' \in Gens /\ Pending(current') = {}
         \/ \E c \in Conns : Resumed(c)
<1>1. /\ Types /\ (current # 0 => current \in Gens)
      /\ (lease # 0 => lease \in Gens) /\ \A g \in Gens : states[g] \in States
  BY Shapes DEF IInv
<1>2. \A g \in Gens : /\ ToSet(states[g].subscribers) \subseteq states[g].subscriptions
                      /\ states[g].phase \in {"none", "reading"} => Pending(g) = {}
  BY DEF IInv, SubscribedOK, StateOK
<1>3. ASSUME NEW g \in Gens, NEW phase, NEW turn, NEW holds, NEW subscribers,
             NEW subscriptions \in SUBSET states[g].subscriptions,
             Becomes(g, phase, turn, holds, subscribers, subscriptions), current' = current
      PROVE  /\ current' = current
             /\ current # 0 => states'[current].subscriptions \subseteq states[current].subscriptions
  <2>1. states'[g].subscriptions = subscriptions /\ \A h \in Gens \ {g} : states'[h] = states[h]
    BY <1>1, <1>3, BecomesMeans
  <2> QED
    BY <2>1, <1>1, <1>3
<1>4. ASSUME NEW g \in Gens, TimerFires(g)
      PROVE  \/ /\ current' = current
                /\ current # 0 => states'[current].subscriptions \subseteq states[current].subscriptions
             \/ current' = 0
  BY <1>1, <1>3, <1>4, Timers DEF Unloads
<1>5. ASSUME NEW g \in Gens, StateClosed(g) \/ TurnEnds(g) \/ Publish(g)
      PROVE  /\ current' = current
             /\ current # 0 => states'[current].subscriptions \subseteq states[current].subscriptions
  <2>1. current' = current
    BY <1>5 DEF StateClosed, TurnEnds, Publish
  <2> QED
    BY <2>1, <1>1, <1>3, <1>5, ClosingState, EndingTurn, Publishing
<1>6. ASSUME NEW c \in Conns, Holds(c) \/ OperationEnds(c)
      PROVE  /\ current' = current
             /\ current # 0 => states'[current].subscriptions \subseteq states[current].subscriptions
  <2>1. current' = current
    BY <1>6 DEF Holds, OperationEnds
  <2>2. call[c].gen \in Gens /\ (OperationEnds(c) => states[call[c].gen].holds - 1 \in Nat)
    BY <1>6, Quietly
  <2>3. CASE Holds(c)
    BY <2>1, <2>2, <2>3, <1>1, <1>3, Holding
  <2>4. CASE OperationEnds(c)
    BY <2>1, <2>2, <2>4, <1>1, <1>3, EndingOperation
  <2> QED
    BY <1>6, <2>3, <2>4
<1>7. ASSUME NEW c \in Conns, Release(c) \/ Unsubscribe(c)
      PROVE  /\ current' = current
             /\ current # 0 => states'[current].subscriptions \subseteq states[current].subscriptions
  <2>1. current' = current
    BY <1>7 DEF Release, Unsubscribe
  <2>2. current # 0 => states' = [states EXCEPT ![current] = Detached(@, c)]
    <3>1. CASE Release(c)
      BY <3>1 DEF Release
    <3>2. CASE Unsubscribe(c)
      BY <3>2 DEF Unsubscribe
    <3> QED
      BY <1>7, <3>1, <3>2
  <2>3. ASSUME current # 0 PROVE states'[current].subscriptions \subseteq states[current].subscriptions
    <3>1. PICK q \in Seq(Conns) : Becomes(current, states[current].phase, states[current].turn, states[current].holds, q,
                                          states[current].subscriptions \ {c})
      BY <2>2, <2>3, <1>1, <1>2, Leaving
    <3> QED
      BY <3>1, <2>1, <2>3, <1>1, <1>3
  <2> QED
    BY <2>1, <2>3
<1>8. ASSUME NEW c \in Conns, Archive(c) \/ Registered(c)
      PROVE  current' = 0 \/ (current' \in Gens /\ Pending(current') = {})
  <2>1. CASE Archive(c)
    BY <2>1 DEF Archive, Unloads
  <2>2. CASE Registered(c)
    <3>1. 1 \in Gens /\ states[1].phase = "reading"
      BY <2>2, Quietly
    <3> QED
      BY <3>1, <2>2, <1>2 DEF Registered
  <2> QED
    BY <1>8, <2>1, <2>2
<1>9. ASSUME NEW g \in Gens, NEW p \in {"reading", "closed"}, states' = [states EXCEPT ![g].phase = p], current' = current
      PROVE  /\ current' = current
             /\ current # 0 => states'[current].subscriptions \subseteq states[current].subscriptions
  BY <1>9, <1>1, <1>3, Loading
<1>10. ASSUME NEW c \in Conns, Start(c)
       PROVE  /\ current' = current
              /\ current # 0 => states'[current].subscriptions \subseteq states[current].subscriptions
  BY <1>9, <1>10 DEF Start
<1>11. ASSUME LoadAcquires
       PROVE  /\ current' = current
              /\ current # 0 => states'[current].subscriptions \subseteq states[current].subscriptions
  BY <1>9, <1>11 DEF LoadAcquires
<1>12. ASSUME LoadFails
       PROVE  /\ current' = current
              /\ current # 0 => states'[current].subscriptions \subseteq states[current].subscriptions
  <2>1. loading = "reads" => lease \in Gens
    BY <1>1 DEF IInv, PhasesOK
  <2>2. CASE loading = "reads"
    BY <2>1, <2>2, <1>9, <1>12 DEF LoadFails
  <2>3. CASE loading # "reads"
    BY <2>3, <1>12 DEF LoadFails
  <2> QED
    BY <2>2, <2>3
<1>13. ASSUME LoadReturns
       PROVE  current' \in Gens /\ Pending(current') = {}
  <2>1. lease \in Gens /\ states[lease].phase = "reading" /\ current' = lease
    BY <1>13, <1>1 DEF LoadReturns, IInv, PhasesOK
  <2> QED
    BY <2>1, <1>2
<1>14. PoolClose => current' = 0
  BY DEF PoolClose
<1>15. UNCHANGED <<states, current>> =>
         /\ current' = current
         /\ current # 0 => states'[current].subscriptions \subseteq states[current].subscriptions
  OBVIOUS
<1> QED
  BY <1>4, <1>5, <1>6, <1>7, <1>8, <1>10, <1>11, <1>12, <1>13, <1>14, <1>15, Actions

\* Among open connections, those published to are those subscribed.
LEMMA WaitsFor ==
  ASSUME IInv, current # 0, NEW open \in SUBSET Open, NEW q, WaitOK(q, open, ToSet(states[current].subscribers))
  PROVE  WaitOK(q, open, states[current].subscriptions)
<1>1. current \in Gens
  BY Shapes DEF IInv
<1>2. \A c \in states[current].subscriptions : conn[c] = "open" => c \in ToSet(states[current].subscribers)
  BY <1>1 DEF IInv, SubscribedOK
<1>3. \A c \in open : conn[c] = "open"
  BY DEF Open
<1> QED
  BY <1>2, <1>3 DEF WaitOK

\* What is said of a request that is left alone, or is over, still holds.
LEMMA RequestKept ==
  ASSUME IInv, NEW r \in Requests,
         \/ request'[r] = request[r]
         \/ request[r].phase = "pending" /\ request'[r] = [request[r] EXCEPT !.phase = "over"],
         Open' = Open,
         current' = 0 \/ Pending(current') = {} \/
           (current' = current /\ states'[current].subscriptions \subseteq states[current].subscriptions)
  PROVE  request'[r] \in Asked /\ RequestOK(r)'
<1>1. RequestOK(r) /\ request[r] \in Asked
  BY AskedFacts DEF IInv
<1>2. /\ request'[r] \in Asked /\ request'[r].gen = request[r].gen /\ request'[r].ask = request[r].ask
      /\ request'[r].phase = "pending" => request[r].phase = "pending"
      /\ request'[r].phase = "none" <=> request[r].phase = "none"
  BY <1>1 DEF Asked
<1>3. AskOK(request[r], Open)
  BY <1>1 DEF RequestOK
<1>4. AskOK(request'[r], Open)
  BY <1>2, <1>3 DEF AskOK
<1>5. ASSUME request'[r].gen = current', current' # 0
      PROVE  WaitOK(request'[r], Open, states'[current'].subscriptions)
  <2>1. CASE Pending(current') = {}
    BY <2>1, <1>2, <1>5 DEF Pending, WaitOK
  <2>2. CASE current' = current /\ states'[current].subscriptions \subseteq states[current].subscriptions
    <3>1. WaitOK(request[r], Open, states[current].subscriptions)
      BY <2>2, <1>1, <1>2, <1>5 DEF RequestOK
    <3> QED
      BY <3>1, <2>2, <1>2 DEF WaitOK
  <2> QED
    BY <2>1, <2>2, <1>5
<1> DEFINE Old == Open
<1>6. Open' = Old
  BY DEF Old
<1> HIDE DEF Old
<1>7. AskOK(request'[r], Open') /\ (request'[r].gen = current' /\ current' # 0 =>
        WaitOK(request'[r], Open', states'[current'].subscriptions))
  BY <1>4, <1>5
<1> QED
  BY <1>2, <1>7 DEF RequestOK, AskOK, WaitOK, Open

\* So it does after a step that leaves the requests alone.
LEMMA RequestsKept ==
  ASSUME IInv, Next, UNCHANGED request, Open' = Open, NEW r \in Requests, \A c \in Conns : ~Resumed(c)
  PROVE  request'[r] \in Asked /\ RequestOK(r)'
<1>1. current' = 0 \/ Pending(current') = {} \/
        (current' = current /\ states'[current].subscriptions \subseteq states[current].subscriptions)
  BY SubscriptionsKeep
<1> QED
  BY <1>1, RequestKept

\* And after the close of a state.
LEMMA RequestsClose ==
  ASSUME IInv, NEW g \in Gens, StateClosed(g), NEW r \in Requests
  PROVE  request'[r] \in Asked /\ RequestOK(r)'
<1>1. Types /\ states[g].phase = "closing" /\ UNCHANGED <<current, conn>>
  BY DEF StateClosed, IInv
<1>2. current # 0 => states'[current].subscriptions = states[current].subscriptions
  <2>1. Becomes(g, "closed", FALSE, states[g].holds, <<>>, states[g].subscriptions)
    BY <1>1, ClosingState
  <2>2. /\ states'[g].subscriptions = states[g].subscriptions
        /\ \A h \in Gens \ {g} : states'[h] = states[h]
    BY <2>1, <1>1, BecomesMeans
  <2>3. current # 0 => current \in Gens
    BY <1>1, Shapes
  <2> QED
    BY <2>2, <2>3
<1>3. \/ request'[r] = request[r]
      \/ request[r].phase = "pending" /\ request'[r] = [request[r] EXCEPT !.phase = "over"]
  BY DEF StateClosed, Pending
<1>4. Open' = Open
  BY <1>1 DEF Open
<1> QED
  BY <1>1, <1>2, <1>3, <1>4, RequestKept

\* And after a cancellation.
LEMMA RequestCancels ==
  ASSUME IInv, NEW d \in Requests, Cancel(d), NEW r \in Requests
  PROVE  request'[r] \in Asked /\ RequestOK(r)'
<1>1. UNCHANGED <<current, conn, states>> /\ Open' = Open
  BY DEF Cancel, Open
<1>2. \/ request'[r] = request[r]
      \/ request[r].phase = "pending" /\ request'[r] = [request[r] EXCEPT !.phase = "over"]
  <2>1. DOMAIN request = Requests
    BY Shapes DEF IInv
  <2> QED
    BY <2>1 DEF Cancel
<1> QED
  BY <1>1, <1>2, RequestKept

\* And of a request that is dispatched again.
LEMMA RequestDispatched ==
  ASSUME IInv, NEW r \in Requests, NEW q \in Asked, q.phase # "none", q.gen \in Gens, NEW a \in Asks,
         Open' \subseteq Open, ~a.failed => \A c \in a.tried : c \notin Open',
         request'[r] = Dispatched(q, Dispatch(states[q.gen], a, Open')), UNCHANGED <<states, current>>
  PROVE  request'[r] \in Asked /\ RequestOK(r)'
<1> DEFINE open == Open'
           s == states[q.gen]
           d == Dispatched(q, Dispatch(s, a, open))
<1>1. open \subseteq Open /\ open \subseteq Conns /\ s \in States
  BY Shapes DEF IInv
<1> HIDE DEF open
<1>2. d \in Asked /\ d.gen = q.gen /\ AskOK(d, open) /\ WaitOK(d, open, ToSet(s.subscribers))
  <2>1. ~a.failed => \A c \in a.tried : c \notin open
    BY DEF open
  <2> HIDE DEF d, s
  <2> QED
    BY <1>1, <2>1, DispatchKeeps DEF d
<1>3. request'[r] = d
  BY DEF open
<1> HIDE DEF d
<1>4. ASSUME d.gen = current, current # 0 PROVE WaitOK(d, open, states[current].subscriptions)
  BY <1>1, <1>2, <1>4, WaitsFor
<1>5. AskOK(request'[r], open) /\ (request'[r].gen = current' /\ current' # 0 =>
        WaitOK(request'[r], open, states'[current'].subscriptions))
  BY <1>2, <1>3, <1>4
<1> QED
  BY <1>2, <1>3, <1>5 DEF RequestOK, AskOK, WaitOK, Open, open

\* And after an answer.
LEMMA RequestAnswers ==
  ASSUME IInv, NEW d \in Requests, Answer(d), NEW r \in Requests
  PROVE  request'[r] \in Asked /\ RequestOK(r)'
<1>1. UNCHANGED <<current, conn, states>> /\ Open' = Open /\ DOMAIN request = Requests
  BY Shapes DEF Answer, Open, IInv
<1>2. CASE r # d
  <2>1. request'[r] = request[r]
    BY <1>1, <1>2 DEF Answer
  <2> QED
    BY <2>1, <1>1, RequestKept
<1>3. CASE r = d
  <2> DEFINE a == request[d].ask
             b == [a EXCEPT !.failed = TRUE]
             q == [request[d] EXCEPT !.refused = TRUE]
  <2>1. /\ request[d] \in Asked /\ a \in Asks /\ a.conn \in Conns
        /\ request[d].phase # "none" /\ request[d].gen \in Gens
    <3>1. a.conn # Nobody /\ a \in Asks /\ request[d] \in Asked
      BY AskedFacts DEF Answer
    <3> QED
      BY <3>1, AskedFacts DEF Asks
  <2>2. CASE request'[d] = [request[d] EXCEPT !.phase = IF @ = "pending" THEN "resolved" ELSE @, !.ask = NotAsked]
    <3>1. NotAsked \in Asks /\ NotAsked.conn = Nobody /\ NotAsked.tried = {}
      BY DEF NotAsked, Asks
    <3>2. /\ request'[d] \in Asked /\ request'[d].ask = NotAsked /\ request'[d].gen = request[d].gen
          /\ request'[d].phase \notin {"pending", "none"}
      BY <2>1, <2>2, <3>1 DEF Asked
    <3> QED
      BY <3>1, <3>2, <2>1, <1>3 DEF RequestOK, AskOK, WaitOK
  <2>3. CASE request'[d] = Dispatched(q, Dispatch(states[request[d].gen], b, Open))
    <3>1. q \in Asked /\ q.phase # "none" /\ q.gen \in Gens /\ q.gen = request[d].gen /\ b \in Asks /\ b.failed
      BY <2>1 DEF Asked, Asks
    <3> HIDE DEF q, b
    <3>2. request'[d] = Dispatched(q, Dispatch(states[q.gen], b, Open'))
      BY <2>3, <3>1, <1>1
    <3> QED
      BY <3>1, <3>2, <1>1, <1>3, RequestDispatched
  <2> QED
    BY <1>1, <2>2, <2>3 DEF Answer
<1> QED
  BY <1>2, <1>3

\* And after a turn has asked.
LEMMA RequestCreates ==
  ASSUME IInv, NEW g \in Gens, NEW d \in Requests, Create(g, d), NEW r \in Requests
  PROVE  request'[r] \in Asked /\ RequestOK(r)'
<1>1. /\ UNCHANGED <<current, conn, states>> /\ Open' = Open /\ DOMAIN request = Requests
      /\ request[d].phase = "none" /\ states[g] \in States
  BY Shapes DEF Create, Open, IInv
<1>2. CASE r # d
  <2>1. request'[r] = request[r]
    BY <1>1, <1>2 DEF Create
  <2> QED
    BY <2>1, <1>1, RequestKept
<1>3. CASE r = d
  <2> DEFINE q == [request[d] EXCEPT !.phase = "pending", !.gen = g]
  <2>1. /\ q \in Asked /\ q.phase = "pending" /\ q.gen = g /\ q.ask = NotAsked
    <3>1. request[d] \in Asked /\ request[d].ask = NotAsked /\ g \in 0..MaxGen
      BY <1>1, AskedFacts, MaxGenAssumption DEF Gens
    <3> QED
      BY <3>1 DEF Asked
  <2>2. request'[d] = IF Candidates(states[g], {}) = <<>> THEN q
                      ELSE Dispatched(q, Dispatch(states[g], NotAsked, Open))
    BY <1>1 DEF Create
  <2>3. NotAsked \in Asks /\ NotAsked.conn = Nobody /\ NotAsked.tried = {}
    BY DEF NotAsked, Asks
  <2> HIDE DEF q
  <2>4. CASE Candidates(states[g], {}) = <<>>
    <3>1. ToSet(<<>>) = {}
      BY DEF ToSet
    <3>2. states[g].subscribers \in Seq(Conns)
      BY <1>1 DEF States
    <3>3. ToSet(states[g].subscribers) \cap Controllers = {}
      BY <3>1, <3>2, <2>4, KeptIs DEF Candidates
    <3>4. AskOK(q, Open) /\ WaitOK(q, Open, ToSet(states[g].subscribers))
      BY <2>1, <2>3, <3>3 DEF AskOK, WaitOK
    <3>5. ASSUME q.gen = current, current # 0 PROVE WaitOK(q, Open, states[current].subscriptions)
      BY <3>4, <3>5, <2>1, WaitsFor
    <3> QED
      BY <2>1, <2>2, <2>4, <3>4, <3>5, <1>1, <1>3 DEF RequestOK
  <2>5. CASE Candidates(states[g], {}) # <<>>
    <3>1. request'[d] = Dispatched(q, Dispatch(states[q.gen], NotAsked, Open'))
      BY <2>1, <2>2, <2>5, <1>1
    <3> QED
      BY <3>1, <2>1, <2>3, <1>1, <1>3, RequestDispatched
  <2> QED
    BY <2>4, <2>5
<1> QED
  BY <1>2, <1>3

\* And after a connection is closed: nobody else it was asked of is open,
\* unless one has failed.
LEMMA RequestLoses ==
  ASSUME IInv, NEW c \in Conns, Close(c), NEW r \in Requests
  PROVE  request'[r] \in Asked /\ RequestOK(r)'
<1>1. UNCHANGED <<current, states>> /\ DOMAIN conn = Conns /\ request[r] \in Asked /\ request[r].ask \in Asks
  BY Shapes DEF Close, IInv
<1>2. Open' = Open \ {c} /\ Nobody \notin Conns
  BY <1>1, ControllersAssumption DEF Close, Open
<1>3. AskOK(request[r], Open) /\ RequestOK(r)
  BY DEF IInv, RequestOK
<1>4. CASE request[r].ask.conn # c
  <2>1. request'[r] = request[r]
    BY <1>4 DEF Close
  <2> DEFINE open == Open \ {c}
  <2>2. AskOK(request[r], open)
    BY <1>3, <1>4 DEF AskOK
  <2>3. ASSUME request[r].gen = current, current # 0
        PROVE  WaitOK(request[r], open, states[current].subscriptions)
    BY <2>3, <1>3 DEF RequestOK, WaitOK
  <2>4. AskOK(request'[r], Open') /\ (request'[r].gen = current' /\ current' # 0 =>
          WaitOK(request'[r], Open', states'[current'].subscriptions))
    BY <2>1, <2>2, <2>3, <1>1, <1>2
  <2> QED
    BY <2>1, <2>4, <1>1 DEF RequestOK, AskOK, WaitOK, Open
<1>5. CASE request[r].ask.conn = c
  <2>1. request'[r] = Dispatched(request[r], Dispatch(states[request[r].gen], request[r].ask, Open'))
    BY <1>5, <1>2 DEF Close
  <2>2. request[r].phase # "none" /\ request[r].gen \in Gens
    BY <1>5, AskedFacts
  <2>3. ~request[r].ask.failed => \A d \in request[r].ask.tried : d \notin Open'
    BY <1>2, <1>3, <1>5 DEF AskOK
  <2> QED
    BY <2>1, <2>2, <2>3, <1>1, <1>2, RequestDispatched
<1> QED
  BY <1>4, <1>5

\* Two questions with the same fields are the same.
LEMMA SameAsk ==
  ASSUME NEW a \in Asks, NEW b \in Asks, a.conn = b.conn, a.tried = b.tried, a.failed = b.failed
  PROVE  a = b
<1>1. a = [conn |-> a.conn, tried |-> a.tried, failed |-> a.failed]
  BY DEF Asks
<1>2. b = [conn |-> b.conn, tried |-> b.tried, failed |-> b.failed]
  BY DEF Asks
<1> QED
  BY <1>1, <1>2

\* And after a connection has subscribed: it gets what waits.
LEMMA RequestResumes ==
  ASSUME IInv, NEW c \in Conns, Resumed(c), NEW r \in Requests
  PROVE  request'[r] \in Asked /\ RequestOK(r)'
<1> DEFINE g == call[c].gen
           old == states[g].subscriptions
<1>1. /\ g = current /\ g \in Gens /\ current # 0 /\ UNCHANGED <<current, conn>> /\ Subscribe(c, g)
      /\ Types /\ request[r] \in Asked /\ request[r].ask \in Asks /\ AskOK(request[r], Open)
  <2>1. g = current /\ g \in Gens /\ UNCHANGED <<current, conn>> /\ Subscribe(c, g)
    BY Quietly DEF Resumed
  <2>2. Types /\ request[r] \in Asked /\ request[r].ask \in Asks /\ AskOK(request[r], Open)
    BY AskedFacts DEF IInv, RequestOK
  <2> QED
    BY <2>1, <2>2, Shapes
<1>2. SubscribedOK(g) /\ states[g] \in States /\ Open \subseteq Conns
  BY <1>1, Shapes DEF IInv
<1>3. PICK q \in Seq(Conns) :
           /\ Becomes(g, states[g].phase, states[g].turn, states[g].holds, q, old \cup {c})
           /\ ToSet(states[g].subscribers) \subseteq ToSet(q)
           /\ c \notin old => c \in ToSet(q)
           /\ q = Attached(states[g], c).subscribers
  BY <1>1, <1>2, Subscribing DEF SubscribedOK
<1>4. states'[current].subscriptions = old \cup {c} /\ Open' = Open
  BY <1>1, <1>3, BecomesMeans DEF Open
<1>5. request' = IF c \in old THEN request ELSE Redispatched(Attached(states[g], c), c, g)
  BY <1>1 DEF Subscribe
<1> HIDE DEF g
<1>6. CASE request'[r] = request[r] /\ (c \in old \/ request[r].gen # g)
  <2>1. CASE c \in old
    <3>1. states'[current].subscriptions \subseteq states[current].subscriptions
      BY <2>1, <1>1, <1>4
    <3> QED
      BY <3>1, <1>1, <1>4, <1>6, RequestKept
  <2>2. CASE request[r].gen # g
    BY <2>2, <1>1, <1>4, <1>6 DEF RequestOK
  <2> QED
    BY <1>6, <2>1, <2>2
<1>7. CASE c \notin old /\ request[r].gen = g
  <2> DEFINE s == Attached(states[g], c)
  <2>1. s \in States /\ s.subscribers = q /\ ToSet(q) \subseteq old \cup {c}
    BY <1>1, <1>2, <1>3, Attaches DEF SubscribedOK, Types
  <2>2. request'[r] = IF c \in Controllers /\ r \in Pending(g) /\ request[r].ask.conn = Nobody
                      THEN Dispatched(request[r], Dispatch(s, NotAsked, Open))
                      ELSE [request[r] EXCEPT !.ask.tried = @ \ {c}]
    BY <1>5, <1>7 DEF Redispatched
  <2>3. NotAsked \in Asks /\ NotAsked.conn = Nobody /\ NotAsked.tried = {} /\ ~NotAsked.failed
    BY DEF NotAsked, Asks
  <2>4. \A d \in Open : d \in old => d \in ToSet(q)
    BY <1>1, <1>2, <1>3 DEF SubscribedOK, Open
  <2> HIDE DEF s, old
  <2>5. CASE c \in Controllers /\ r \in Pending(g) /\ request[r].ask.conn = Nobody
    <3> DEFINE d == Dispatched(request[r], Dispatch(s, NotAsked, Open))
    <3>1. request[r].phase = "pending" /\ request[r].gen \in Gens
      BY <2>5, <1>1 DEF Pending
    <3>2. d \in Asked /\ d.gen = g /\ AskOK(d, Open) /\ WaitOK(d, Open, ToSet(s.subscribers))
      BY <3>1, <2>1, <2>3, <1>1, <1>2, <1>7, DispatchKeeps
    <3>3. request'[r] = d
      BY <2>2, <2>5
    <3> HIDE DEF d
    <3>4. WaitOK(d, Open, old \cup {c})
      BY <3>2, <2>1, <2>4, <1>3, <1>7 DEF WaitOK
    <3> QED
      BY <3>2, <3>3, <3>4, <1>1, <1>4 DEF RequestOK
  <2>6. CASE ~(c \in Controllers /\ r \in Pending(g) /\ request[r].ask.conn = Nobody)
    <3>1. request'[r] = [request[r] EXCEPT !.ask.tried = @ \ {c}]
      BY <2>2, <2>6, Zenon
    <3> DEFINE a == request[r].ask
               b == [a EXCEPT !.tried = @ \ {c}]
    <3>2. /\ b \in Asks /\ b.conn = a.conn /\ b.failed = a.failed /\ b.tried = a.tried \ {c}
          /\ (a = NotAsked => b = NotAsked)
      <4>1. /\ b \in Asks /\ b.conn = a.conn /\ b.failed = a.failed /\ b.tried = a.tried \ {c}
        BY <1>1 DEF Asks
      <4>2. ASSUME a = NotAsked PROVE b = NotAsked
        <5>1. b.conn = a.conn /\ b.failed = a.failed /\ b.tried = a.tried
          BY <4>1, <4>2, <2>3
        <5> HIDE DEF a, b
        <5> QED
          BY <5>1, <4>1, <4>2, <2>3, SameAsk
      <4> QED
        BY <4>1, <4>2
    <3>3. request'[r] = [request[r] EXCEPT !.ask = b]
      BY <3>1, <1>1 DEF Asked
    <3> HIDE DEF b
    <3>4. /\ request'[r] \in Asked /\ request'[r].ask = b /\ request'[r].gen = request[r].gen
          /\ request'[r].phase = request[r].phase
      BY <3>2, <3>3, <1>1 DEF Asked
    <3>5. AskOK(request'[r], Open)
      BY <3>2, <3>4, <1>1 DEF AskOK
    <3>6. WaitOK(request'[r], Open, old \cup {c})
      <4>1. WaitOK(request[r], Open, old)
        BY <1>1, <1>7 DEF IInv, RequestOK, old
      <4>2. request[r].phase = "pending" /\ a.conn = Nobody => c \notin Controllers
        BY <2>6, <1>7 DEF Pending
      <4> QED
        BY <4>1, <4>2, <3>2, <3>4 DEF WaitOK
    <3> QED
      BY <3>4, <3>5, <3>6, <1>1, <1>4 DEF RequestOK
  <2> QED
    BY <2>5, <2>6
<1> QED
  <2>1. c \in old \/ request[r].gen # g => request'[r] = request[r]
    BY <1>5 DEF Redispatched
  <2> QED
    BY <2>1, <1>6, <1>7

\* The steps that change the requests.
LEMMA RequestMoves ==
  ASSUME IInv, Next
  PROVE  \/ UNCHANGED request /\ Open' = Open /\ \A c \in Conns : ~Resumed(c)
         \/ \E c \in Conns : Resumed(c) \/ Close(c)
         \/ \E g \in Gens : StateClosed(g)
         \/ \E r \in Requests : Answer(r) \/ Cancel(r) \/ \E g \in Gens : Create(g, r)
<1>1. ASSUME NEW c \in Conns, Resume(c) \/ Operate(c) \/ Start(c) \/ Unsubscribe(c) \/ Archive(c)
                             \/ Holds(c) \/ OperationEnds(c) \/ Registered(c)
      PROVE  UNCHANGED <<request, conn>>
  <2>1. Resume(c) \/ Operate(c) => UNCHANGED <<request, conn>>
    BY DEF Resume, Operate
  <2>2. Start(c) \/ Registered(c) => UNCHANGED <<request, conn>>
    BY DEF Start, Registered
  <2>3. Unsubscribe(c) \/ Archive(c) => UNCHANGED <<request, conn>>
    BY DEF Unsubscribe, Archive
  <2>4. Holds(c) => UNCHANGED <<request, conn>>
    BY DEF Holds
  <2>5. OperationEnds(c) => UNCHANGED <<request, conn>>
    BY DEF OperationEnds
  <2> QED
    BY <1>1, <2>1, <2>2, <2>3, <2>4, <2>5
<1>2. ASSUME NEW c \in Conns, Release(c)
      PROVE  UNCHANGED request /\ Open' = Open
  <2>1. DOMAIN conn = Conns
    BY Shapes DEF IInv
  <2> QED
    BY <1>2, <2>1 DEF Release, Open
<1>3. ASSUME NEW g \in Gens, TimerFires(g) \/ StateSticks(g) \/ TurnEnds(g) \/ Publish(g)
      PROVE  UNCHANGED <<request, conn>>
  BY <1>3 DEF TimerFires, StateSticks, TurnEnds, Publish
<1>4. LoadAcquires \/ LoadFails \/ LoadReturns \/ PoolClose => UNCHANGED <<request, conn>>
  <2>1. LoadAcquires \/ LoadFails => UNCHANGED <<request, conn>>
    BY DEF LoadAcquires, LoadFails
  <2>2. LoadReturns \/ PoolClose => UNCHANGED <<request, conn>>
    BY DEF LoadReturns, PoolClose
  <2> QED
    BY <2>1, <2>2
<1>5. UNCHANGED conn => Open' = Open
  BY DEF Open
<1> QED
  BY <1>1, <1>2, <1>3, <1>4, <1>5 DEF Next, Work

\* Every step keeps what is said of the requests.
LEMMA RequestsStep ==
  ASSUME IInv, Next
  PROVE  request' \in [Requests -> Asked] /\ \A r \in Requests : RequestOK(r)'
<1>1. request \in [Requests -> Asked]
  BY DEF IInv, Types
<1>2. \/ UNCHANGED request /\ Open' = Open /\ \A c \in Conns : ~Resumed(c)
      \/ \E c \in Conns : Resumed(c) \/ Close(c)
      \/ \E g \in Gens : StateClosed(g)
      \/ \E r \in Requests : Answer(r) \/ Cancel(r) \/ \E g \in Gens : Create(g, r)
  BY RequestMoves
<1>3. \A r \in Requests : request'[r] \in Asked /\ RequestOK(r)'
  BY <1>2, RequestsKept, RequestResumes, RequestLoses, RequestsClose, RequestAnswers, RequestCancels,
     RequestCreates
<1>4. request' = [r \in Requests |-> request'[r]]
  <2>1. ASSUME NEW c \in Conns, Resumed(c) PROVE request' = [r \in Requests |-> request'[r]]
    BY <2>1, <1>1 DEF Resumed, Subscribe, Redispatched
  <2>2. ASSUME NEW c \in Conns, Close(c) PROVE request' = [r \in Requests |-> request'[r]]
    BY <2>2 DEF Close
  <2>3. ASSUME NEW g \in Gens, StateClosed(g) PROVE request' = [r \in Requests |-> request'[r]]
    BY <2>3 DEF StateClosed
  <2>4. ASSUME NEW r \in Requests, NEW q, request' = [request EXCEPT ![r] = q]
        PROVE  request' = [d \in Requests |-> request'[d]]
    BY <2>4, <1>1
  <2>5. ASSUME NEW r \in Requests, Answer(r) \/ Cancel(r) \/ \E g \in Gens : Create(g, r)
        PROVE  \E q : request' = [request EXCEPT ![r] = q]
    <3>1. CASE Answer(r)
      BY <3>1 DEF Answer
    <3>2. CASE Cancel(r)
      BY <3>2 DEF Cancel
    <3>3. CASE \E g \in Gens : Create(g, r)
      BY <3>3 DEF Create
    <3> QED
      BY <2>5, <3>1, <3>2, <3>3
  <2>6. UNCHANGED request => request' = [r \in Requests |-> request'[r]]
    BY <1>1
  <2> QED
    BY <2>1, <2>2, <2>3, <2>4, <2>5, <2>6, <1>2
<1> QED
  BY <1>3, <1>4

\* The phase of g becomes p, and no other does.
PhaseIs(g, p) ==
  /\ g \in Gens /\ states'[g].phase = p
  /\ \A h \in Gens \ {g} : states'[h].phase = states[h].phase

\* What a step does to the phases, the lease and the entry: nothing, the entry
\* leaves, its state is closed, a generation is read, cannot be read, is open.
Stays ==
  /\ \A g \in Gens : states'[g].phase = states[g].phase
  /\ UNCHANGED <<current, lease>>
  /\ loading' = "reads" => loading = "reads"
Leaves ==
  /\ current # 0 /\ PhaseIs(current, "closing") /\ current' = 0 /\ UNCHANGED <<lease, loading>>
Closes(g) ==
  /\ states[g].phase = "closing" /\ PhaseIs(g, "closed") /\ lease' = 0 /\ UNCHANGED <<current, loading>>
Reads(g) ==
  /\ lease = 0 /\ Used = 1..(g - 1) /\ PhaseIs(g, "reading") /\ lease' = g /\ UNCHANGED current
  /\ loading' = "reads" \/ loading' = loading
Abandons ==
  /\ loading = "reads" /\ PhaseIs(lease, "closed") /\ lease' = 0 /\ loading' = "no" /\ UNCHANGED current
Opens ==
  /\ lease # 0 /\ states[lease].phase = "reading" /\ PhaseIs(lease, "open") /\ current' = lease /\ UNCHANGED lease
  /\ loading' # "reads"
  /\ loading = "reads" \/ \E c \in Conns : Registered(c)

\* What each step does to the phases, the lease and the entry.
LEMMA Moves ==
  ASSUME IInv, Next
  PROVE  Stays \/ Leaves \/ (\E g \in Gens : Closes(g) \/ Reads(g)) \/ Abandons \/ Opens
<1>1. /\ Types /\ (current # 0 => current \in Gens) /\ MaxGen \in Nat
      /\ (lease # 0 => lease \in Gens) /\ \A g \in Gens : states[g] \in States
      /\ DOMAIN states = Gens /\ PhasesOK
  BY Shapes DEF IInv
<1>2. \A g \in Gens : ToSet(states[g].subscribers) \subseteq states[g].subscriptions
  BY DEF IInv, SubscribedOK
<1>3. ASSUME NEW g \in Gens, NEW phase, NEW turn, NEW holds, NEW subscribers, NEW subscriptions,
             Becomes(g, phase, turn, holds, subscribers, subscriptions)
      PROVE  PhaseIs(g, phase) /\ (phase = states[g].phase => \A h \in Gens : states'[h].phase = states[h].phase)
  BY <1>1, <1>3, BecomesMeans DEF PhaseIs
<1>4. ASSUME NEW g \in Gens, states' = [states EXCEPT ![g].phase = "closing", ![g].timer = FALSE]
      PROVE  PhaseIs(g, "closing")
  BY <1>1, <1>3, <1>4, Unloading
<1>5. ASSUME NEW g \in Gens, NEW p \in {"reading", "closed"}, states' = [states EXCEPT ![g].phase = p]
      PROVE  PhaseIs(g, p)
  BY <1>1, <1>3, <1>5, Loading
<1>6. ASSUME NEW g \in Gens, TimerFires(g) PROVE Stays \/ Leaves
  <2>1. UNCHANGED <<lease, loading>>
    BY <1>6 DEF TimerFires
  <2>2. CASE current # 0 /\ Unloads(current)
    BY <2>1, <2>2, <1>1, <1>4 DEF Unloads, Leaves
  <2>3. CASE UNCHANGED current /\ Becomes(g, states[g].phase, states[g].turn, states[g].holds, states[g].subscribers,
                                         states[g].subscriptions)
    BY <2>1, <2>3, <1>3 DEF Stays
  <2> QED
    BY <2>2, <2>3, <1>1, <1>6, Timers
<1>7. ASSUME NEW g \in Gens, TurnEnds(g) \/ Publish(g) PROVE Stays
  <2>1. UNCHANGED <<current, lease, loading>>
    BY <1>7 DEF TurnEnds, Publish
  <2> QED
    BY <2>1, <1>1, <1>3, <1>7, EndingTurn, Publishing DEF Stays
<1>8. ASSUME NEW g \in Gens, StateClosed(g) PROVE Closes(g)
  BY <1>1, <1>3, <1>8, ClosingState DEF StateClosed, Closes
<1>9. ASSUME NEW c \in Conns, Archive(c) PROVE Leaves
  BY <1>1, <1>4, <1>9 DEF Archive, Unloads, Leaves
<1>10. ASSUME NEW c \in Conns, Resumed(c) \/ Holds(c) \/ OperationEnds(c) PROVE Stays
  <2>1. UNCHANGED <<current, lease, loading>>
    BY <1>10 DEF Resumed, Holds, OperationEnds
  <2>2. call[c].gen \in Gens /\ (OperationEnds(c) => states[call[c].gen].holds - 1 \in Nat)
    BY <1>10, Quietly
  <2>3. CASE Resumed(c)
    <3>1. Subscribe(c, call[c].gen)
      BY <2>3 DEF Resumed
    <3> DEFINE g == call[c].gen
    <3>2. PICK q \in Seq(Conns) :
            Becomes(g, states[g].phase, states[g].turn, states[g].holds, q, states[g].subscriptions \cup {c})
      BY <3>1, <2>2, <1>1, <1>2, Subscribing
    <3> HIDE DEF g
    <3> QED
      BY <3>2, <2>1, <2>2, <1>3 DEF Stays, g
  <2>4. CASE Holds(c)
    BY <2>1, <2>2, <2>4, <1>1, <1>3, Holding DEF Stays
  <2>5. CASE OperationEnds(c)
    BY <2>1, <2>2, <2>5, <1>1, <1>3, EndingOperation DEF Stays
  <2> QED
    BY <1>10, <2>3, <2>4, <2>5
<1>11. ASSUME NEW c \in Conns, Registered(c) PROVE Opens
  <2>1. 1 \in Gens /\ lease = 1 /\ states[1].phase = "reading" /\ loading # "reads"
    BY <1>11, Quietly
  <2>2. PhaseIs(1, "open")
    BY <2>1, <1>1, <1>3, <1>11, Registering
  <2>3. current' = 1 /\ UNCHANGED <<lease, loading>>
    BY <1>11 DEF Registered
  <2> QED
    BY <2>1, <2>2, <2>3, <1>11 DEF Opens
<1>12. ASSUME NEW c \in Conns, Release(c) \/ Unsubscribe(c) PROVE Stays
  <2>1. UNCHANGED <<current, lease, loading>>
    BY <1>12 DEF Release, Unsubscribe
  <2>2. CASE UNCHANGED states
    BY <2>1, <2>2 DEF Stays
  <2>3. CASE current # 0 /\ states' = [states EXCEPT ![current] = Detached(@, c)]
    BY <2>1, <2>3, <1>1, <1>2, <1>3, Leaving DEF Stays
  <2> QED
    BY <1>12, <2>2, <2>3 DEF Release, Unsubscribe
<1>13. ASSUME NEW c \in Conns, Start(c) PROVE Reads(1)
  <2>1. /\ 1 \in Gens /\ lease = 0 /\ Used = {} /\ states' = [states EXCEPT ![1].phase = "reading"]
        /\ lease' = 1 /\ UNCHANGED <<current, loading>>
    BY <1>13 DEF Start
  <2>2. 1..(1 - 1) = {}
    OBVIOUS
  <2> QED
    BY <2>1, <2>2, <1>5 DEF Reads
<1>14. ASSUME LoadAcquires PROVE \E g \in Gens : Reads(g)
  <2> DEFINE g == Cardinality(Used) + 1
  <2>1. PICK n \in 0..MaxGen : Used = 1..n
    BY <1>1 DEF PhasesOK
  <2>2. g = n + 1 /\ n = g - 1
    <3>1. n \in Nat /\ Cardinality(1..n) = n
      BY <2>1, <1>1, FS_Interval
    <3> QED
      BY <3>1, <2>1
  <2>3. /\ g \in Gens /\ lease = 0 /\ states' = [states EXCEPT ![g].phase = "reading"]
        /\ lease' = g /\ UNCHANGED current /\ loading' = "reads"
    BY <1>14 DEF LoadAcquires
  <2> HIDE DEF g
  <2>4. PhaseIs(g, "reading")
    BY <2>3, <1>5
  <2> QED
    BY <2>1, <2>2, <2>3, <2>4 DEF Reads
<1>15. ASSUME LoadFails PROVE Stays \/ Abandons
  <2>1. CASE loading = "reads"
    <3>1. lease \in Gens
      BY <2>1, <1>1 DEF PhasesOK
    <3>2. states' = [states EXCEPT ![lease].phase = "closed"] /\ lease' = 0 /\ loading' = "no" /\ UNCHANGED current
      BY <2>1, <1>15 DEF LoadFails
    <3> QED
      BY <3>1, <3>2, <2>1, <1>5 DEF Abandons
  <2>2. CASE loading # "reads"
    BY <2>2, <1>15 DEF LoadFails, Stays
  <2> QED
    BY <2>1, <2>2
<1>16. ASSUME LoadReturns PROVE Opens
  <2>1. lease \in Gens /\ lease # 0 /\ states[lease].phase = "reading"
    BY <1>16, <1>1 DEF PhasesOK, LoadReturns
  <2>2. PhaseIs(lease, "open")
    BY <2>1, <1>1, <1>3, <1>16, LoadEnds
  <2> QED
    BY <2>1, <2>2, <1>16 DEF LoadReturns, Opens
<1>17. ASSUME PoolClose PROVE Stays \/ Leaves
  <2>1. current' = 0 /\ UNCHANGED <<lease, loading>>
    BY <1>17 DEF PoolClose
  <2>2. CASE current = 0
    BY <2>1, <2>2, <1>17 DEF PoolClose, Stays
  <2>3. CASE current # 0
    <3>1. states' = [states EXCEPT ![current].phase = "closing", ![current].timer = FALSE]
      BY <2>3, <1>17 DEF PoolClose
    <3> QED
      BY <3>1, <2>1, <2>3, <1>1, <1>4 DEF Leaves
  <2> QED
    BY <2>2, <2>3
<1>18. ASSUME NEW c \in Conns, Resume(c) \/ Operate(c) PROVE Stays
  <2>1. CASE Resume(c)
    BY <2>1 DEF Resume, Load, Stays
  <2>2. CASE Operate(c)
    BY <2>2 DEF Operate, Load, Stays
  <2> QED
    BY <1>18, <2>1, <2>2
<1>19. ASSUME NEW c \in Conns, Close(c) PROVE Stays
  BY <1>19 DEF Close, Stays
<1>20. ASSUME NEW r \in Requests, Answer(r) \/ Cancel(r) \/ \E g \in Gens : Create(g, r) PROVE Stays
  BY <1>20 DEF Answer, Cancel, Create, Stays
<1>21. ASSUME NEW g \in Gens, StateSticks(g) PROVE Stays
  BY <1>21 DEF StateSticks, Stays
<1> QED
  <2>1. ASSUME NEW c \in Conns, Archive(c) \/ Resumed(c) \/ Holds(c) \/ OperationEnds(c) \/ Registered(c)
                               \/ Release(c) \/ Start(c) \/ Unsubscribe(c) \/ Resume(c) \/ Operate(c) \/ Close(c)
        PROVE  Stays \/ Leaves \/ (\E g \in Gens : Closes(g) \/ Reads(g)) \/ Abandons \/ Opens
    <3>1. Start(c) => 1 \in Gens
      BY DEF Start
    <3> QED
      BY <2>1, <3>1, <1>9, <1>10, <1>11, <1>12, <1>13, <1>18, <1>19
  <2>2. ASSUME NEW g \in Gens, TimerFires(g) \/ StateClosed(g) \/ StateSticks(g) \/ TurnEnds(g) \/ Publish(g)
        PROVE  Stays \/ Leaves \/ (\E h \in Gens : Closes(h) \/ Reads(h)) \/ Abandons \/ Opens
    BY <2>2, <1>6, <1>7, <1>8, <1>21
  <2> QED
    BY <2>1, <2>2, <1>14, <1>15, <1>16, <1>17, <1>20 DEF Next, Work

\* Every step keeps the order of the generations.
LEMMA PhasesStep ==
  ASSUME IInv, Next
  PROVE  PhasesOK'
<1>1. /\ Types /\ (current # 0 => current \in Gens) /\ MaxGen \in Nat /\ PhasesOK
      /\ (lease # 0 => lease \in Gens) /\ 0 \notin Gens /\ \A g \in Gens : g \in Nat
  BY Shapes DEF IInv
<1>2. PICK n \in 0..MaxGen : Used = 1..n
  BY <1>1 DEF PhasesOK
<1>3. /\ \A g \in Gens : states[g].phase = "open" <=> current = g
      /\ \A g \in Gens : states[g].phase \in {"reading", "open", "closing"} <=> lease = g
      /\ loading = "reads" => lease # 0 /\ states[lease].phase = "reading"
  BY <1>1 DEF PhasesOK
<1>4. ASSUME \A g \in Gens : states'[g].phase = "none" <=> states[g].phase = "none"
      PROVE  \E m \in 0..MaxGen : Used' = 1..m
  BY <1>2, <1>4 DEF Used
<1>5. ASSUME Stays PROVE PhasesOK'
  <2>1. \A g \in Gens : states'[g].phase = states[g].phase
    BY <1>5 DEF Stays
  <2>2. \E m \in 0..MaxGen : Used' = 1..m
    BY <2>1, <1>4
  <2>3. loading' = "reads" => lease' # 0 /\ states'[lease'].phase = "reading"
    BY <2>1, <1>1, <1>3, <1>5 DEF Stays
  <2>4. /\ \A g \in Gens : states'[g].phase = "open" <=> current' = g
        /\ \A g \in Gens : states'[g].phase \in {"reading", "open", "closing"} <=> lease' = g
    BY <2>1, <1>3, <1>5 DEF Stays
  <2> QED
    BY <2>2, <2>3, <2>4 DEF PhasesOK
<1>6. ASSUME Leaves PROVE PhasesOK'
  <2>1. states[current].phase = "open"
    BY <1>1, <1>3, <1>6 DEF Leaves
  <2>2. \A g \in Gens : states'[g].phase = "none" <=> states[g].phase = "none"
    BY <2>1, <1>6 DEF Leaves, PhaseIs
  <2>3. \A g \in Gens : states'[g].phase = "open" <=> current' = g
    BY <1>1, <1>3, <1>6 DEF Leaves, PhaseIs
  <2>4. \A g \in Gens : states'[g].phase \in {"reading", "open", "closing"} <=> lease' = g
    BY <2>1, <1>1, <1>3, <1>6 DEF Leaves, PhaseIs
  <2>5. loading' = "reads" => lease' # 0 /\ states'[lease'].phase = "reading"
    BY <2>1, <1>1, <1>3, <1>6 DEF Leaves, PhaseIs
  <2> QED
    BY <2>2, <2>3, <2>4, <2>5, <1>4 DEF PhasesOK
<1>7. ASSUME NEW k \in Gens, Closes(k) PROVE PhasesOK'
  <2>1. lease = k /\ current # k
    BY <1>3, <1>7 DEF Closes
  <2>2. \A g \in Gens : states'[g].phase = "none" <=> states[g].phase = "none"
    BY <1>7 DEF Closes, PhaseIs
  <2>3. \A g \in Gens : states'[g].phase = "open" <=> current' = g
    BY <2>1, <1>3, <1>7 DEF Closes, PhaseIs
  <2>4. \A g \in Gens : states'[g].phase \in {"reading", "open", "closing"} <=> lease' = g
    BY <2>1, <1>1, <1>3, <1>7 DEF Closes, PhaseIs
  <2>5. loading' # "reads"
    BY <2>1, <1>3, <1>7 DEF Closes
  <2> QED
    BY <2>2, <2>3, <2>4, <2>5, <1>4 DEF PhasesOK
<1>8. ASSUME NEW k \in Gens, Reads(k) PROVE PhasesOK'
  <2>1. lease = 0 /\ current # k /\ lease' = k /\ k # 0 /\ loading # "reads" /\ states[k].phase = "none"
    <3>1. k \notin 1..(k - 1)
      BY <1>1
    <3>2. states[k].phase = "none"
      BY <3>1, <1>8 DEF Reads, Used
    <3> QED
      BY <3>2, <1>1, <1>3, <1>8 DEF Reads
  <2>2. Used' = 1..k
    <3>1. Used' = Used \cup {k}
      BY <1>8 DEF Reads, PhaseIs, Used
    <3>2. 1..k = 1..(k - 1) \cup {k}
      BY <1>1, <2>1 DEF Gens
    <3> QED
      BY <3>1, <3>2, <1>8 DEF Reads
  <2>3. \A g \in Gens : states'[g].phase = "open" <=> current' = g
    BY <2>1, <1>3, <1>8 DEF Reads, PhaseIs
  <2>4. \A g \in Gens : states'[g].phase \in {"reading", "open", "closing"} <=> lease' = g
    BY <2>1, <1>1, <1>3, <1>8 DEF Reads, PhaseIs
  <2>5. loading' = "reads" => lease' # 0 /\ states'[lease'].phase = "reading"
    BY <2>1, <1>8 DEF Reads, PhaseIs
  <2>6. k \in 0..MaxGen
    BY <1>1 DEF Gens
  <2> QED
    BY <2>2, <2>3, <2>4, <2>5, <2>6 DEF PhasesOK
<1>9. ASSUME Abandons PROVE PhasesOK'
  <2>1. lease \in Gens /\ states[lease].phase = "reading" /\ current # lease
    BY <1>1, <1>3, <1>9 DEF Abandons
  <2>2. \A g \in Gens : states'[g].phase = "none" <=> states[g].phase = "none"
    BY <2>1, <1>9 DEF Abandons, PhaseIs
  <2>3. \A g \in Gens : states'[g].phase = "open" <=> current' = g
    BY <2>1, <1>3, <1>9 DEF Abandons, PhaseIs
  <2>4. \A g \in Gens : states'[g].phase \in {"reading", "open", "closing"} <=> lease' = g
    BY <2>1, <1>1, <1>3, <1>9 DEF Abandons, PhaseIs
  <2> QED
    BY <2>2, <2>3, <2>4, <1>4, <1>9 DEF PhasesOK, Abandons
<1>10. ASSUME Opens PROVE PhasesOK'
  <2>1. lease \in Gens /\ states[lease].phase = "reading"
    BY <1>1, <1>10 DEF Opens
  <2>2. \A g \in Gens : states'[g].phase = "none" <=> states[g].phase = "none"
    BY <2>1, <1>10 DEF Opens, PhaseIs
  <2>3. current = 0
    BY <1>1, <1>3, <2>1
  <2>4. \A g \in Gens : states'[g].phase = "open" <=> current' = g
    BY <2>1, <2>3, <1>1, <1>3, <1>10 DEF Opens, PhaseIs
  <2>5. \A g \in Gens : states'[g].phase \in {"reading", "open", "closing"} <=> lease' = g
    BY <2>1, <1>1, <1>3, <1>10 DEF Opens, PhaseIs
  <2> QED
    BY <2>2, <2>4, <2>5, <1>4, <1>10 DEF PhasesOK, Opens
<1> QED
  BY <1>5, <1>6, <1>7, <1>8, <1>9, <1>10, Moves

\* A generation that has been open is not read again.
LEMMA PlacesStep ==
  ASSUME IInv, Next
  PROVE  /\ current' \in 0..MaxGen /\ lease' \in 0..MaxGen
         /\ \A g \in Gens : states[g].phase \in {"open", "closing", "closed"} =>
                            states'[g].phase \in {"open", "closing", "closed"}
<1>1. /\ Types /\ PhasesOK /\ (lease # 0 => lease \in Gens) /\ Gens \subseteq 0..MaxGen
      /\ (current # 0 => current \in Gens) /\ 0 \in 0..MaxGen
  BY Shapes DEF IInv, Gens
<1>2. current \in 0..MaxGen /\ lease \in 0..MaxGen
  BY <1>1 DEF Types
<1>3. current' \in 0..MaxGen /\ lease' \in 0..MaxGen
  BY <1>1, <1>2, Moves DEF Stays, Leaves, Closes, Reads, Abandons, Opens
<1>4. ASSUME NEW g \in Gens, states[g].phase \in {"open", "closing", "closed"}
      PROVE  states'[g].phase \in {"open", "closing", "closed"}
  <2>1. ASSUME NEW k \in Gens, Reads(k) PROVE g # k
    <3>1. k \notin 1..(k - 1)
      BY <1>1, MaxGenAssumption DEF Gens
    <3> QED
      BY <3>1, <2>1, <1>4 DEF Reads, Used
  <2>2. ASSUME NEW p \in {"open", "closing", "closed"}, NEW k, PhaseIs(k, p) PROVE states'[g].phase \in {"open", "closing", "closed"}
    BY <2>2, <1>4 DEF PhaseIs
  <2>3. ASSUME NEW k \in Gens, Reads(k) PROVE states'[g].phase \in {"open", "closing", "closed"}
    BY <2>1, <2>3, <1>4 DEF Reads, PhaseIs
  <2>4. Stays => states'[g].phase \in {"open", "closing", "closed"}
    BY <1>4 DEF Stays
  <2> QED
    BY <2>2, <2>3, <2>4, Moves DEF Leaves, Closes, Abandons, Opens
<1> QED
  BY <1>3, <1>4

\* The steps that change what a handler does.
LEMMA CallMoves ==
  ASSUME IInv, Next
  PROVE  \/ UNCHANGED call
         \/ \E c \in Conns : /\ Resumed(c) \/ OperationEnds(c) \/ Registered(c)
                             /\ call' = [call EXCEPT ![c] = [kind |-> "none", gen |-> 0]]
         \/ \E c \in Conns : Holds(c) \/ Start(c)
         \/ \E c \in Conns, k \in {"awaits resume", "awaits operation", "resumes", "operates"}, g \in {0, current} :
              /\ Quiet /\ Free(c) /\ call' = [call EXCEPT ![c] = [kind |-> k, gen |-> g]]
              /\ UNCHANGED current
              /\ k \in {"resumes", "operates"} => current # 0 /\ g = current
         \/ LoadFails /\ Abandon
         \/ LoadReturns
<1>1. ASSUME NEW c \in Conns, Resume(c) \/ Operate(c)
      PROVE  \E k \in {"awaits resume", "awaits operation", "resumes", "operates"}, g \in {0, current} :
              /\ Quiet /\ Free(c) /\ call' = [call EXCEPT ![c] = [kind |-> k, gen |-> g]]
              /\ UNCHANGED current
              /\ k \in {"resumes", "operates"} => current # 0 /\ g = current
  <2>1. ASSUME NEW j \in {"awaits resume", "awaits operation"}, NEW k \in {"resumes", "operates"},
               Quiet, Free(c), Load(c, j, k), UNCHANGED current
        PROVE  \E l \in {"awaits resume", "awaits operation", "resumes", "operates"}, g \in {0, current} :
                /\ Quiet /\ Free(c) /\ call' = [call EXCEPT ![c] = [kind |-> l, gen |-> g]]
                /\ UNCHANGED current
                /\ l \in {"resumes", "operates"} => current # 0 /\ g = current
    <3>1. CASE current # 0 /\ Go(c, k, current) /\ UNCHANGED loading
      BY <3>1, <2>1 DEF Go
    <3>2. CASE current = 0 /\ Go(c, j, 0)
      BY <3>2, <2>1 DEF Go
    <3> QED
      BY <3>1, <3>2, <2>1 DEF Load
  <2>2. CASE Resume(c)
    BY <2>1, <2>2 DEF Resume
  <2>3. CASE Operate(c)
    BY <2>1, <2>3 DEF Operate
  <2> QED
    BY <1>1, <2>2, <2>3
<1>2. ASSUME NEW c \in Conns, Resumed(c) \/ OperationEnds(c) \/ Registered(c)
      PROVE  call' = [call EXCEPT ![c] = [kind |-> "none", gen |-> 0]]
  <2>1. Go(c, "none", 0)
    BY <1>2 DEF Resumed, OperationEnds, Registered
  <2> QED
    BY <2>1 DEF Go
<1>3. ASSUME NEW c \in Conns, Unsubscribe(c) \/ Archive(c) \/ Close(c) \/ Release(c) PROVE UNCHANGED call
  BY <1>3 DEF Unsubscribe, Archive, Close, Release
<1>4. ASSUME NEW g \in Gens, TimerFires(g) \/ StateClosed(g) \/ StateSticks(g) \/ TurnEnds(g) \/ Publish(g) PROVE UNCHANGED call
  BY <1>4 DEF TimerFires, StateClosed, StateSticks, TurnEnds, Publish
<1>5. ASSUME NEW r \in Requests, Answer(r) \/ Cancel(r) \/ \E g \in Gens : Create(g, r) PROVE UNCHANGED call
  BY <1>5 DEF Answer, Cancel, Create
<1>6. LoadAcquires \/ PoolClose => UNCHANGED call
  BY DEF LoadAcquires, PoolClose
<1>7. LoadFails => Abandon
  BY DEF LoadFails
<1> QED
  BY <1>1, <1>2, <1>3, <1>4, <1>5, <1>6, <1>7 DEF Next, Work

\* A load that ends goes on with those who wait for it.
LEMMA LoadAnswers ==
  ASSUME LoadReturns, NEW c \in Conns
  PROVE  \/ call[c].kind = "awaits resume" /\ call'[c] = [kind |-> "resumes", gen |-> lease]
         \/ call[c].kind = "awaits operation" /\ call'[c] = [kind |-> "operates", gen |-> lease]
         \/ call[c].kind \notin {"awaits resume", "awaits operation"} /\ call'[c] = call[c]
<1>1. call'[c] = CASE Calls(c, "awaits resume")    -> [kind |-> "resumes", gen |-> lease]
                   [] Calls(c, "awaits operation") -> [kind |-> "operates", gen |-> lease]
                   [] OTHER                        -> call[c]
  BY DEF LoadReturns
<1>2. CASE call[c].kind = "awaits resume"
  BY <1>1, <1>2 DEF Calls
<1>3. CASE call[c].kind = "awaits operation"
  BY <1>1, <1>3 DEF Calls
<1>4. CASE call[c].kind \notin {"awaits resume", "awaits operation"}
  BY <1>1, <1>4 DEF Calls
<1> QED
  BY <1>2, <1>3, <1>4

\* What is said of a handler that the step leaves alone still holds.
LEMMA CallKept ==
  ASSUME IInv, Next, NEW d \in Conns, call'[d] = call[d]
  PROVE  CallOK(d)'
<1>1. /\ Types /\ PhasesOK /\ CallOK(d) /\ DOMAIN call = Conns
  BY Shapes DEF IInv
<1>2. ASSUME call[d].kind \in {"resumes", "operates"} PROVE call[d].gen = current' /\ current' # 0
  <2>1. ~Quiet
    BY <1>2 DEF Quiet, Ready
  <2>2. \E c \in Conns : Resumed(c) \/ Holds(c)
    <3>1. ASSUME NEW c \in Conns, Resume(c) \/ Operate(c) \/ Start(c) \/ Unsubscribe(c) \/ Archive(c) \/ Close(c)
                                   \/ OperationEnds(c) \/ Registered(c) \/ Release(c)
          PROVE  Quiet
      <4>1. Resume(c) \/ Operate(c) \/ Start(c) \/ Unsubscribe(c) \/ Archive(c) \/ Close(c) => Quiet
        BY DEF Resume, Operate, Start, Unsubscribe, Archive, Close
      <4>2. OperationEnds(c) \/ Registered(c) \/ Release(c) => Quiet
        BY DEF OperationEnds, Registered, Release
      <4> QED
        BY <3>1, <4>1, <4>2
    <3>2. ASSUME NEW g \in Gens, TimerFires(g) \/ StateClosed(g) \/ StateSticks(g) \/ TurnEnds(g) \/ Publish(g) PROVE Quiet
      BY <3>2 DEF TimerFires, StateClosed, StateSticks, TurnEnds, Publish
    <3>3. ASSUME NEW r \in Requests, Answer(r) \/ Cancel(r) \/ \E g \in Gens : Create(g, r) PROVE Quiet
      BY <3>3 DEF Answer, Cancel, Create
    <3>4. LoadAcquires \/ LoadFails \/ LoadReturns \/ PoolClose => Quiet
      BY DEF LoadAcquires, LoadFails, LoadReturns, PoolClose
    <3> QED
      BY <2>1, <3>1, <3>2, <3>3, <3>4 DEF Next, Work
  <2>3. UNCHANGED current
    BY <2>2 DEF Resumed, Holds
  <2> QED
    BY <2>3, <1>1, <1>2 DEF CallOK
<1>3. Calls(d, "holds") =>
        call[d].gen \in Gens /\ states'[call[d].gen].phase \in {"open", "closing", "closed"}
  BY <1>1, PlacesStep DEF CallOK
<1>4. ASSUME Calls(d, "starts")
      PROVE  /\ call[d].gen = 1 /\ lease' = 1 /\ 1 \in Gens /\ states'[1].phase = "reading" /\ loading' # "reads"
             /\ \A e \in Conns : call'[e].kind = "starts" => e = d
  <2>1. /\ call[d].gen = 1 /\ lease = 1 /\ 1 \in Gens /\ states[1].phase = "reading" /\ loading # "reads"
        /\ \A e \in Conns : Calls(e, "starts") => e = d
    BY <1>1, <1>4 DEF CallOK
  <2>2. current = 0
    BY <2>1, <1>1, Shapes DEF PhasesOK
  <2>3. \A c \in Conns : ~Registered(c) /\ ~Start(c)
    <3>1. ASSUME NEW c \in Conns, Registered(c) PROVE FALSE
      <4>1. c = d
        BY <3>1, <2>1 DEF Registered
      <4>2. call' = [call EXCEPT ![d] = [kind |-> "none", gen |-> 0]]
        BY <3>1, <4>1 DEF Registered, Go
      <4> QED
        BY <4>2, <1>1, <1>4 DEF Calls
    <3> QED
      BY <3>1, <2>1 DEF Start
  <2>4. lease' = 1 /\ states'[1].phase = "reading" /\ loading' # "reads"
    <3>1. CASE Stays
      BY <3>1, <2>1 DEF Stays
    <3>2. CASE Leaves \/ Abandons \/ Opens
      BY <3>2, <2>1, <2>2, <2>3 DEF Leaves, Abandons, Opens
    <3>3. CASE \E g \in Gens : Closes(g) \/ Reads(g)
      <4>1. \A g \in Gens : states[g].phase = "closing" => g = 1
        BY <1>1, <2>1 DEF PhasesOK
      <4> QED
        BY <4>1, <3>3, <2>1 DEF Closes, Reads
    <3> QED
      BY <3>1, <3>2, <3>3, Moves
  <2>5. \A e \in Conns : call'[e].kind = "starts" => call[e].kind = "starts"
    <3>1. ASSUME NEW c \in Conns, NEW k, NEW g, k # "starts", call' = [call EXCEPT ![c] = [kind |-> k, gen |-> g]]
          PROVE  \A e \in Conns : call'[e].kind = "starts" => call[e].kind = "starts"
      BY <3>1, <1>1
    <3>2. ASSUME NEW c \in Conns, Holds(c)
          PROVE  \A e \in Conns : call'[e].kind = "starts" => call[e].kind = "starts"
      BY <3>1, <3>2 DEF Holds, Go
    <3>3. Abandon => \A e \in Conns : call'[e].kind = "starts" => call[e].kind = "starts"
      BY DEF Abandon
    <3>4. LoadReturns => \A e \in Conns : call'[e].kind = "starts" => call[e].kind = "starts"
      <4> SUFFICES ASSUME LoadReturns, NEW e \in Conns PROVE call'[e].kind = "starts" => call[e].kind = "starts"
        OBVIOUS
      <4>1. \/ call'[e] = [kind |-> "resumes", gen |-> lease]
            \/ call'[e] = [kind |-> "operates", gen |-> lease]
            \/ call'[e] = call[e]
        BY LoadAnswers
      <4> QED
        BY <4>1
    <3> QED
      <4>1. ASSUME NEW c \in Conns, NEW k \in {"none", "awaits resume", "awaits operation", "resumes", "operates"}, NEW g,
                   call' = [call EXCEPT ![c] = [kind |-> k, gen |-> g]]
            PROVE  \A e \in Conns : call'[e].kind = "starts" => call[e].kind = "starts"
        BY <3>1, <4>1
      <4> QED
        BY <4>1, <3>2, <3>3, <3>4, <2>3, CallMoves
  <2> QED
    BY <2>1, <2>4, <2>5 DEF Calls
<1> QED
  BY <1>2, <1>3, <1>4 DEF CallOK, Calls

\* Every step keeps what is said of the handlers.
LEMMA CallsStep ==
  ASSUME IInv, Next
  PROVE  call' \in [Conns -> Handlers] /\ \A c \in Conns : CallOK(c)'
<1>1. /\ Types /\ PhasesOK /\ call \in [Conns -> Handlers] /\ lease \in 0..MaxGen /\ current \in 0..MaxGen
      /\ 0 \in 0..MaxGen
  BY MaxGenAssumption DEF IInv, Types
<1>2. ASSUME NEW c \in Conns, NEW h \in Handlers, call' = [call EXCEPT ![c] = h], CallOK(c)'
      PROVE  call' \in [Conns -> Handlers] /\ \A d \in Conns : CallOK(d)'
  <2>1. call' \in [Conns -> Handlers] /\ \A d \in Conns \ {c} : call'[d] = call[d]
    BY <1>1, <1>2
  <2> QED
    BY <2>1, <1>2, CallKept
<1>3. ASSUME NEW c \in Conns, call' = [call EXCEPT ![c] = [kind |-> "none", gen |-> 0]]
      PROVE  call' \in [Conns -> Handlers] /\ \A d \in Conns : CallOK(d)'
  <2> DEFINE h == [kind |-> "none", gen |-> 0]
  <2>1. h \in Handlers /\ h.kind = "none"
    BY <1>1 DEF Handlers
  <2>2. call'[c].kind = "none"
    BY <1>1, <1>3
  <2> HIDE DEF h
  <2>3. CallOK(c)'
    BY <2>2 DEF CallOK, Calls
  <2> QED
    BY <2>1, <2>3, <1>2, <1>3 DEF h
<1>4. ASSUME NEW c \in Conns, Holds(c)
      PROVE  call' \in [Conns -> Handlers] /\ \A d \in Conns : CallOK(d)'
  <2>1. call[c].gen \in Gens /\ call[c].gen = current
    BY <1>4, Quietly
  <2> DEFINE h == [kind |-> "holds", gen |-> call[c].gen]
  <2>2. h \in Handlers /\ h.kind = "holds" /\ h.gen = current
    BY <1>1, <2>1 DEF Handlers
  <2>3. call' = [call EXCEPT ![c] = h]
    BY <1>4 DEF Holds, Go
  <2> HIDE DEF h
  <2>4. call'[c].kind = "holds" /\ call'[c].gen = current
    BY <2>2, <2>3, <1>1
  <2>5. states'[current].phase \in {"open", "closing", "closed"}
    <3>1. states[current].phase = "open"
      BY <2>1, <1>1 DEF PhasesOK
    <3> QED
      BY <3>1, <2>1, PlacesStep
  <2>6. CallOK(c)'
    BY <2>1, <2>4, <2>5 DEF CallOK, Calls
  <2> QED
    BY <2>2, <2>3, <2>6, <1>2
<1>5. ASSUME NEW c \in Conns, Start(c)
      PROVE  call' \in [Conns -> Handlers] /\ \A d \in Conns : CallOK(d)'
  <2> DEFINE h == [kind |-> "starts", gen |-> 1]
  <2>1. /\ 1 \in Gens /\ lease = 0 /\ lease' = 1 /\ states' = [states EXCEPT ![1].phase = "reading"]
        /\ call' = [call EXCEPT ![c] = h] /\ UNCHANGED loading
    BY <1>5 DEF Start, Go
  <2>2. h \in Handlers
    BY <2>1, MaxGenAssumption DEF Handlers, Gens
  <2>3. states'[1].phase = "reading"
    <3>1. Becomes(1, "reading", states[1].turn, states[1].holds, states[1].subscribers, states[1].subscriptions)
      BY <2>1, <1>1, Loading
    <3> QED
      BY <3>1, <2>1, <1>1, BecomesMeans
  <2>4. \A d \in Conns : call[d].kind # "starts"
    BY <2>1 DEF IInv, CallOK, Calls
  <2>5. call'[c].kind = "starts" /\ call'[c].gen = 1 /\ \A d \in Conns \ {c} : call'[d] = call[d]
    BY <2>1, <1>1
  <2>6. CallOK(c)'
    BY <2>1, <2>3, <2>4, <2>5, <1>1 DEF CallOK, Calls, PhasesOK
  <2> QED
    BY <2>1, <2>2, <2>6, <1>2
<1>6. ASSUME NEW c \in Conns, NEW k \in {"awaits resume", "awaits operation", "resumes", "operates"},
             NEW g \in {0, current}, call' = [call EXCEPT ![c] = [kind |-> k, gen |-> g]], UNCHANGED current,
             k \in {"resumes", "operates"} => current # 0 /\ g = current
      PROVE  call' \in [Conns -> Handlers] /\ \A d \in Conns : CallOK(d)'
  <2> DEFINE h == [kind |-> k, gen |-> g]
  <2>1. h \in Handlers
    BY <1>1, <1>6 DEF Handlers
  <2>2. call'[c].kind = k /\ call'[c].gen = g
    BY <1>1, <1>6
  <2>3. CallOK(c)'
    BY <2>2, <1>6 DEF CallOK, Calls
  <2> QED
    BY <2>1, <2>3, <1>2, <1>6
<1>7. ASSUME Abandon PROVE call' \in [Conns -> Handlers] /\ \A d \in Conns : CallOK(d)'
  <2>1. [kind |-> "none", gen |-> 0] \in Handlers
    BY <1>1 DEF Handlers
  <2>2. call' \in [Conns -> Handlers]
    BY <2>1, <1>1, <1>7 DEF Abandon
  <2>3. ASSUME NEW d \in Conns PROVE CallOK(d)'
    <3>1. call'[d] = call[d] \/ call'[d] = [kind |-> "none", gen |-> 0]
      BY <1>7 DEF Abandon
    <3>2. CASE call'[d] = [kind |-> "none", gen |-> 0]
      BY <3>2 DEF CallOK, Calls
    <3> QED
      BY <3>1, <3>2, CallKept
  <2> QED
    BY <2>2, <2>3
<1>8. ASSUME LoadReturns PROVE call' \in [Conns -> Handlers] /\ \A d \in Conns : CallOK(d)'
  <2>1. lease # 0 /\ current' = lease
    BY <1>8, <1>1, Shapes DEF LoadReturns, PhasesOK
  <2>2. \A k \in {"resumes", "operates"} : [kind |-> k, gen |-> lease] \in Handlers
    BY <1>1 DEF Handlers
  <2>3. \A d \in Conns : \/ call'[d] = [kind |-> "resumes", gen |-> lease]
                         \/ call'[d] = [kind |-> "operates", gen |-> lease]
                         \/ call'[d] = call[d]
    BY <1>8, LoadAnswers
  <2>4. call' \in [Conns -> Handlers]
    <3> DEFINE Answered(c) == CASE Calls(c, "awaits resume")    -> [kind |-> "resumes", gen |-> lease]
                             [] Calls(c, "awaits operation") -> [kind |-> "operates", gen |-> lease]
                             [] OTHER                        -> call[c]
    <3>1. call' = [d \in Conns |-> Answered(d)]
      BY <1>8, Zenon DEF LoadReturns
    <3> HIDE DEF Answered
    <3>2. call' = [d \in Conns |-> call'[d]]
      BY <3>1
    <3>3. \A d \in Conns : call'[d] \in Handlers
      BY <2>2, <2>3, <1>1
    <3> QED
      BY <3>2, <3>3
  <2>5. ASSUME NEW d \in Conns, NEW k \in {"resumes", "operates"}, call'[d] = [kind |-> k, gen |-> lease]
        PROVE  CallOK(d)'
    BY <2>1, <2>5 DEF CallOK, Calls
  <2> QED
    BY <2>3, <2>4, <2>5, CallKept
<1>9. CASE UNCHANGED call
  BY <1>1, <1>9, CallKept
<1> QED
  BY <1>3, <1>4, <1>5, <1>6, <1>7, <1>8, <1>9, CallMoves

\* The steps that change more of a generation than its phase and timer.
LEMMA Fields ==
  ASSUME IInv, Next
  PROVE  \/ UNCHANGED states
         \/ \E g \in Gens, p \in {"none", "reading", "open", "closing", "closed"} :
              Becomes(g, p, states[g].turn, states[g].holds, states[g].subscribers, states[g].subscriptions)
         \/ \E g \in Gens : StateClosed(g) \/ TurnEnds(g) \/ Publish(g)
         \/ \E c \in Conns : Resumed(c) \/ Holds(c) \/ OperationEnds(c) \/ Registered(c)
         \/ /\ current # 0
            /\ \E c \in Conns : /\ Release(c) \/ Unsubscribe(c)
                                /\ states' = [states EXCEPT ![current] = Detached(@, c)]
<1> DEFINE Moved == \E g \in Gens, p \in {"none", "reading", "open", "closing", "closed"} :
              Becomes(g, p, states[g].turn, states[g].holds, states[g].subscribers, states[g].subscriptions)
<1>1. /\ Types /\ PhasesOK /\ DOMAIN states = Gens /\ (current # 0 => current \in Gens)
      /\ (lease # 0 => lease \in Gens) /\ \A g \in Gens : states[g] \in States
  BY Shapes DEF IInv
<1>2. ASSUME NEW g \in Gens, states' = [states EXCEPT ![g].phase = "closing", ![g].timer = FALSE] PROVE Moved
  BY <1>1, <1>2, Unloading
<1>3. ASSUME NEW g \in Gens, TimerFires(g) PROVE UNCHANGED states \/ Moved
  <2>1. CASE current # 0 /\ Unloads(current)
    BY <2>1, <1>1, <1>2 DEF Unloads
  <2>2. CASE Becomes(g, states[g].phase, states[g].turn, states[g].holds, states[g].subscribers, states[g].subscriptions)
    <3>1. states[g].phase \in {"none", "reading", "open", "closing", "closed"}
      BY <1>1 DEF States
    <3> QED
      BY <2>2, <3>1
  <2> QED
    BY <2>1, <2>2, <1>1, <1>3, Timers
<1>4. ASSUME NEW g \in Gens, NEW p \in {"reading", "closed"}, states' = [states EXCEPT ![g].phase = p] PROVE Moved
  BY <1>1, <1>4, Loading
<1>5. ASSUME NEW c \in Conns, Archive(c) \/ Start(c) PROVE Moved
  <2>1. CASE Archive(c)
    BY <2>1, <1>1, <1>2 DEF Archive, Unloads
  <2>2. CASE Start(c)
    <3>1. 1 \in Gens /\ states' = [states EXCEPT ![1].phase = "reading"]
      BY <2>2 DEF Start
    <3> QED
      BY <3>1, <1>4
  <2> QED
    BY <1>5, <2>1, <2>2
<1>6. LoadAcquires => Moved
  BY <1>4 DEF LoadAcquires
<1>7. ASSUME LoadFails PROVE UNCHANGED states \/ Moved
  <2>1. loading = "reads" => lease \in Gens
    BY <1>1 DEF PhasesOK
  <2>2. UNCHANGED states \/ (loading = "reads" /\ states' = [states EXCEPT ![lease].phase = "closed"])
    BY <1>7 DEF LoadFails
  <2> QED
    BY <2>1, <2>2, <1>4
<1>8. ASSUME LoadReturns PROVE Moved
  <2>1. lease \in Gens
    BY <1>8, <1>1 DEF LoadReturns, PhasesOK
  <2> QED
    BY <2>1, <1>1, <1>8, LoadEnds
<1>9. ASSUME PoolClose PROVE UNCHANGED states \/ Moved
  <2>1. CASE current = 0
    BY <2>1, <1>9 DEF PoolClose
  <2>2. CASE current # 0
    <3>1. states' = [states EXCEPT ![current].phase = "closing", ![current].timer = FALSE]
      BY <2>2, <1>9 DEF PoolClose
    <3> QED
      BY <3>1, <2>2, <1>1, <1>2
  <2> QED
    BY <2>1, <2>2
<1>10. ASSUME NEW c \in Conns, Release(c) \/ Unsubscribe(c)
       PROVE  \/ UNCHANGED states
              \/ current # 0 /\ states' = [states EXCEPT ![current] = Detached(@, c)]
  <2>1. CASE Release(c)
    BY <2>1 DEF Release
  <2>2. CASE Unsubscribe(c)
    BY <2>2 DEF Unsubscribe
  <2> QED
    BY <1>10, <2>1, <2>2
<1> HIDE DEF Moved
<1>11. \/ UNCHANGED states \/ Moved
       \/ \E g \in Gens : StateClosed(g) \/ TurnEnds(g) \/ Publish(g)
       \/ \E c \in Conns : Resumed(c) \/ Holds(c) \/ OperationEnds(c) \/ Registered(c)
       \/ \E c \in Conns : Release(c) \/ Unsubscribe(c)
  BY <1>3, <1>5, <1>6, <1>7, <1>8, <1>9, Actions
<1> QED
  BY <1>10, <1>11 DEF Moved

\* What entries has, what is resumed and what is held for the first time is
\* open.
LEMMA OpenOnly ==
  ASSUME IInv
  PROVE  /\ current # 0 => current \in Gens /\ states[current].phase = "open"
         /\ \A c \in Conns : Resumed(c) \/ Holds(c) => call[c].gen \in Gens /\ states[call[c].gen].phase = "open"
         /\ \A c \in Conns : OperationEnds(c) =>
              call[c].gen \in Gens /\ states[call[c].gen].phase \in {"open", "closing", "closed"}
<1>1. PhasesOK /\ (current # 0 => current \in Gens)
  BY Shapes DEF IInv
<1>2. \A c \in Conns : Resumed(c) \/ Holds(c) => call[c].gen \in Gens /\ call[c].gen = current
  BY Quietly
<1>3. \A c \in Conns : OperationEnds(c) =>
        call[c].gen \in Gens /\ states[call[c].gen].phase \in {"open", "closing", "closed"}
  BY DEF IInv, CallOK, OperationEnds
<1> QED
  BY <1>1, <1>2, <1>3 DEF PhasesOK

\* A turn begins in an open state.
LEMMA TurnsStep ==
  ASSUME IInv, Next, NEW g \in Gens
  PROVE  states'[g].turn => states[g].turn \/ states[g].phase = "open"
<1>1. /\ Types /\ PhasesOK
      /\ \A h \in Gens : ToSet(states[h].subscribers) \subseteq states[h].subscriptions
  BY DEF IInv, SubscribedOK
<1>2. ASSUME NEW k \in Gens, NEW phase, NEW turn, NEW holds, NEW subscribers, NEW subscriptions,
             Becomes(k, phase, turn, holds, subscribers, subscriptions),
             turn => states[k].turn \/ states[k].phase = "open"
      PROVE  states'[g].turn => states[g].turn \/ states[g].phase = "open"
  <2>1. states'[k].turn = turn /\ \A h \in Gens \ {k} : states'[h] = states[h]
    BY <1>1, <1>2, BecomesMeans
  <2> QED
    BY <2>1, <1>2
<1>3. ASSUME NEW k \in Gens, StateClosed(k) \/ TurnEnds(k) \/ Publish(k)
      PROVE  states'[g].turn => states[g].turn \/ states[g].phase = "open"
  BY <1>1, <1>2, <1>3, ClosingState, EndingTurn, Publishing
<1>4. ASSUME NEW c \in Conns, Resumed(c) \/ Holds(c) \/ OperationEnds(c)
      PROVE  states'[g].turn => states[g].turn \/ states[g].phase = "open"
  <2> DEFINE k == call[c].gen
  <2>1. k \in Gens /\ (OperationEnds(c) => states[k].holds - 1 \in Nat)
    BY <1>4, Quietly
  <2>2. CASE Resumed(c)
    <3>1. Subscribe(c, k)
      BY <2>2 DEF Resumed
    <3> HIDE DEF k
    <3>2. PICK q \in Seq(Conns) :
            Becomes(k, states[k].phase, states[k].turn, states[k].holds, q, states[k].subscriptions \cup {c})
      BY <3>1, <2>1, <1>1, Subscribing
    <3> QED
      BY <3>2, <2>1, <1>2
  <2>3. CASE Holds(c)
    <3>1. Becomes(k, states[k].phase, states[k].turn, states[k].holds + 1, states[k].subscribers, states[k].subscriptions)
      BY <2>1, <2>3, <1>1, Holding
    <3> QED
      BY <3>1, <2>1, <1>2
  <2>4. CASE OperationEnds(c)
    <3>1. PICK b \in BOOLEAN :
               /\ Becomes(k, states[k].phase, b, states[k].holds - 1, states[k].subscribers, states[k].subscriptions)
               /\ b => states[k].turn \/ states[k].phase = "open"
      BY <2>1, <2>4, <1>1, EndingOperation
    <3> QED
      BY <3>1, <2>1, <1>2
  <2> QED
    BY <1>4, <2>2, <2>3, <2>4
<1>5. ASSUME NEW c \in Conns, Registered(c)
      PROVE  states'[g].turn => states[g].turn \/ states[g].phase = "open"
  <2>1. 1 \in Gens
    BY <1>5, Quietly
  <2> QED
    BY <2>1, <1>1, <1>2, <1>5, Registering
<1>6. ASSUME NEW c \in Conns, current # 0, states' = [states EXCEPT ![current] = Detached(@, c)]
      PROVE  states'[g].turn => states[g].turn \/ states[g].phase = "open"
  <2>1. current \in Gens
    BY <1>6, OpenOnly
  <2>2. PICK q \in Seq(Conns) :
          Becomes(current, states[current].phase, states[current].turn, states[current].holds, q,
                  states[current].subscriptions \ {c})
    BY <2>1, <1>1, <1>6, Leaving
  <2> QED
    BY <2>1, <2>2, <1>2
<1> QED
  BY <1>2, <1>3, <1>4, <1>5, <1>6, Fields

\* The steps that change who holds a generation.
LEMMA HoldersStep ==
  ASSUME IInv, Next, NEW g \in Gens
  PROVE  /\ (\A c \in Conns : ~Holds(c) /\ ~OperationEnds(c)) => Holders(g)' = Holders(g)
         /\ \A c \in Conns : Holds(c) =>
              /\ call[c].kind = "operates"
              /\ Holders(g)' = IF g = call[c].gen THEN Holders(g) \cup {c} ELSE Holders(g)
         /\ \A c \in Conns : OperationEnds(c) =>
              /\ call[c].kind = "holds"
              /\ Holders(g)' = IF g = call[c].gen THEN Holders(g) \ {c} ELSE Holders(g)
<1>1. DOMAIN call = Conns
  BY Shapes DEF IInv
<1>2. ASSUME NEW c \in Conns, Holds(c)
      PROVE  /\ call[c].kind = "operates"
             /\ Holders(g)' = IF g = call[c].gen THEN Holders(g) \cup {c} ELSE Holders(g)
  <2>1. call[c].kind = "operates" /\ call' = [call EXCEPT ![c] = [kind |-> "holds", gen |-> call[c].gen]]
    BY <1>2 DEF Holds, Calls, Go
  <2>2. \A d \in Conns : d # c => call'[d] = call[d]
    BY <2>1, <1>1
  <2>3. call'[c].kind = "holds" /\ call'[c].gen = call[c].gen
    BY <2>1, <1>1
  <2> QED
    BY <2>1, <2>2, <2>3 DEF Holders, Calls
<1>3. ASSUME NEW c \in Conns, OperationEnds(c)
      PROVE  /\ call[c].kind = "holds"
             /\ Holders(g)' = IF g = call[c].gen THEN Holders(g) \ {c} ELSE Holders(g)
  <2>1. call[c].kind = "holds" /\ call' = [call EXCEPT ![c] = [kind |-> "none", gen |-> 0]]
    BY <1>3 DEF OperationEnds, Calls, Go
  <2>2. \A d \in Conns : d # c => call'[d] = call[d]
    BY <2>1, <1>1
  <2>3. call'[c].kind = "none"
    BY <2>1, <1>1
  <2> QED
    BY <2>1, <2>2, <2>3 DEF Holders, Calls
<1>4. ASSUME \A c \in Conns : ~Holds(c) /\ ~OperationEnds(c)
      PROVE  Holders(g)' = Holders(g)
  <2>1. ASSUME NEW c \in Conns, NEW k \in {"none", "awaits resume", "awaits operation", "resumes", "operates", "starts"},
               NEW h, call' = [call EXCEPT ![c] = [kind |-> k, gen |-> h]], call[c].kind # "holds"
        PROVE  Holders(g)' = Holders(g)
    <3>1. \A d \in Conns : d # c => call'[d] = call[d]
      BY <2>1, <1>1
    <3>2. call'[c].kind # "holds"
      BY <2>1, <1>1
    <3> QED
      BY <3>1, <3>2, <2>1 DEF Holders, Calls
  <2>2. UNCHANGED call => Holders(g)' = Holders(g)
    BY DEF Holders, Calls
  <2>3. ASSUME NEW c \in Conns, Resumed(c) \/ Registered(c)
        PROVE  call[c].kind # "holds" /\ call' = [call EXCEPT ![c] = [kind |-> "none", gen |-> 0]]
    BY <2>3 DEF Resumed, Registered, Calls, Go
  <2>4. ASSUME NEW c \in Conns, Start(c)
        PROVE  call[c].kind # "holds" /\ call' = [call EXCEPT ![c] = [kind |-> "starts", gen |-> 1]]
    BY <2>4 DEF Start, Free, Calls, Go
  <2>5. ASSUME Abandon PROVE Holders(g)' = Holders(g)
    <3>1. \A d \in Conns : call'[d] = IF call[d].kind \in {"awaits resume", "awaits operation"}
                                      THEN [kind |-> "none", gen |-> 0] ELSE call[d]
      BY <2>5 DEF Abandon, Waiting
    <3>2. ASSUME NEW d \in Conns PROVE call'[d] = call[d] \/ (call[d].kind # "holds" /\ call'[d].kind # "holds")
      <4>1. CASE call[d].kind \in {"awaits resume", "awaits operation"}
        <5>1. call'[d] = [kind |-> "none", gen |-> 0]
          BY <3>1, <4>1
        <5>2. call'[d].kind = "none"
          BY <5>1
        <5>3. call[d].kind # "holds"
          BY <4>1
        <5> QED
          BY <5>2, <5>3
      <4> QED
        BY <3>1, <4>1
    <3> QED
      BY <3>2 DEF Holders, Calls
  <2>6. ASSUME LoadReturns PROVE Holders(g)' = Holders(g)
    <3>1. \A d \in Conns :
            \/ call[d].kind = "awaits resume" /\ call'[d] = [kind |-> "resumes", gen |-> lease]
            \/ call[d].kind = "awaits operation" /\ call'[d] = [kind |-> "operates", gen |-> lease]
            \/ call'[d] = call[d]
      BY <2>6, LoadAnswers
    <3>2. ASSUME NEW d \in Conns PROVE call'[d] = call[d] \/ (call[d].kind # "holds" /\ call'[d].kind # "holds")
      <4>1. call'[d] = [kind |-> "resumes", gen |-> lease] => call'[d].kind = "resumes"
        OBVIOUS
      <4>2. call'[d] = [kind |-> "operates", gen |-> lease] => call'[d].kind = "operates"
        OBVIOUS
      <4> QED
        BY <3>1, <4>1, <4>2
    <3> QED
      BY <3>2 DEF Holders, Calls
  <2>7. \A c \in Conns : Free(c) => call[c].kind # "holds"
    BY DEF Free, Calls
  <2> QED
    BY <2>1, <2>2, <2>3, <2>4, <2>5, <2>6, <2>7, <1>4, CallMoves
<1> QED
  BY <1>2, <1>3, <1>4

\* The holds of a generation are the handlers that hold it.
LEMMA HoldsStep ==
  ASSUME IInv, Next, NEW g \in Gens
  PROVE  states'[g].holds = Cardinality(Holders(g)')
<1>1. /\ Types /\ PhasesOK /\ DOMAIN call = Conns
      /\ \A h \in Gens : ToSet(states[h].subscribers) \subseteq states[h].subscriptions
      /\ \A h \in Gens : states[h].holds = Cardinality(Holders(h)) /\ states[h].holds \in Nat
      /\ \A h \in Gens : IsFiniteSet(Holders(h))
  <2>1. \A h \in Gens : IsFiniteSet(Holders(h))
    BY ConnsAssumption, FS_Subset DEF Holders
  <2> QED
    BY <2>1, Shapes DEF IInv, SubscribedOK, StateOK, States
<1>2. ASSUME NEW c \in Conns, Holds(c)
      PROVE  states'[g].holds = Cardinality(Holders(g)')
  <2> DEFINE k == call[c].gen
  <2>1. k \in Gens /\ call[c].kind = "operates"
    BY <1>2, Quietly DEF Holds, Calls
  <2>2. states'[k].holds = states[k].holds + 1 /\ \A h \in Gens \ {k} : states'[h] = states[h]
    <3>1. Becomes(k, states[k].phase, states[k].turn, states[k].holds + 1, states[k].subscribers, states[k].subscriptions)
      BY <2>1, <1>1, <1>2, Holding
    <3> HIDE DEF k
    <3> QED
      BY <3>1, <2>1, <1>1, BecomesMeans
  <2>3. Holders(g)' = IF g = k THEN Holders(g) \cup {c} ELSE Holders(g)
    BY <1>2, HoldersStep
  <2> HIDE DEF k
  <2>4. c \notin Holders(g)
    BY <2>1 DEF Holders, Calls
  <2>5. Cardinality(Holders(g) \cup {c}) = Cardinality(Holders(g)) + 1
    BY <2>4, <1>1, FS_AddElement
  <2> QED
    BY <2>2, <2>3, <2>5, <1>1
<1>3. ASSUME NEW c \in Conns, OperationEnds(c)
      PROVE  states'[g].holds = Cardinality(Holders(g)')
  <2> DEFINE k == call[c].gen
  <2>1. k \in Gens /\ states[k].holds - 1 \in Nat /\ call[c].kind = "holds"
    BY <1>3, Quietly DEF OperationEnds, Calls
  <2>2. states'[k].holds = states[k].holds - 1 /\ \A h \in Gens \ {k} : states'[h] = states[h]
    <3>1. PICK b \in BOOLEAN :
            Becomes(k, states[k].phase, b, states[k].holds - 1, states[k].subscribers, states[k].subscriptions)
      BY <2>1, <1>1, <1>3, EndingOperation
    <3> HIDE DEF k
    <3> QED
      BY <3>1, <2>1, <1>1, BecomesMeans
  <2>3. Holders(g)' = IF g = k THEN Holders(g) \ {c} ELSE Holders(g)
    BY <1>3, HoldersStep
  <2>4. c \in Holders(k)
    BY <2>1 DEF Holders, Calls
  <2> HIDE DEF k
  <2>5. Cardinality(Holders(k) \ {c}) = Cardinality(Holders(k)) - 1
    BY <2>1, <2>4, <1>1, FS_RemoveElement
  <2> QED
    BY <2>1, <2>2, <2>3, <2>5, <1>1
<1>4. (\A c \in Conns : ~Holds(c) /\ ~OperationEnds(c)) => Holders(g)' = Holders(g)
  BY HoldersStep
<1>5. ASSUME \A c \in Conns : ~Holds(c) /\ ~OperationEnds(c)
      PROVE  states'[g].holds = states[g].holds
  <2>1. ASSUME NEW k \in Gens, NEW phase, NEW turn, NEW subscribers, NEW subscriptions,
               Becomes(k, phase, turn, states[k].holds, subscribers, subscriptions)
        PROVE  states'[g].holds = states[g].holds
    <3>1. states'[k].holds = states[k].holds /\ \A h \in Gens \ {k} : states'[h] = states[h]
      BY <1>1, <2>1, BecomesMeans
    <3> QED
      BY <3>1
  <2>2. ASSUME NEW k \in Gens, StateClosed(k) \/ TurnEnds(k) \/ Publish(k)
        PROVE  states'[g].holds = states[g].holds
    BY <1>1, <2>1, <2>2, ClosingState, EndingTurn, Publishing
  <2>3. ASSUME NEW c \in Conns, Resumed(c)
        PROVE  states'[g].holds = states[g].holds
    <3> DEFINE k == call[c].gen
    <3>1. k \in Gens /\ Subscribe(c, k)
      BY <2>3, Quietly DEF Resumed
    <3> HIDE DEF k
    <3>2. PICK q \in Seq(Conns) :
            Becomes(k, states[k].phase, states[k].turn, states[k].holds, q, states[k].subscriptions \cup {c})
      BY <3>1, <1>1, Subscribing
    <3> QED
      BY <3>1, <3>2, <2>1
  <2>4. ASSUME NEW c \in Conns, Registered(c)
        PROVE  states'[g].holds = states[g].holds
    <3>1. 1 \in Gens /\ states[1].phase = "reading"
      BY <2>4, Quietly
    <3>2. Holders(1) = {}
      BY <3>1 DEF IInv, CallOK, Holders
    <3>3. states[1].holds = 0
      BY <3>1, <3>2, <1>1, FS_EmptySet
    <3>4. Becomes(1, "open", FALSE, states[1].holds, <<c>>, {c})
      BY <3>3, <1>1, <2>4, Registering
    <3> QED
      BY <3>1, <3>4, <2>1
  <2>5. ASSUME NEW c \in Conns, current # 0, states' = [states EXCEPT ![current] = Detached(@, c)]
        PROVE  states'[g].holds = states[g].holds
    <3>1. current \in Gens
      BY <2>5, OpenOnly
    <3>2. PICK q \in Seq(Conns) :
            Becomes(current, states[current].phase, states[current].turn, states[current].holds, q,
                    states[current].subscriptions \ {c})
      BY <3>1, <1>1, <2>5, Leaving
    <3> QED
      BY <3>1, <3>2, <2>1
  <2> QED
    BY <2>1, <2>2, <2>3, <2>4, <2>5, <1>5, Fields
<1> QED
  BY <1>1, <1>2, <1>3, <1>4, <1>5

\* A request becomes pending while a turn runs.
LEMMA PendingStep ==
  ASSUME IInv, Next, NEW g \in Gens, ~states[g].turn
  PROVE  Pending(g)' \subseteq Pending(g)
<1>1. /\ DOMAIN request = Requests /\ \A r \in Requests : request[r] \in Asked /\ request[r].ask \in Asks
      /\ Open \subseteq Conns /\ \A h \in Gens : states[h] \in States
  BY Shapes DEF IInv
<1> SUFFICES ASSUME NEW r \in Requests, request'[r].gen = g, request'[r].phase = "pending"
             PROVE  request[r].gen = g /\ request[r].phase = "pending"
  BY DEF Pending
<1>2. ASSUME NEW q \in Asked, NEW a \in Asks, request'[r] = Dispatched(q, a), q.gen = request[r].gen, q.phase = request[r].phase
      PROVE  request[r].gen = g /\ request[r].phase = "pending"
  BY <1>2, DispatchedIs
<1>3. ASSUME request'[r] # request[r], NEW k \in Gens, StateClosed(k)
      PROVE  request[r].gen = g /\ request[r].phase = "pending"
  BY <1>1, <1>3 DEF StateClosed, Pending
<1>4. ASSUME request'[r] # request[r], NEW d \in Requests, Cancel(d)
      PROVE  request[r].gen = g /\ request[r].phase = "pending"
  BY <1>1, <1>4 DEF Cancel, Asked
<1>5. ASSUME request'[r] # request[r], NEW d \in Requests, NEW k \in Gens, Create(k, d)
      PROVE  request[r].gen = g /\ request[r].phase = "pending"
  <2> DEFINE q == [request[d] EXCEPT !.phase = "pending", !.gen = k]
  <2>1. r = d /\ states[k].turn
    BY <1>1, <1>5 DEF Create
  <2>2. request'[d] = IF Candidates(states[k], {}) = <<>> THEN q
                      ELSE Dispatched(q, Dispatch(states[k], NotAsked, Open))
    BY <1>1, <1>5 DEF Create
  <2>3. q \in Asked /\ q.gen = k
    <3>1. k \in 0..MaxGen
      BY MaxGenAssumption DEF Gens
    <3> QED
      BY <3>1, <1>1 DEF Asked
  <2>4. Dispatch(states[k], NotAsked, Open) \in Asks
    <3>1. NotAsked \in Asks
      BY DEF NotAsked, Asks
    <3> QED
      BY <3>1, <1>1, Dispatches
  <2> HIDE DEF q
  <2>5. request'[d].gen = k
    BY <2>2, <2>3, <2>4, DispatchedIs
  <2> QED
    BY <2>1, <2>5
<1>6. ASSUME request'[r] # request[r], NEW d \in Requests, Answer(d)
      PROVE  request[r].gen = g /\ request[r].phase = "pending"
  <2> DEFINE a == request[d].ask
             b == [a EXCEPT !.failed = TRUE]
             q == [request[d] EXCEPT !.refused = TRUE]
  <2>1. r = d
    BY <1>1, <1>6 DEF Answer
  <2>2. /\ request[d] \in Asked /\ a \in Asks /\ request[d].gen \in Gens
    <3>1. a.conn # Nobody /\ a \in Asks /\ request[d] \in Asked
      BY <1>6, AskedFacts DEF Answer
    <3> QED
      BY <3>1, AskedFacts DEF Asks
  <2>3. CASE request'[d] = [request[d] EXCEPT !.phase = IF @ = "pending" THEN "resolved" ELSE @, !.ask = NotAsked]
    BY <2>1, <2>2, <2>3 DEF Asked
  <2>4. CASE request'[d] = Dispatched(q, Dispatch(states[request[d].gen], b, Open))
    <3>1. q \in Asked /\ q.gen = request[d].gen /\ q.phase = request[d].phase /\ b \in Asks
      BY <2>2 DEF Asked, Asks
    <3> HIDE DEF q, b
    <3>2. Dispatch(states[request[d].gen], b, Open) \in Asks
      BY <3>1, <2>2, <1>1, Dispatches
    <3> QED
      BY <2>1, <2>4, <3>1, <3>2, <1>2
  <2> QED
    BY <2>3, <2>4, <1>1, <1>6 DEF Answer
<1>7. ASSUME request'[r] # request[r], NEW c \in Conns, Close(c)
      PROVE  request[r].gen = g /\ request[r].phase = "pending"
  <2>1. /\ request[r].ask.conn = c
        /\ request'[r] = Dispatched(request[r], Dispatch(states[request[r].gen], request[r].ask, Open \ {c}))
    BY <1>7 DEF Close
  <2>2. request[r].gen \in Gens
    BY <2>1, AskedFacts
  <2>3. Dispatch(states[request[r].gen], request[r].ask, Open \ {c}) \in Asks
    BY <2>2, <1>1, Dispatches
  <2> QED
    BY <2>1, <2>3, <1>1, <1>2
<1>8. ASSUME request'[r] # request[r], NEW c \in Conns, Resumed(c)
      PROVE  request[r].gen = g /\ request[r].phase = "pending"
  <2> DEFINE k == call[c].gen
             s == Attached(states[k], c)
  <2>1. k \in Gens /\ request' = Redispatched(s, c, k)
    BY <1>8, Quietly DEF Resumed, Subscribe
  <2>2. s \in States
    BY <2>1, <1>1, Attaches DEF IInv, Types, SubscribedOK
  <2>3. NotAsked \in Asks
    BY DEF NotAsked, Asks
  <2> HIDE DEF s, k
  <2>4. Dispatch(s, NotAsked, Open) \in Asks
    BY <2>2, <2>3, <1>1, Dispatches
  <2>5. \/ request'[r] = Dispatched(request[r], Dispatch(s, NotAsked, Open))
        \/ request'[r] = [request[r] EXCEPT !.ask.tried = @ \ {c}]
    BY <2>1, <1>8 DEF Redispatched
  <2>6. CASE request'[r] = [request[r] EXCEPT !.ask.tried = @ \ {c}]
    <3>1. request'[r].gen = request[r].gen /\ request'[r].phase = request[r].phase
      BY <2>6, <1>1 DEF Asked
    <3> QED
      BY <3>1
  <2> QED
    BY <2>4, <2>5, <2>6, <1>1, <1>2
<1>9. \/ request'[r] = request[r]
      \/ \E c \in Conns : Resumed(c) \/ Close(c)
      \/ \E k \in Gens : StateClosed(k)
      \/ \E d \in Requests : Answer(d) \/ Cancel(d) \/ \E k \in Gens : Create(k, d)
  BY RequestMoves
<1> QED
  BY <1>3, <1>4, <1>5, <1>6, <1>7, <1>8, <1>9

\* Nobody is subscribed to a generation that is not loaded yet.
LEMMA FreshStep ==
  ASSUME IInv, Next, NEW g \in Gens, states'[g].phase \in {"none", "reading"}
  PROVE  /\ states[g].phase \in {"none", "reading"}
         /\ states'[g].subscribers = <<>> /\ states'[g].subscriptions = {}
<1>1. states[g].phase \in {"none", "reading"}
  <2>1. states[g] \in States
    BY Shapes DEF IInv
  <2> QED
    BY <2>1, PlacesStep DEF States
<1>2. /\ Types /\ states[g].subscribers = <<>> /\ states[g].subscriptions = {}
      /\ \A h \in Gens : ToSet(states[h].subscribers) \subseteq states[h].subscriptions
  BY <1>1 DEF IInv, StateOK, SubscribedOK
<1>3. ASSUME NEW k \in Gens, NEW phase, NEW turn, NEW holds, NEW subscribers, NEW subscriptions,
             Becomes(k, phase, turn, holds, subscribers, subscriptions), k # g
      PROVE  states'[g] = states[g]
  BY <1>2, <1>3, BecomesMeans
<1>4. CASE UNCHANGED states
  BY <1>2, <1>4
<1>5. ASSUME NEW k \in Gens, NEW p,
             Becomes(k, p, states[k].turn, states[k].holds, states[k].subscribers, states[k].subscriptions)
      PROVE  states'[g].subscribers = <<>> /\ states'[g].subscriptions = {}
  BY <1>2, <1>3, <1>5, BecomesMeans
<1>6. ASSUME NEW k \in Gens, StateClosed(k) \/ TurnEnds(k) \/ Publish(k)
      PROVE  states'[g] = states[g]
  <2>1. k # g
    BY <1>1, <1>6 DEF StateClosed, TurnEnds, Publish, Alive
  <2> QED
    BY <2>1, <1>2, <1>3, <1>6, ClosingState, EndingTurn, Publishing
<1>7. ASSUME NEW c \in Conns, Resumed(c) \/ Holds(c) \/ OperationEnds(c)
      PROVE  states'[g] = states[g]
  <2> DEFINE k == call[c].gen
  <2>1. k \in Gens /\ k # g /\ (OperationEnds(c) => states[k].holds - 1 \in Nat)
    BY <1>1, <1>7, OpenOnly, Quietly
  <2>2. CASE Resumed(c)
    <3>1. Subscribe(c, k)
      BY <2>2 DEF Resumed
    <3> HIDE DEF k
    <3>2. PICK q \in Seq(Conns) :
            Becomes(k, states[k].phase, states[k].turn, states[k].holds, q, states[k].subscriptions \cup {c})
      BY <3>1, <2>1, <1>2, Subscribing
    <3> QED
      BY <3>2, <2>1, <1>3
  <2>3. CASE Holds(c)
    <3>1. Becomes(k, states[k].phase, states[k].turn, states[k].holds + 1, states[k].subscribers, states[k].subscriptions)
      BY <2>1, <2>3, <1>2, Holding
    <3> QED
      BY <3>1, <2>1, <1>3
  <2>4. CASE OperationEnds(c)
    <3>1. PICK b \in BOOLEAN :
            Becomes(k, states[k].phase, b, states[k].holds - 1, states[k].subscribers, states[k].subscriptions)
      BY <2>1, <2>4, <1>2, EndingOperation
    <3> QED
      BY <3>1, <2>1, <1>3
  <2> QED
    BY <1>7, <2>2, <2>3, <2>4
<1>8. ASSUME NEW c \in Conns, Registered(c)
      PROVE  states'[g] = states[g]
  <2>1. 1 \in Gens /\ Becomes(1, "open", FALSE, 0, <<c>>, {c})
    BY <1>2, <1>8, Quietly, Registering
  <2>2. states'[1].phase = "open"
    BY <2>1, <1>2, BecomesMeans
  <2> QED
    BY <2>1, <2>2, <1>3
<1>9. ASSUME NEW c \in Conns, current # 0, states' = [states EXCEPT ![current] = Detached(@, c)]
      PROVE  states'[g] = states[g]
  <2>1. current \in Gens /\ current # g
    BY <1>1, <1>9, OpenOnly
  <2>2. PICK q \in Seq(Conns) :
          Becomes(current, states[current].phase, states[current].turn, states[current].holds, q,
                  states[current].subscriptions \ {c})
    BY <2>1, <1>2, <1>9, Leaving
  <2> QED
    BY <2>1, <2>2, <1>3
<1> QED
  BY <1>1, <1>2, <1>4, <1>5, <1>6, <1>7, <1>8, <1>9, Fields

\* Unless the Server stops, the entry leaves only when it is not busy.
LEMMA LeavesFor ==
  ASSUME IInv, Next, current # 0, current' = 0, ~closing'
  PROVE  Unloads(current) /\ UNCHANGED request
<1>1. ASSUME NEW c \in Conns, Resumed(c) \/ Holds(c) \/ OperationEnds(c) \/ Registered(c)
                   \/ Release(c) \/ Start(c) \/ Unsubscribe(c) \/ Resume(c) \/ Operate(c) \/ Close(c)
      PROVE  current' # 0
  <2>1. Resumed(c) \/ Holds(c) \/ OperationEnds(c) => UNCHANGED current
    BY DEF Resumed, Holds, OperationEnds
  <2>2. Registered(c) => current' # 0
    BY DEF Registered
  <2>3. Release(c) \/ Start(c) \/ Unsubscribe(c) => UNCHANGED current
    BY DEF Release, Start, Unsubscribe
  <2>4. Resume(c) \/ Operate(c) \/ Close(c) => UNCHANGED current
    BY DEF Resume, Operate, Close
  <2> QED
    BY <1>1, <2>1, <2>2, <2>3, <2>4
<1>2. ASSUME NEW c \in Conns, Archive(c) PROVE Unloads(current) /\ UNCHANGED request
  BY <1>2 DEF Archive
<1>3. ASSUME NEW g \in Gens, TimerFires(g) PROVE Unloads(current) /\ UNCHANGED request
  BY <1>3 DEF TimerFires
<1>4. ASSUME NEW g \in Gens, StateClosed(g) \/ StateSticks(g) \/ TurnEnds(g) \/ Publish(g) PROVE UNCHANGED current
  BY <1>4 DEF StateClosed, StateSticks, TurnEnds, Publish
<1>5. ASSUME NEW r \in Requests, Answer(r) \/ Cancel(r) \/ \E g \in Gens : Create(g, r) PROVE UNCHANGED current
  BY <1>5 DEF Answer, Cancel, Create
<1>6. LoadAcquires \/ LoadFails => UNCHANGED current
  BY DEF LoadAcquires, LoadFails
<1>7. LoadReturns => current' # 0
  BY DEF LoadReturns, IInv, PhasesOK
<1>8. ~PoolClose
  BY DEF PoolClose
<1> QED
  BY <1>1, <1>2, <1>3, <1>4, <1>5, <1>6, <1>7, <1>8 DEF Next, Work

\* What leaves has nothing to do, and gets nothing to do.
LEMMA UnloadedStep ==
  ASSUME IInv, Next, NEW g \in Gens, states'[g].phase \in {"closing", "closed"}, ~closing'
  PROVE  states'[g].holds = 0 /\ ~states'[g].turn /\ Pending(g)' = {}
<1>1. /\ Types /\ PhasesOK /\ StateOK(g) /\ states[g] \in States /\ states'[g].turn \in BOOLEAN
      /\ states[g].holds = Cardinality(Holders(g)) /\ IsFiniteSet(Holders(g))
  <2>1. IsFiniteSet(Holders(g))
    BY ConnsAssumption, FS_Subset DEF Holders
  <2>2. states'[g].turn \in BOOLEAN
    BY StatesStep DEF States
  <2> QED
    BY <2>1, <2>2, Shapes DEF IInv, StateOK
<1>2. ~closing
  <2>1. closing' = closing \/ closing' = TRUE
    <3>1. ASSUME NEW c \in Conns, Archive(c) \/ Resumed(c) \/ Holds(c) \/ OperationEnds(c) \/ Registered(c)
                         \/ Release(c) \/ Start(c) \/ Unsubscribe(c) \/ Resume(c) \/ Operate(c) \/ Close(c)
          PROVE  UNCHANGED closing
      <4>1. Archive(c) \/ Resumed(c) \/ Holds(c) => UNCHANGED closing
        BY DEF Archive, Resumed, Holds
      <4>2. OperationEnds(c) \/ Registered(c) => UNCHANGED closing
        BY DEF OperationEnds, Registered
      <4>3. Release(c) \/ Start(c) \/ Unsubscribe(c) => UNCHANGED closing
        BY DEF Release, Start, Unsubscribe
      <4>4. Resume(c) \/ Operate(c) \/ Close(c) => UNCHANGED closing
        BY DEF Resume, Operate, Close
      <4> QED
        BY <3>1, <4>1, <4>2, <4>3, <4>4
    <3>2. ASSUME NEW k \in Gens, TimerFires(k) \/ StateClosed(k) \/ StateSticks(k) \/ TurnEnds(k) \/ Publish(k)
          PROVE  UNCHANGED closing
      BY <3>2 DEF TimerFires, StateClosed, StateSticks, TurnEnds, Publish
    <3>3. ASSUME NEW r \in Requests, Answer(r) \/ Cancel(r) \/ \E k \in Gens : Create(k, r) PROVE UNCHANGED closing
      BY <3>3 DEF Answer, Cancel, Create
    <3>4. LoadAcquires \/ LoadFails \/ LoadReturns => UNCHANGED closing
      BY DEF LoadAcquires, LoadFails, LoadReturns
    <3>5. PoolClose => closing' = TRUE
      BY DEF PoolClose
    <3> QED
      BY <3>1, <3>2, <3>3, <3>4, <3>5 DEF Next, Work
  <2> QED
    BY <2>1
<1>3. states[g].phase # "none"
  <2> SUFFICES ASSUME states[g].phase = "none" PROVE FALSE
    OBVIOUS
  <2>1. current # 0 => current # g
    BY OpenOnly
  <2>2. lease # 0 => lease # g
    BY <1>1, Shapes DEF PhasesOK
  <2>3. loading = "reads" => lease # 0
    BY <1>1 DEF PhasesOK
  <2> QED
    BY <2>1, <2>2, <2>3, Moves DEF Stays, Leaves, Closes, Reads, Abandons, Opens, PhaseIs
<1>4. states[g].phase # "open" => states[g].holds = 0 /\ ~states[g].turn /\ Pending(g) = {}
  <2>1. CASE states[g].phase = "reading"
    <3>1. Holders(g) = {}
      BY <2>1 DEF IInv, CallOK, Holders
    <3> QED
      BY <3>1, <2>1, <1>1, FS_EmptySet DEF StateOK
  <2> QED
    BY <2>1, <1>1, <1>2, <1>3 DEF StateOK, States
<1>5. CASE states[g].phase = "open"
  <2>1. current = g /\ lease = g
    BY <1>1, <1>5 DEF PhasesOK
  <2>2. current' = 0 /\ current # 0
    <3>1. loading = "reads" => states[lease].phase = "reading"
      BY <1>1 DEF PhasesOK
    <3>2. g # 0
      BY Shapes DEF IInv
    <3> QED
      BY <2>1, <3>1, <3>2, <1>5, Moves DEF Stays, Leaves, Closes, Reads, Abandons, Opens, PhaseIs
  <2>3. Unloads(current) /\ UNCHANGED request
    BY <2>2, LeavesFor
  <2>4. states[g].holds = 0 /\ ~states[g].turn /\ Pending(g) = {}
    BY <2>1, <2>3, <1>1 DEF Unloads, Busy, States
  <2>5. states'[g].holds = 0 /\ ~states'[g].turn
    <3>1. Becomes(g, "closing", states[g].turn, states[g].holds, states[g].subscribers, states[g].subscriptions)
      BY <2>1, <2>3, <1>1, Unloading DEF Unloads
    <3> QED
      BY <3>1, <2>4, <1>1, BecomesMeans
  <2> QED
    BY <2>3, <2>4, <2>5 DEF Pending
<1>6. CASE states[g].phase # "open"
  <2>1. Holders(g) = {}
    BY <1>1, <1>4, <1>6, FS_EmptySet
  <2>2. states'[g].holds = 0
    <3>1. \A c \in Conns : Holds(c) => call[c].gen # g
      BY <1>6, OpenOnly
    <3>2. Holders(g)' = {}
      BY <2>1, <3>1, HoldersStep
    <3> QED
      BY <3>2, HoldsStep, FS_EmptySet
  <2>3. ~states'[g].turn
    BY <1>1, <1>4, <1>6, TurnsStep
  <2>4. Pending(g)' = {}
    BY <1>4, <1>6, PendingStep
  <2> QED
    BY <2>2, <2>3, <2>4
<1> QED
  BY <1>5, <1>6

\* Every step keeps what is said of a generation's work.
LEMMA StatesKeep ==
  ASSUME IInv, Next, NEW g \in Gens
  PROVE  StateOK(g)'
<1>1. states'[g].holds = Cardinality(Holders(g)')
  BY HoldsStep
<1>2. ASSUME states'[g].phase \in {"none", "reading"}
      PROVE  /\ ~states'[g].turn /\ states'[g].subscribers = <<>> /\ states'[g].subscriptions = {}
             /\ Pending(g)' = {}
  <2>1. /\ states[g].phase \in {"none", "reading"}
        /\ states'[g].subscribers = <<>> /\ states'[g].subscriptions = {}
    BY <1>2, FreshStep
  <2>2. ~states[g].turn /\ Pending(g) = {}
    BY <2>1 DEF IInv, StateOK
  <2> QED
    BY <2>1, <2>2, TurnsStep, PendingStep
<1>3. states'[g].phase \in {"closing", "closed"} /\ ~closing' =>
        states'[g].holds = 0 /\ ~states'[g].turn /\ Pending(g)' = {}
  BY UnloadedStep
<1> QED
  BY <1>1, <1>2, <1>3 DEF StateOK

\* A connection closes for good, is released by Release only, and causes stay.
LEMMA ConnMoves ==
  ASSUME IInv, Next
  PROVE  /\ conn' \in [Conns -> {"open", "closed", "released"}] /\ closing' \in BOOLEAN /\ stuck' \in BOOLEAN
         /\ loading' \in {"no", "acquires", "reads"} /\ causes' \subseteq {"lateAttach", "lateTurn"}
         /\ causes \subseteq causes'
         /\ \A c \in Conns : /\ conn'[c] = "open" => conn[c] = "open"
                             /\ conn'[c] = "released" => conn[c] = "released" \/ Release(c)
<1> DEFINE Goal ==
         /\ conn' \in [Conns -> {"open", "closed", "released"}] /\ closing' \in BOOLEAN /\ stuck' \in BOOLEAN
         /\ loading' \in {"no", "acquires", "reads"} /\ causes' \subseteq {"lateAttach", "lateTurn"}
         /\ causes \subseteq causes'
         /\ \A c \in Conns : /\ conn'[c] = "open" => conn[c] = "open"
                             /\ conn'[c] = "released" => conn[c] = "released" \/ Release(c)
<1>1. /\ conn \in [Conns -> {"open", "closed", "released"}] /\ closing \in BOOLEAN /\ stuck \in BOOLEAN
      /\ loading \in {"no", "acquires", "reads"} /\ causes \subseteq {"lateAttach", "lateTurn"}
  BY DEF IInv, Types
<1>2. UNCHANGED <<conn, closing, stuck, loading, causes>> => Goal
  BY <1>1
<1>3. ASSUME UNCHANGED <<conn, closing, stuck, causes>>, loading' \in {"no", "acquires", "reads"} PROVE Goal
  BY <1>1, <1>3
<1>4. ASSUME UNCHANGED <<conn, closing, stuck>>, loading' \in {"no", "acquires", "reads"},
             causes \subseteq causes', causes' \subseteq causes \cup {"lateAttach", "lateTurn"} PROVE Goal
  BY <1>1, <1>4
<1>5. ASSUME NEW c \in Conns, Close(c) PROVE Goal
  BY <1>1, <1>5 DEF Close
<1>6. ASSUME NEW c \in Conns, Release(c) PROVE Goal
  <2>1. UNCHANGED <<closing, stuck, causes, loading>> /\ conn' = [conn EXCEPT ![c] = "released"]
    BY <1>6 DEF Release
  <2> QED
    BY <2>1, <1>1, <1>6
<1>7. ASSUME PoolClose PROVE Goal
  BY <1>1, <1>7 DEF PoolClose
<1> HIDE DEF Goal
<1>8. ASSUME NEW c \in Conns, Resume(c) \/ Operate(c) PROVE Goal
  BY <1>1, <1>3, <1>8 DEF Resume, Operate, Load
<1>9. ASSUME NEW c \in Conns, Start(c) \/ Unsubscribe(c) \/ Archive(c) \/ Holds(c) \/ OperationEnds(c) PROVE Goal
  <2>1. Start(c) \/ Unsubscribe(c) \/ Archive(c) => UNCHANGED <<conn, closing, stuck, loading, causes>>
    BY DEF Start, Unsubscribe, Archive
  <2>2. Holds(c) => UNCHANGED <<conn, closing, stuck, loading, causes>>
    BY DEF Holds
  <2>3. ASSUME OperationEnds(c) PROVE Goal
    <3>1. UNCHANGED <<conn, closing, stuck, loading>> /\ causes' \in {causes, causes \cup {"lateTurn"}}
      BY <2>3 DEF OperationEnds
    <3> QED
      BY <3>1, <1>1, <1>4
  <2> QED
    BY <2>1, <2>2, <2>3, <1>2, <1>9
<1>10. ASSUME NEW c \in Conns, Resumed(c) PROVE Goal
  BY <1>1, <1>4, <1>10 DEF Resumed, Subscribe
<1>11. ASSUME NEW c \in Conns, Registered(c) PROVE Goal
  <2>1. UNCHANGED <<conn, closing, stuck, loading>> /\ causes' \in {causes, causes \cup {"lateAttach"}}
    BY <1>11 DEF Registered
  <2> QED
    BY <2>1, <1>1, <1>4
<1>12. ASSUME NEW g \in Gens, TimerFires(g) \/ StateClosed(g) \/ TurnEnds(g) \/ Publish(g) PROVE Goal
  BY <1>2, <1>12 DEF TimerFires, StateClosed, TurnEnds, Publish
<1>17. ASSUME NEW g \in Gens, StateSticks(g) PROVE Goal
  BY <1>1, <1>17 DEF StateSticks, Goal
<1>13. ASSUME NEW r \in Requests, Answer(r) \/ Cancel(r) \/ \E g \in Gens : Create(g, r) PROVE Goal
  BY <1>2, <1>13 DEF Answer, Cancel, Create
<1>14. LoadAcquires \/ LoadFails => Goal
  BY <1>3 DEF LoadAcquires, LoadFails
<1>15. ASSUME LoadReturns PROVE Goal
  BY <1>1, <1>4, <1>15 DEF LoadReturns
<1>16. Goal
  BY <1>5, <1>6, <1>7, <1>8, <1>9, <1>10, <1>11, <1>12, <1>13, <1>14, <1>15, <1>17 DEF Next, Work
<1> QED
  BY <1>16 DEF Goal

\* What is said of subscribers that the step leaves alone still holds.
LEMMA SubscribedKept ==
  ASSUME IInv, Next, NEW g \in Gens,
         states'[g].subscribers = states[g].subscribers, states'[g].subscriptions = states[g].subscriptions,
         \A c \in states[g].subscriptions : g = current => ~Release(c)
  PROVE  SubscribedOK(g)'
<1>1. SubscribedOK(g) /\ states[g].subscriptions \subseteq Conns
  BY Shapes DEF IInv, States
<1>2. ToSet(states'[g].subscribers) \subseteq states'[g].subscriptions
  BY <1>1 DEF SubscribedOK
<1>3. ASSUME g = current', NEW c \in states'[g].subscriptions
      PROVE  /\ conn'[c] = "open" => c \in ToSet(states'[g].subscribers)
             /\ "lateAttach" \notin causes' => conn'[c] # "released"
  <2>1. CASE g = current
    BY <2>1, <1>1, <1>3, ConnMoves DEF SubscribedOK
  <2>2. CASE g # current
    <3>1. g # 0
      BY Shapes DEF IInv
    <3>2. states[g].phase = "reading"
      BY <3>1, <2>2, <1>3, Moves DEF Stays, Leaves, Closes, Reads, Abandons, Opens
    <3>3. states[g].subscriptions = {}
      BY <3>2 DEF IInv, StateOK
    <3> QED
      BY <3>3, <1>3
  <2> QED
    BY <2>1, <2>2
<1> QED
  BY <1>2, <1>3 DEF SubscribedOK, ToSet

\* Every step keeps what is said of the subscribers.
LEMMA SubscribedStep ==
  ASSUME IInv, Next, NEW g \in Gens
  PROVE  SubscribedOK(g)'
<1>1. /\ Types /\ PhasesOK /\ SubscribedOK(g) /\ DOMAIN conn = Conns /\ 0 \notin Gens /\ DOMAIN states = Gens
      /\ \A h \in Gens : /\ ToSet(states[h].subscribers) \subseteq states[h].subscriptions
                        /\ states[h] \in States /\ states[h].subscriptions \subseteq Conns
  BY Shapes DEF IInv, SubscribedOK, States
<1>2. ASSUME ToSet(states'[g].subscribers) \subseteq states'[g].subscriptions,
             g = current' => \A c \in states'[g].subscriptions :
               /\ conn'[c] = "open" => c \in ToSet(states'[g].subscribers)
               /\ "lateAttach" \notin causes' => conn'[c] # "released"
      PROVE  SubscribedOK(g)'
  BY <1>2 DEF SubscribedOK, ToSet
<1>3. ASSUME NEW c \in Conns, current # 0, states' = [states EXCEPT ![current] = Detached(@, c)], UNCHANGED current,
             \A d \in Conns \ {c} : ~Release(d)
      PROVE  SubscribedOK(g)'
  <2>1. current \in Gens
    BY <1>3, OpenOnly
  <2>2. PICK q \in Seq(Conns) :
           /\ Becomes(current, states[current].phase, states[current].turn, states[current].holds, q,
                      states[current].subscriptions \ {c})
           /\ ToSet(q) = ToSet(states[current].subscribers) \ {c}
    BY <2>1, <1>1, <1>3, Leaving
  <2>3. /\ states'[current].subscribers = q /\ states'[current].subscriptions = states[current].subscriptions \ {c}
        /\ \A h \in Gens \ {current} : states'[h] = states[h]
    BY <2>1, <2>2, <1>1, BecomesMeans
  <2>4. CASE g # current
    BY <2>3, <2>4, SubscribedKept
  <2>5. CASE g = current
    <3>1. ToSet(states'[g].subscribers) \subseteq states'[g].subscriptions
      BY <2>2, <2>3, <2>5, <1>1
    <3>2. ASSUME NEW d \in states'[g].subscriptions
          PROVE  /\ conn'[d] = "open" => d \in ToSet(states'[g].subscribers)
                 /\ "lateAttach" \notin causes' => conn'[d] # "released"
      <4>1. d \in states[g].subscriptions /\ d # c /\ d \in Conns
        BY <2>3, <2>5, <1>1
      <4>2. /\ conn'[d] = "open" => conn[d] = "open"
            /\ conn'[d] = "released" => conn[d] = "released"
            /\ causes \subseteq causes'
        BY <4>1, <1>3, ConnMoves
      <4> QED
        BY <4>1, <4>2, <2>2, <2>3, <2>5, <1>1 DEF SubscribedOK
    <3> QED
      BY <3>1, <3>2, <1>2
  <2> QED
    BY <2>4, <2>5
<1>4. ASSUME NEW c \in Conns, Release(c)
      PROVE  SubscribedOK(g)'
  <2>1. /\ conn' = [conn EXCEPT ![c] = "released"] /\ conn[c] = "closed" /\ UNCHANGED current
        /\ states' = IF current = 0 THEN states ELSE [states EXCEPT ![current] = Detached(@, c)]
    BY <1>4 DEF Release
  <2>2. CASE current = 0
    BY <2>1, <2>2, <1>1, SubscribedKept
  <2>3. CASE current # 0
    <3>1. \A d \in Conns \ {c} : ~Release(d)
      <4> SUFFICES ASSUME NEW d \in Conns \ {c}, Release(d) PROVE FALSE
        OBVIOUS
      <4>1. conn[d] = "closed" /\ conn' = [conn EXCEPT ![d] = "released"]
        BY DEF Release
      <4> QED
        BY <4>1, <2>1, <1>1
    <3> QED
      BY <3>1, <2>1, <2>3, <1>3
  <2> QED
    BY <2>2, <2>3
<1>5. ASSUME \A c \in Conns : ~Release(c), NEW k \in Gens, NEW phase, NEW turn, NEW holds,
             Becomes(k, phase, turn, holds, states[k].subscribers, states[k].subscriptions)
      PROVE  SubscribedOK(g)'
  <2>1. /\ states'[k].subscribers = states[k].subscribers /\ states'[k].subscriptions = states[k].subscriptions
        /\ \A h \in Gens \ {k} : states'[h] = states[h]
    BY <1>1, <1>5, BecomesMeans
  <2> QED
    BY <2>1, <1>1, <1>5, SubscribedKept
<1>6. ASSUME \A c \in Conns : ~Release(c), states'[g] = states[g]
      PROVE  SubscribedOK(g)'
  BY <1>1, <1>6, SubscribedKept
<1>7. ASSUME \A c \in Conns : ~Release(c), NEW k \in Gens, StateClosed(k)
      PROVE  SubscribedOK(g)'
  <2> DEFINE q == <<>>
             turn == FALSE
  <2>1. Becomes(k, "closed", turn, states[k].holds, q, states[k].subscriptions)
    BY <1>1, <1>7, ClosingState
  <2> HIDE DEF q, turn
  <2>2. /\ states'[k].subscribers = q /\ \A h \in Gens \ {k} : states'[h] = states[h]
    BY <2>1, <1>1, BecomesMeans
  <2>3. CASE g = k
    <3>1. current' # g
      BY <2>3, <1>1, <1>7, OpenOnly DEF StateClosed
    <3>2. ToSet(q) = {}
      BY DEF ToSet, q
    <3> QED
      BY <3>1, <3>2, <2>2, <2>3, <1>2
  <2> QED
    BY <2>2, <2>3, <1>6, <1>7
<1>8. ASSUME \A c \in Conns : ~Release(c), NEW k \in Gens, Publish(k)
      PROVE  SubscribedOK(g)'
  <2> DEFINE q == Kept(states[k].subscribers, Open)
  <2>1. Becomes(k, states[k].phase, states[k].turn, states[k].holds, q, states[k].subscriptions)
    BY <1>1, <1>8, Publishing
  <2>2. ToSet(q) = ToSet(states[k].subscribers) \cap Open
    <3>1. states[k].subscribers \in Seq(Conns)
      BY <1>1 DEF States
    <3> QED
      BY <3>1, KeptIs
  <2> HIDE DEF q
  <2>3. /\ states'[k].subscribers = q /\ states'[k].subscriptions = states[k].subscriptions
        /\ \A h \in Gens \ {k} : states'[h] = states[h]
    BY <2>1, <1>1, BecomesMeans
  <2>4. CASE g = k
    <3>1. UNCHANGED <<current, conn, causes>>
      BY <1>8 DEF Publish
    <3>2. ToSet(states'[g].subscribers) \subseteq states'[g].subscriptions
      BY <2>2, <2>3, <2>4, <1>1
    <3>3. ASSUME g = current, NEW c \in states'[g].subscriptions
          PROVE  /\ conn[c] = "open" => c \in ToSet(states'[g].subscribers)
                 /\ "lateAttach" \notin causes => conn[c] # "released"
      BY <2>2, <2>3, <2>4, <3>3, <1>1 DEF SubscribedOK, Open
    <3> QED
      BY <3>1, <3>2, <3>3, <1>2
  <2> QED
    BY <2>3, <2>4, <1>6, <1>8
<1>9. ASSUME \A c \in Conns : ~Release(c), NEW k \in Gens, TurnEnds(k)
      PROVE  SubscribedOK(g)'
  BY <1>1, <1>5, <1>9, EndingTurn
<1>10. ASSUME \A c \in Conns : ~Release(c), NEW c \in Conns, Holds(c)
       PROVE  SubscribedOK(g)'
  <2> DEFINE k == call[c].gen
  <2>1. k \in Gens
    BY <1>10, OpenOnly
  <2>2. Becomes(k, states[k].phase, states[k].turn, states[k].holds + 1, states[k].subscribers, states[k].subscriptions)
    BY <2>1, <1>1, <1>10, Holding
  <2> HIDE DEF k
  <2> QED
    BY <2>1, <2>2, <1>5, <1>10
<1>11. ASSUME \A c \in Conns : ~Release(c), NEW c \in Conns, OperationEnds(c)
       PROVE  SubscribedOK(g)'
  <2> DEFINE k == call[c].gen
  <2>1. k \in Gens /\ states[k].holds - 1 \in Nat
    BY <1>11, Quietly
  <2>2. PICK b \in BOOLEAN :
          Becomes(k, states[k].phase, b, states[k].holds - 1, states[k].subscribers, states[k].subscriptions)
    BY <2>1, <1>1, <1>11, EndingOperation
  <2> HIDE DEF k
  <2> QED
    BY <2>1, <2>2, <1>5, <1>11
<1>12. ASSUME \A c \in Conns : ~Release(c), NEW c \in Conns, Registered(c)
       PROVE  SubscribedOK(g)'
  <2> DEFINE q == <<c>>
             turn == FALSE
  <2>1. 1 \in Gens /\ Becomes(1, "open", turn, 0, q, {c})
    BY <1>1, <1>12, Quietly, Registering
  <2> HIDE DEF q, turn
  <2>2. /\ states'[1].subscribers = q /\ states'[1].subscriptions = {c}
        /\ \A h \in Gens \ {1} : states'[h] = states[h]
    BY <2>1, <1>1, BecomesMeans
  <2>3. CASE g = 1
    <3>1. ToSet(q) = {c}
      BY DEF ToSet, q
    <3>2. conn' = conn /\ (conn[c] = "released" => "lateAttach" \in causes')
      BY <1>12 DEF Registered
    <3> QED
      BY <3>1, <3>2, <2>2, <2>3, <1>2
  <2> QED
    BY <2>2, <2>3, <1>6, <1>12
<1>13. ASSUME \A c \in Conns : ~Release(c), NEW c \in Conns, Resumed(c)
       PROVE  SubscribedOK(g)'
  <2> DEFINE k == call[c].gen
  <2>1. k \in Gens /\ k = current /\ Subscribe(c, k) /\ UNCHANGED <<current, conn>>
    BY <1>13, Quietly DEF Resumed
  <2>2. causes \subseteq causes' /\ (conn[c] = "released" => "lateAttach" \in causes')
    BY <2>1 DEF Subscribe
  <2> HIDE DEF k
  <2>3. PICK q \in Seq(Conns) :
           /\ Becomes(k, states[k].phase, states[k].turn, states[k].holds, q, states[k].subscriptions \cup {c})
           /\ ToSet(states[k].subscribers) \subseteq ToSet(q) /\ ToSet(q) \subseteq states[k].subscriptions \cup {c}
           /\ c \notin states[k].subscriptions => c \in ToSet(q)
    BY <2>1, <1>1, Subscribing
  <2>4. /\ states'[k].subscribers = q /\ states'[k].subscriptions = states[k].subscriptions \cup {c}
        /\ \A h \in Gens \ {k} : states'[h] = states[h]
    BY <2>1, <2>3, <1>1, BecomesMeans
  <2>5. CASE g = k
    <3>1. ASSUME NEW d \in states'[g].subscriptions
          PROVE  /\ conn[d] = "open" => d \in ToSet(states'[g].subscribers)
                 /\ "lateAttach" \notin causes' => conn[d] # "released"
      BY <2>1, <2>2, <2>3, <2>4, <2>5, <1>1 DEF SubscribedOK
    <3> QED
      BY <3>1, <2>1, <2>3, <2>4, <2>5, <1>2
  <2> QED
    BY <2>4, <2>5, <1>6, <1>13
<1>14. ASSUME \A c \in Conns : ~Release(c), NEW c \in Conns, Unsubscribe(c)
       PROVE  SubscribedOK(g)'
  <2>1. current # 0 /\ states' = [states EXCEPT ![current] = Detached(@, c)] /\ UNCHANGED current
    BY <1>14 DEF Unsubscribe
  <2> QED
    BY <2>1, <1>3, <1>14
<1>15. ASSUME \A c \in Conns : ~Release(c), UNCHANGED states
       PROVE  SubscribedOK(g)'
  BY <1>6, <1>15
<1> QED
  BY <1>4, <1>5, <1>7, <1>8, <1>9, <1>10, <1>11, <1>12, <1>13, <1>14, <1>15, Fields

\* The invariant holds at the start.
LEMMA InitOK ==
  ASSUME Init
  PROVE  IInv
<1>1. /\ MaxGen \in Nat /\ 0 \in 0..MaxGen /\ 0 \notin Gens /\ Nobody \notin Conns
  BY MaxGenAssumption, ControllersAssumption DEF Gens
<1>2. /\ current = 0 /\ lease = 0 /\ loading = "no" /\ closing = FALSE /\ stuck = FALSE /\ causes = {}
      /\ states = [g \in Gens |-> NoState]
      /\ conn = [c \in Conns |-> "open"]
      /\ call = [c \in Conns |-> [kind |-> "none", gen |-> 0]]
      /\ request = [r \in Requests |-> [phase |-> "none", gen |-> 0, ask |-> NotAsked, refused |-> FALSE]]
  BY DEF Init
<1>3. /\ NoState \in States /\ NoState.phase = "none" /\ NoState.subscribers = <<>> /\ NoState.turn = FALSE
      /\ NoState.subscriptions = {} /\ NoState.holds = 0
  BY DEF NoState, States
<1>4. NotAsked \in Asks /\ NotAsked.conn = Nobody /\ NotAsked.tried = {}
  BY DEF NotAsked, Asks
<1>5. IsInjective(<<>>) /\ ToSet(<<>>) = {}
  BY DEF IsInjective, ToSet
<1>6. Types
  <2>1. states \in [Gens -> States] /\ \A g \in Gens : IsInjective(states[g].subscribers)
    <3> HIDE DEF NoState
    <3> QED
      BY <1>2, <1>3, <1>5
  <2>2. call \in [Conns -> Handlers]
    <3>1. [kind |-> "none", gen |-> 0] \in Handlers
      BY <1>1 DEF Handlers
    <3> QED
      BY <3>1, <1>2
  <2>3. request \in [Requests -> Asked]
    <3>1. [phase |-> "none", gen |-> 0, ask |-> NotAsked, refused |-> FALSE] \in Asked
      BY <1>1, <1>4 DEF Asked
    <3> QED
      BY <3>1, <1>2
  <2>4. conn \in [Conns -> {"open", "closed", "released"}]
    BY <1>2
  <2> QED
    BY <2>1, <2>2, <2>3, <2>4, <1>1, <1>2 DEF Types
<1>7. PhasesOK
  <2>1. Used = 1..0
    <3>1. 1..0 = {}
      OBVIOUS
    <3> QED
      BY <3>1, <1>2, <1>3 DEF Used
  <2> QED
    BY <2>1, <1>1, <1>2, <1>3 DEF PhasesOK
<1>8. \A c \in Conns : call[c].kind = "none"
  BY <1>2
<1>9. \A c \in Conns : CallOK(c)
  BY <1>8 DEF CallOK, Calls
<1>10. \A r \in Requests : /\ request[r].phase = "none" /\ request[r].ask = NotAsked
  BY <1>2
<1>11. ASSUME NEW g \in Gens PROVE StateOK(g) /\ SubscribedOK(g)
  <2>1. states[g] = NoState
    BY <1>2
  <2>2. Holders(g) = {} /\ Pending(g) = {}
    BY <1>8, <1>10 DEF Holders, Calls, Pending
  <2>3. Cardinality(Holders(g)) = 0
    BY <2>2, FS_EmptySet
  <2> QED
    BY <2>1, <2>2, <2>3, <1>3, <1>5 DEF StateOK, SubscribedOK
<1>12. \A r \in Requests : RequestOK(r)
  BY <1>1, <1>2, <1>4, <1>10 DEF RequestOK, AskOK
<1> QED
  BY <1>6, <1>7, <1>9, <1>11, <1>12 DEF IInv

\* Every step keeps the invariant.
LEMMA InvStep ==
  ASSUME IInv, [Next]_vars
  PROVE  IInv'
<1>1. CASE Next
  <2>1. states' \in [Gens -> States] /\ \A g \in Gens : IsInjective(states'[g].subscribers)
    BY <1>1, StatesStep
  <2>2. request' \in [Requests -> Asked] /\ \A r \in Requests : RequestOK(r)'
    BY <1>1, RequestsStep
  <2>3. call' \in [Conns -> Handlers] /\ \A c \in Conns : CallOK(c)'
    BY <1>1, CallsStep
  <2>4. PhasesOK' /\ current' \in 0..MaxGen /\ lease' \in 0..MaxGen
    BY <1>1, PhasesStep, PlacesStep
  <2>5. \A g \in Gens : StateOK(g)' /\ SubscribedOK(g)'
    BY <1>1, StatesKeep, SubscribedStep
  <2>6. Types'
    BY <2>1, <2>2, <2>3, <2>4, <1>1, ConnMoves DEF Types
  <2> QED
    BY <2>2, <2>3, <2>4, <2>5, <2>6 DEF IInv
<1>2. CASE UNCHANGED vars
  <2>1. Types' /\ PhasesOK'
    BY <1>2 DEF vars, IInv, Types, PhasesOK, Used
  <2>2. ASSUME NEW c \in Conns PROVE CallOK(c)'
    <3>1. CallOK(c)
      BY DEF IInv
    <3> QED
      BY <3>1, <1>2 DEF vars, CallOK, Calls
  <2>3. ASSUME NEW g \in Gens PROVE StateOK(g)' /\ SubscribedOK(g)'
    <3>1. StateOK(g) /\ SubscribedOK(g)
      BY DEF IInv
    <3>2. Holders(g)' = Holders(g) /\ Pending(g)' = Pending(g)
      BY <1>2 DEF vars, Holders, Calls, Pending
    <3>3. StateOK(g)'
      BY <3>1, <3>2, <1>2 DEF vars, StateOK
    <3>4. SubscribedOK(g)'
      BY <3>1, <1>2 DEF vars, SubscribedOK
    <3> QED
      BY <3>3, <3>4
  <2>4. ASSUME NEW r \in Requests PROVE RequestOK(r)'
    <3>1. RequestOK(r)
      BY DEF IInv
    <3> QED
      BY <3>1, <1>2 DEF vars, RequestOK, AskOK, WaitOK, Open
  <2> QED
    BY <2>1, <2>2, <2>3, <2>4 DEF IInv
<1> QED
  BY <1>1, <1>2

\* The invariant holds in every state the pool reaches (state.ts,
\* createThreadPool and createThreadState).
THEOREM Invariance == Spec => []IInv
<1>1. Init => IInv
  BY InitOK
<1>2. IInv /\ [Next]_vars => IInv'
  BY InvStep
<1> QED
  BY <1>1, <1>2, PTL DEF Spec

\* Every variable has its type; a state has no more holds than there are
\* connections (withState).
THEOREM TypeCorrect == Spec => []TypeOK
<1>1. ASSUME IInv PROVE TypeOK
  <2>1. Types
    BY <1>1 DEF IInv
  <2>2. ASSUME NEW g \in Gens PROVE states[g].holds \in 0..Cardinality(Conns)
    <3>1. Holders(g) \subseteq Conns
      BY DEF Holders
    <3>2. /\ Cardinality(Holders(g)) \in Nat /\ Cardinality(Conns) \in Nat
          /\ Cardinality(Holders(g)) <= Cardinality(Conns)
      BY <3>1, ConnsAssumption, FS_Subset, FS_CardinalityType
    <3> QED
      BY <3>2, <1>1 DEF IInv, StateOK
  <2> DEFINE S == [phase : {"none", "reading", "open", "closing", "closed"},
                   subscribers : Seq(Conns), turn : BOOLEAN, subscriptions : SUBSET Conns,
                   holds : 0..Cardinality(Conns), timer : BOOLEAN]
  <2>3. states \in [Gens -> S]
    <3>1. \A g \in Gens : states[g] \in S
      BY <2>1, <2>2 DEF Types, States
    <3> HIDE DEF S
    <3> QED
      BY <3>1, <2>1 DEF Types
  <2>4. request \in [Requests -> [phase : {"none", "pending", "resolved", "rejected", "over"},
                               gen : 0..MaxGen, refused : BOOLEAN,
                               ask : [conn : Conns \cup {Nobody}, tried : SUBSET Conns,
                                      failed : BOOLEAN]]]
    BY <2>1 DEF Types, Asked, Asks
  <2> QED
    BY <2>1, <2>3, <2>4 DEF TypeOK, Types, Handlers
<1> QED
  BY <1>1, Invariance, PTL

\* What entries has is an open state that holds the thread's lease: no handler
\* is given one that closes (loadOnce, unloadNow).
THEOREM LoadedIsOpenAlways == Spec => []LoadedIsOpen
<1>1. ASSUME IInv PROVE LoadedIsOpen
  <2>1. PhasesOK /\ (current # 0 => current \in Gens)
    BY <1>1, Shapes DEF IInv
  <2> QED
    BY <2>1 DEF PhasesOK, LoadedIsOpen
<1> QED
  BY <1>1, Invariance, PTL

\* Unless the Server stops, no state closes under an operation, a turn or a
\* request (unloadNow's checks).
THEOREM BusyNeverUnloaded == Spec => []BusyIsNotUnloaded
<1>1. ASSUME IInv PROVE BusyIsNotUnloaded
  <2> SUFFICES ASSUME NEW g \in Gens, states[g].phase \in {"closing", "closed"}, ~closing
               PROVE  /\ \A c \in Conns : call[c].gen = g => ~Calls(c, "holds")
                      /\ ~states[g].turn /\ Pending(g) = {}
    BY DEF BusyIsNotUnloaded
  <2>1. ~states[g].turn /\ Pending(g) = {} /\ Cardinality(Holders(g)) = 0
    BY <1>1 DEF IInv, StateOK
  <2>2. Holders(g) = {}
    <3>1. IsFiniteSet(Holders(g))
      BY ConnsAssumption, FS_Subset DEF Holders
    <3> QED
      BY <3>1, <2>1, FS_EmptySet
  <2> QED
    BY <2>1, <2>2 DEF Holders
<1> QED
  BY <1>1, Invariance, PTL

\* The pool's subscriptions and the state's subscribers name the same open
\* connections (attach, unsubscribe, publish).
THEOREM SubscribersAlwaysAgree == Spec => []SubscribersAgree
<1>1. ASSUME IInv PROVE SubscribersAgree
  <2>1. current # 0 => current \in Gens
    BY <1>1, Shapes DEF IInv
  <2> QED
    BY <2>1, <1>1 DEF IInv, SubscribedOK, SubscribersAgree
<1> QED
  BY <1>1, Invariance, PTL

\* A connection that was released is not subscribed, unless its resume ended
\* after the release (releaseConnection).
THEOREM NoneDeadSubscribed == Spec => []NoDeadSubscriber
<1>1. ASSUME IInv PROVE NoDeadSubscriber
  <2>1. current # 0 => current \in Gens
    BY <1>1, Shapes DEF IInv
  <2> QED
    BY <2>1, <1>1 DEF IInv, SubscribedOK, NoDeadSubscriber
<1> QED
  BY <1>1, Invariance, PTL

\* A pending request is asked of an open connection whenever a controller is
\* subscribed (requestWithFailover, subscribe).
THEOREM PendingAlwaysAsked == Spec => []PendingIsAsked
<1>1. ASSUME IInv PROVE PendingIsAsked
  <2> SUFFICES ASSUME current # 0, NEW r \in Pending(current), NEW c \in Controllers,
                      conn[c] = "open", c \in states[current].subscriptions
               PROVE  request[r].ask.conn # Nobody /\ conn[request[r].ask.conn] = "open"
    BY DEF PendingIsAsked
  <2>1. RequestOK(r) /\ request[r].gen = current /\ request[r].phase = "pending" /\ c \in Open
    BY <1>1, ControllersAssumption DEF IInv, Pending, Open
  <2>2. request[r].ask.conn # Nobody
    BY <2>1 DEF RequestOK, WaitOK
  <2>3. request[r].ask.conn \in Open
    BY <2>1, <2>2 DEF RequestOK, AskOK
  <2> QED
    BY <2>2, <2>3 DEF Open
<1> QED
  BY <1>1, Invariance, PTL
================================================================================
