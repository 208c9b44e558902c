------------------------- MODULE ContainersProofs -------------------------
(* Theorems about the two containers: SendContextPool, for any contexts and any *)
(* itemCount, and TimerHeap, for any timers and expiries and so for heaps of    *)
(* every size.                                                                  *)
EXTENDS SendContextPool, TimerHeap,
        FiniteSetTheorems, SequenceTheorems, WellFoundedInduction, TLAPS

-----------------------------------------------------------------------------
(* The free list.                                                               *)

\* The list never has more than one element, which is neither in use nor freed.
Single ==
  \/ free = <<>>
  \/ \E h \in Contexts : free = <<h>> /\ h \notin inUse \cup freed \cup lost

\* The inductive invariant: the four places of a context are disjoint, and count counts
\* the list and the lost.
Places ==
  /\ TypeOK /\ Single /\ LostIsCounted
  /\ inUse \cap freed = {} /\ lost \cap (inUse \cup freed) = {} /\ IsFiniteSet(lost)

LEMMA PlacesInit == Init => Places
  <1>1. IsFiniteSet({}) /\ Cardinality({}) = 0
    BY FS_EmptySet
  <1>. QED
    BY <1>1, ItemCountAssumption DEF Init, Places, TypeOK, Single, LostIsCounted

\* What a list of one element is made of.
LEMMA OneElement ==
  ASSUME NEW h
  PROVE  /\ Head(<<h>>) = h /\ Tail(<<h>>) = <<>> /\ Len(<<h>>) = 1
         /\ {<<h>>[i] : i \in DOMAIN <<h>>} = {h}
  <1>1. Head(<<h>>) = h /\ Len(<<h>>) = 1 /\ DOMAIN <<h>> = {1} /\ <<h>>[1] = h
    OBVIOUS
  <1>2. Tail(<<h>>) = <<>>
    OBVIOUS
  <1>. QED
    BY <1>1, <1>2

LEMMA PlacesKept == Places /\ [Next]_vars => Places'
  <1>. SUFFICES ASSUME Places, [Next]_vars
                PROVE  Places'
    OBVIOUS
  <1>. USE DEF Places
  <1>0. Cardinality(lost) \in Nat
    BY FS_CardinalityType
  <1>1. ASSUME NEW c \in Contexts, GetNew(c)
        PROVE  Places'
    <2>1. free = <<>> /\ free' = free /\ count' = count /\ lost' = lost
      BY <1>1 DEF GetNew
    <2>2. c \notin lost /\ inUse' = inUse \cup {c} /\ freed' = freed \ {c}
      BY <1>1 DEF GetNew
    <2>. QED
      BY <2>1, <2>2 DEF TypeOK, Single, LostIsCounted
  <1>2. ASSUME GetHead
        PROVE  Places'
    <2>1. PICK h \in Contexts : free = <<h>> /\ h \notin inUse \cup freed \cup lost
      BY <1>2 DEF GetHead, Single
    <2>2. free' = <<>> /\ inUse' = inUse \cup {h} /\ freed' = freed /\ lost' = lost
      BY <1>2, <2>1, OneElement DEF GetHead, Rest
    <2>3. count = 1 + Cardinality(lost) /\ count' = count - 1
      BY <1>0, <1>2, <2>1, OneElement DEF GetHead, LostIsCounted
    <2>4. LostIsCounted' /\ count' \in 0 .. itemCount
      BY <1>0, <2>2, <2>3, ItemCountAssumption DEF LostIsCounted, TypeOK
    <2>. QED
      BY <2>1, <2>2, <2>4 DEF TypeOK, Single
  <1>3. ASSUME NEW c \in Contexts, PutBack(c)
        PROVE  Places'
    <2>1. inUse' = inUse \ {c} /\ freed' = freed /\ count' = count + 1 /\ c \in inUse
      BY <1>3 DEF PutBack
    <2>2. count' \in 0 .. itemCount
      BY <1>3, <2>1, ItemCountAssumption DEF PutBack, Room, TypeOK
    <2>3. CASE free = <<>>
      <3>1. free' = <<c>>
        BY <1>3, <2>3 DEF PutBack, Linked
      <3>2. lost' = lost
        BY <1>3, <2>3 DEF PutBack, Listed
      <3>3. Single'
        BY <2>1, <3>1, <3>2 DEF Single
      <3>4. LostIsCounted'
        BY <1>0, <2>1, <2>3, <3>1, <3>2, OneElement DEF LostIsCounted, TypeOK
      <3>. QED
        BY <2>1, <2>2, <3>1, <3>2, <3>3, <3>4 DEF TypeOK
    <2>4. CASE \E h \in Contexts : free = <<h>> /\ h \notin inUse \cup freed \cup lost
      <3>1. PICK h \in Contexts : free = <<h>> /\ h \notin inUse \cup freed \cup lost
        BY <2>4
      <3>2. free' = <<c>>
        BY <1>3, <3>1, OneElement DEF PutBack, Linked
      <3>3. lost' = lost \cup {h}
        <4>1. Listed = {h} /\ {free'[i] : i \in DOMAIN free'} = {c}
          BY <3>1, <3>2, OneElement DEF Listed
        <4>2. h # c
          BY <2>1, <3>1
        <4>. QED
          BY <1>3, <4>1, <4>2 DEF PutBack
      <3>4. IsFiniteSet(lost') /\ Cardinality(lost') = Cardinality(lost) + 1
        BY <3>1, <3>3, FS_AddElement
      <3>5. LostIsCounted'
        BY <1>0, <2>1, <3>1, <3>2, <3>4, OneElement DEF LostIsCounted, TypeOK
      <3>6. Single'
        BY <2>1, <3>1, <3>2, <3>3 DEF Single
      <3>. QED
        BY <2>1, <2>2, <3>1, <3>2, <3>3, <3>4, <3>5, <3>6 DEF TypeOK
    <2>. QED
      BY <2>3, <2>4 DEF Single
  <1>4. ASSUME NEW c \in Contexts, PutFree(c)
        PROVE  Places'
    <2>1. c \in inUse /\ inUse' = inUse \ {c} /\ freed' = freed \cup {c}
      BY <1>4 DEF PutFree
    <2>2. free' = free /\ count' = count /\ lost' = lost
      BY <1>4 DEF PutFree
    <2>. QED
      BY <2>1, <2>2 DEF TypeOK, Single, LostIsCounted
  <1>5. CASE UNCHANGED vars
    BY <1>5 DEF vars, TypeOK, Single, LostIsCounted
  <1>. QED
    BY <1>1, <1>2, <1>3, <1>4, <1>5 DEF Next

THEOREM PlacesCorrect == Spec => []Places
  <1>. QED
    BY PlacesInit, PlacesKept, PTL DEF Spec

\* Type correctness; in particular count stays between 0 and itemCount.
THEOREM TypeCorrect == Spec => []TypeOK
  <1>1. Places => TypeOK
    BY DEF Places
  <1>. QED
    BY <1>1, PlacesCorrect, PTL

\* No context is in two places, however many are got and put (TCPSocket.cpp:63-70, 78-86).
THEOREM NoneInTwoPlaces == Spec => []OnePlace
  <1>1. Places => OnePlace
    <2>. SUFFICES ASSUME Places
                  PROVE  OnePlace
      OBVIOUS
    <2>1. CASE free = <<>>
      BY <2>1 DEF Places, OnePlace, Listed
    <2>2. ASSUME NEW h \in Contexts, free = <<h>>, h \notin inUse \cup freed \cup lost
          PROVE  OnePlace
      <3>1. Listed = {h} /\ DOMAIN free = {1}
        BY <2>2, OneElement DEF Listed
      <3>. QED
        BY <2>2, <3>1 DEF Places, OnePlace
    <2>. QED
      BY <2>1, <2>2 DEF Places, Single
  <1>. QED
    BY <1>1, PlacesCorrect, PTL

\* count is the list and the lost, so that no more than itemCount contexts are lost.
THEOREM LossIsCounted == Spec => []LostIsCounted
  <1>1. Places => LostIsCounted
    BY DEF Places
  <1>. QED
    BY <1>1, PlacesCorrect, PTL

\* The pool loses contexts that it counts, and nothing worse (TCPSocket.cpp:54-86).
THEOREM LossStaysBounded == Spec => []LossIsBounded
  BY NoneInTwoPlaces, LossIsCounted, PTL DEF LossIsBounded

-----------------------------------------------------------------------------
(* Induction over the rounds of a loop.                                        *)

\* What is true of 0, and of n + 1 when it is of n, is true of all: otherwise there were a
\* least number of which it is not.
LEMMA AllNaturals ==
  ASSUME NEW T \in SUBSET Nat, 0 \in T, \A n \in T : n + 1 \in T
  PROVE  T = Nat
  <1> SUFFICES ASSUME Nat \ T # {} PROVE FALSE
    OBVIOUS
  <1>1. IsWellFoundedOn(OpToRel(<, Nat), Nat)
    BY NatLessThanWellFounded
  <1>2. PICK n \in Nat \ T : \A k \in Nat \ T : ~(<<k, n>> \in OpToRel(<, Nat))
    <2>1. Nat \ T \subseteq Nat
      OBVIOUS
    <2>2. QED BY <1>1, <2>1, WFMin, Zenon
  <1>3. \A k \in Nat \ T : ~(k < n)
    BY <1>2, Zenon DEF OpToRel
  <1>4. CASE n = 0
    BY <1>4
  <1>5. CASE n # 0
    <2>1. n - 1 \in Nat /\ n - 1 < n /\ (n - 1) + 1 = n
      BY <1>5
    <2>2. n - 1 \in T
      BY <1>3, <2>1
    <2>3. QED BY <2>1, <2>2
  <1>6. QED BY <1>4, <1>5

\* A loop has a state after every number of rounds.
LEMMA LoopRuns ==
  ASSUME NEW S, NEW round, NEW start \in S, \A s \in S : round[s] \in S
  PROVE  /\ Loop(round, start)[0] = start
         /\ \A n \in Nat : Loop(round, start)[n + 1] = round[Loop(round, start)[n]]
  <1> DEFINE Runs(n) == {g \in [0 .. n -> S] :
                           g[0] = start /\ \A k \in 1 .. n : g[k] = round[g[k - 1]]}
             At0(n) == CHOOSE g \in Runs(n) : TRUE
             f == [n \in Nat |-> At0(n)[n]]
  <1>1. \A n \in Nat : Runs(n) # {}
    <2> DEFINE T == {n \in Nat : Runs(n) # {}}
    <2>1. 0 \in T
      <3>1. [k \in 0 .. 0 |-> start] \in Runs(0)
        OBVIOUS
      <3>2. QED BY <3>1
    <2>2. ASSUME NEW n \in T PROVE n + 1 \in T
      <3>1. PICK g \in Runs(n) : TRUE
        OBVIOUS
      <3> DEFINE h == [k \in 0 .. n + 1 |-> IF k = n + 1 THEN round[g[n]] ELSE g[k]]
      <3>2. n \in Nat /\ g \in [0 .. n -> S] /\ g[0] = start
            /\ \A k \in 1 .. n : g[k] = round[g[k - 1]]
        BY <3>1
      <3>3. h \in [0 .. n + 1 -> S] /\ h[0] = start
        BY <3>2
      <3>4. \A k \in 1 .. n + 1 : h[k] = round[h[k - 1]]
        BY <3>2
      <3>5. h \in Runs(n + 1)
        BY <3>3, <3>4
      <3>6. QED BY <3>2, <3>5
    <2> HIDE DEF Runs
    <2>3. T = Nat
      <3> HIDE DEF T
      <3>1. T \in SUBSET Nat
        BY DEF T
      <3>2. QED BY <2>1, <2>2, <3>1, AllNaturals
    <2>4. QED BY <2>3
  <1>2. \A n \in Nat : \A g, h \in Runs(n) : g[n] = h[n]
    <2> DEFINE T == {n \in Nat : \A g, h \in Runs(n) : g[n] = h[n]}
    <2>1. 0 \in T
      OBVIOUS
    <2>2. ASSUME NEW n \in T PROVE n + 1 \in T
      <3> HIDE DEF Runs
      <3>0. n + 1 \in Nat
        OBVIOUS
      <3> SUFFICES ASSUME NEW g \in Runs(n + 1), NEW h \in Runs(n + 1)
                   PROVE  g[n + 1] = h[n + 1]
        BY <3>0, Zenon
      <3> USE DEF Runs
      <3> DEFINE short(e) == [k \in 0 .. n |-> e[k]]
      <3>1. n \in Nat /\ n + 1 \in 1 .. n + 1 /\ (n + 1) - 1 = n
        OBVIOUS
      <3>2. ASSUME NEW e \in Runs(n + 1) PROVE short(e) \in Runs(n) /\ short(e)[n] = e[n]
        <4>1. e \in [0 .. n + 1 -> S] /\ e[0] = start /\ \A k \in 1 .. n + 1 : e[k] = round[e[k - 1]]
          OBVIOUS
        <4>2. short(e) \in [0 .. n -> S] /\ short(e)[0] = start /\ short(e)[n] = e[n]
          BY <3>1, <4>1
        <4>3. \A k \in 1 .. n : short(e)[k] = round[short(e)[k - 1]]
          BY <3>1, <4>1
        <4>4. QED BY <4>2, <4>3
      <3>3. g[n] = h[n]
        <4> HIDE DEF Runs
        <4>1. short(g) \in Runs(n) /\ short(h) \in Runs(n)
          BY <3>2
        <4>2. \A d, e \in Runs(n) : d[n] = e[n]
          OBVIOUS
        <4>3. short(g)[n] = short(h)[n]
          BY <4>1, <4>2, Zenon
        <4>4. QED BY <3>2, <4>3, Zenon
      <3>4. g[n + 1] = round[g[n]] /\ h[n + 1] = round[h[n]]
        BY <3>1
      <3>5. QED BY <3>3, <3>4
    <2> HIDE DEF Runs
    <2>3. T = Nat
      <3> HIDE DEF T
      <3>1. T \in SUBSET Nat
        BY DEF T
      <3>2. QED BY <2>1, <2>2, <3>1, AllNaturals
    <2>4. QED BY <2>3
  <1>3. \A n \in Nat : At0(n) \in Runs(n)
    BY <1>1
  <1>4. f[0] = start
    <2>1. At0(0)[0] = start
      BY <1>3
    <2>2. QED BY <2>1
  <1>5. ASSUME NEW n \in Nat PROVE f[n + 1] = round[f[n]]
    <2> DEFINE e == At0(n + 1)
               short == [k \in 0 .. n |-> e[k]]
    <2>1. n + 1 \in Nat /\ (n + 1) - 1 = n /\ n + 1 \in 1 .. n + 1
      OBVIOUS
    <2>2. e \in Runs(n + 1)
      BY <1>3, <2>1
    <2> HIDE DEF e, At0
    <2>3. e \in [0 .. n + 1 -> S] /\ e[0] = start /\ \A k \in 1 .. n + 1 : e[k] = round[e[k - 1]]
      BY <2>2
    <2>4. short \in Runs(n) /\ short[n] = e[n]
      <3>1. short \in [0 .. n -> S] /\ short[0] = start /\ short[n] = e[n]
        BY <2>3
      <3>2. \A k \in 1 .. n : short[k] = round[short[k - 1]]
        BY <2>3
      <3>3. QED BY <3>1, <3>2
    <2> HIDE DEF short, Runs
    <2>5. At0(n)[n] = e[n]
      BY <1>2, <1>3, <2>4
    <2>6. e[n + 1] = round[e[n]]
      BY <2>1, <2>3
    <2>7. QED BY <2>1, <2>5, <2>6 DEF e
  <1> HIDE DEF At0
  <1>6. f = [n \in Nat |-> IF n = 0 THEN start ELSE round[f[n - 1]]]
    <2>1. ASSUME NEW n \in Nat PROVE f[n] = IF n = 0 THEN start ELSE round[f[n - 1]]
      <3>1. CASE n = 0
        BY <1>4, <3>1
      <3>2. CASE n # 0
        <4>1. n - 1 \in Nat /\ (n - 1) + 1 = n
          BY <3>2
        <4>2. QED BY <1>5, <3>2, <4>1
      <3>3. QED BY <3>1, <3>2
    <2>2. QED BY <2>1
  <1> HIDE DEF f
  <1>7. Loop(round, start) = CHOOSE at : at = [n \in Nat |-> IF n = 0 THEN start ELSE round[at[n - 1]]]
    BY DEF Loop
  <1>8. Loop(round, start) = [n \in Nat |-> IF n = 0 THEN start ELSE round[Loop(round, start)[n - 1]]]
    BY <1>6, <1>7
  <1> DEFINE L == Loop(round, start)
  <1> HIDE DEF L
  <1>9. L = [n \in Nat |-> IF n = 0 THEN start ELSE round[L[n - 1]]]
    BY <1>8 DEF L
  <1>10. \A n \in Nat : L[n] = IF n = 0 THEN start ELSE round[L[n - 1]]
    BY <1>9
  <1>11. L[0] = start
    BY <1>10
  <1>12. ASSUME NEW n \in Nat PROVE L[n + 1] = round[L[n]]
    <2>1. n + 1 \in Nat /\ n + 1 # 0 /\ (n + 1) - 1 = n
      OBVIOUS
    <2>2. QED BY <1>10, <2>1
  <1>13. QED BY <1>11, <1>12 DEF L

\* What every round keeps is kept by the loop, and a loop whose rounds lower a number, unless
\* they change nothing, has come to rest after as many rounds.
LEMMA LoopRests ==
  ASSUME NEW I, NEW round, NEW start \in I, \A s \in I : round[s] \in I,
         NEW m \in [I -> Nat], \A s \in I : round[s] = s \/ m[round[s]] < m[s],
         NEW n \in Nat, n >= m[start]
  PROVE  Loop(round, start)[n] \in I /\ round[Loop(round, start)[n]] = Loop(round, start)[n]
  <1> DEFINE L == Loop(round, start)
  <1> DEFINE T == {k \in Nat : L[k] \in I /\ (round[L[k]] = L[k] \/ m[L[k]] + k <= m[start])}
  <1>0. L[0] = start /\ \A k \in Nat : L[k + 1] = round[L[k]]
    BY LoopRuns
  <1> HIDE DEF L
  <1>1. 0 \in T
    BY <1>0
  <1>2. ASSUME NEW k \in T PROVE k + 1 \in T
    <2>1. k \in Nat /\ k + 1 \in Nat /\ L[k] \in I /\ L[k + 1] = round[L[k]] /\ L[k + 1] \in I
      BY <1>0
    <2>2. CASE round[L[k]] = L[k]
      BY <2>1, <2>2
    <2>3. CASE round[L[k]] # L[k]
      <3>1. m[L[k + 1]] < m[L[k]] /\ m[L[k]] + k <= m[start]
        BY <2>1, <2>3
      <3>2. m[L[k + 1]] \in Nat /\ m[L[k]] \in Nat /\ m[start] \in Nat
        BY <2>1
      <3>3. m[L[k + 1]] + (k + 1) <= m[start]
        BY <2>1, <3>1, <3>2
      <3>4. QED BY <2>1, <3>3
    <2>4. QED BY <2>2, <2>3
  <1>3. T = Nat
    <2> HIDE DEF T
    <2>1. T \in SUBSET Nat
      BY DEF T
    <2>2. QED BY <1>1, <1>2, <2>1, AllNaturals
  <1>4. L[n] \in I /\ (round[L[n]] = L[n] \/ m[L[n]] + n <= m[start])
    BY <1>3
  <1>5. CASE round[L[n]] # L[n]
    <2>1. m[round[L[n]]] < m[L[n]] /\ m[L[n]] + n <= m[start]
      BY <1>4, <1>5
    <2>2. m[round[L[n]]] \in Nat /\ m[L[n]] \in Nat /\ m[start] \in Nat
      BY <1>4
    <2>3. QED BY <2>1, <2>2
  <1>6. QED BY <1>4, <1>5 DEF L

-----------------------------------------------------------------------------
(* The heap's operators.                                                       *)

Members(h) == {h.el[i] : i \in 1 .. Len(h.el)}

\* Every timer of the heap knows its place; one outside has none.
Placed(h) ==
  /\ h \in Heaps
  /\ \A i \in 1 .. Len(h.el) : h.ix[h.el[i]] = i
  /\ \A t \in Timers \ Members(h) : h.ix[t] = 0

\* The same timers with the same expiries, at other places.
Rearranged(h, g) ==
  Placed(h) /\ Placed(g) /\ Len(g.el) = Len(h.el) /\ g.ex = h.ex /\ Members(g) = Members(h)

\* The timer at place j does not expire before its parent.
Fits(h, j) == At(h, j \div 2) <= At(h, j)
Ordered(h) == \A j \in 2 .. Len(h.el) : Fits(h, j)

\* The heap without the timer at place i, whose children are its parent's, is in order.
Bridged(h, i) ==
  /\ \A j \in 2 .. Len(h.el) : j # i /\ j \div 2 # i => Fits(h, j)
  /\ \A j \in 2 .. Len(h.el) : j \div 2 = i /\ i >= 2 => At(h, i \div 2) <= At(h, j)

\* And the timer at place i fits its children, or its parent.
UpFrom(h, i) == Bridged(h, i) /\ \A j \in 2 .. Len(h.el) : j \div 2 = i => Fits(h, j)
DownFrom(h, i) == Bridged(h, i) /\ (i >= 2 => Fits(h, i))

LEMMA Half ==
  ASSUME NEW i \in Nat
  PROVE  /\ i \div 2 \in Nat /\ 2 * (i \div 2) <= i /\ i <= 2 * (i \div 2) + 1
         /\ (i > 0 => i \div 2 < i) /\ (i >= 2 => i \div 2 >= 1)
  OBVIOUS

LEMMA HeapType ==
  ASSUME NEW h \in Heaps
  PROVE  /\ h.el \in Seq(Timers) /\ Len(h.el) \in Nat /\ DOMAIN h.el = 1 .. Len(h.el)
         /\ h.ix \in [Timers -> Nat] /\ h.ex \in [Timers -> {0} \cup Expiries]
         /\ \A i \in 1 .. Len(h.el) : h.el[i] \in Timers
         /\ \A t \in Timers : h.ex[t] \in Nat
  <1>1. h.el \in Seq(Timers) /\ h.ix \in [Timers -> Nat] /\ h.ex \in [Timers -> {0} \cup Expiries]
    BY DEF Heaps
  <1>2. \A t \in Timers : h.ex[t] \in Nat
    <2>1. {0} \cup Expiries \subseteq Nat
      BY ExpiriesAssumption
    <2>2. QED BY <1>1, <2>1
  <1>3. QED BY <1>1, <1>2, LenProperties

\* What swap does.
LEMMA SwapResult ==
  ASSUME NEW h \in Heaps, NEW i \in 1 .. Len(h.el), NEW j \in 1 .. Len(h.el)
  PROVE  /\ Swap(h, i, j) \in Heaps
         /\ Len(Swap(h, i, j).el) = Len(h.el)
         /\ Swap(h, i, j).ex = h.ex
         /\ \A k \in 1 .. Len(h.el) :
              Swap(h, i, j).el[k] = IF k = j THEN h.el[i] ELSE IF k = i THEN h.el[j] ELSE h.el[k]
         /\ \A t \in Timers :
              Swap(h, i, j).ix[t] = IF t = h.el[i] THEN j ELSE IF t = h.el[j] THEN i ELSE h.ix[t]
  <1> DEFINE g == Swap(h, i, j)
             e1 == [h.el EXCEPT ![i] = h.el[j]]
             e2 == [e1 EXCEPT ![j] = h.el[i]]
             x1 == [h.ix EXCEPT ![h.el[j]] = i]
             x2 == [x1 EXCEPT ![h.el[i]] = j]
  <1>1. /\ h.el \in Seq(Timers) /\ Len(h.el) \in Nat /\ DOMAIN h.el = 1 .. Len(h.el)
        /\ h.ix \in [Timers -> Nat] /\ h.ex \in [Timers -> {0} \cup Expiries]
        /\ h.el[i] \in Timers /\ h.el[j] \in Timers
    BY HeapType
  <1>2. h = [el |-> h.el, ix |-> h.ix, ex |-> h.ex]
    BY DEF Heaps
  <1>3. g.el = e2 /\ g.ix = x2 /\ g.ex = h.ex /\ g = [el |-> e2, ix |-> x2, ex |-> h.ex]
    <2>1. g = [h EXCEPT !.el = e2, !.ix = x2]
      BY Zenon DEF Swap
    <2>2. QED BY <1>2, <2>1
  <1>4. e1 \in Seq(Timers) /\ Len(e1) = Len(h.el)
        /\ \A k \in 1 .. Len(h.el) : e1[k] = IF k = i THEN h.el[j] ELSE h.el[k]
    BY <1>1, ExceptSeq
  <1> HIDE DEF e1
  <1>5. e2 \in Seq(Timers) /\ Len(e2) = Len(h.el)
        /\ \A k \in 1 .. Len(h.el) : e2[k] = IF k = j THEN h.el[i] ELSE e1[k]
    BY <1>1, <1>4, ExceptSeq
  <1> HIDE DEF e2
  <1>6. x2 \in [Timers -> Nat]
        /\ \A t \in Timers : x2[t] = IF t = h.el[i] THEN j ELSE IF t = h.el[j] THEN i ELSE h.ix[t]
    <2>1. i \in Nat /\ j \in Nat
      BY <1>1
    <2>2. x1 \in [Timers -> Nat] /\ \A t \in Timers : x1[t] = IF t = h.el[j] THEN i ELSE h.ix[t]
      BY <1>1, <2>1
    <2> HIDE DEF x1
    <2>3. QED BY <1>1, <2>1, <2>2
  <1> HIDE DEF x2
  <1>7. g \in Heaps
    BY <1>1, <1>3, <1>5, <1>6 DEF Heaps
  <1>8. QED BY <1>3, <1>4, <1>5, <1>6, <1>7

LEMMA SwapRearranges ==
  ASSUME NEW h, Placed(h), NEW i \in 1 .. Len(h.el), NEW j \in 1 .. Len(h.el)
  PROVE  Rearranged(h, Swap(h, i, j))
  <1> DEFINE g == Swap(h, i, j)
  <1>1. /\ Len(h.el) \in Nat /\ \A k \in 1 .. Len(h.el) : h.el[k] \in Timers
        /\ h \in Heaps
    BY HeapType DEF Placed
  <1>2. /\ g \in Heaps /\ Len(g.el) = Len(h.el) /\ g.ex = h.ex
        /\ \A k \in 1 .. Len(h.el) :
             g.el[k] = IF k = j THEN h.el[i] ELSE IF k = i THEN h.el[j] ELSE h.el[k]
        /\ \A t \in Timers :
             g.ix[t] = IF t = h.el[i] THEN j ELSE IF t = h.el[j] THEN i ELSE h.ix[t]
    BY <1>1, SwapResult
  <1> HIDE DEF g
  <1>3. \A k \in 1 .. Len(h.el) : h.ix[h.el[k]] = k
    BY DEF Placed
  <1>4. Members(g) = Members(h)
    <2>1. ASSUME NEW k \in 1 .. Len(h.el) PROVE h.el[k] \in Members(g)
      <3>1. \E l \in 1 .. Len(g.el) : g.el[l] = h.el[k]
        <4>1. CASE k = i
          BY <1>1, <1>2, <4>1
        <4>2. CASE k = j
          <5>1. CASE i = j
            BY <1>1, <1>2, <4>2, <5>1
          <5>2. CASE i # j
            BY <1>1, <1>2, <4>2, <5>2
          <5>3. QED BY <5>1, <5>2
        <4>3. CASE k # i /\ k # j
          BY <1>1, <1>2, <4>3
        <4>4. QED BY <4>1, <4>2, <4>3
      <3>2. QED BY <3>1 DEF Members
    <2>2. ASSUME NEW k \in 1 .. Len(g.el) PROVE g.el[k] \in Members(h)
      BY <1>1, <1>2 DEF Members
    <2>3. QED BY <2>1, <2>2 DEF Members
  <1>5. ASSUME NEW k \in 1 .. Len(g.el) PROVE g.ix[g.el[k]] = k
    <2>1. CASE k = j
      BY <1>1, <1>2, <2>1
    <2>2. CASE k # j /\ k = i
      <3>1. h.el[i] # h.el[j]
        BY <1>3, <2>2
      <3>2. QED BY <1>1, <1>2, <2>2, <3>1
    <2>3. CASE k # j /\ k # i
      <3>1. h.el[k] # h.el[j] /\ h.el[k] # h.el[i]
        BY <1>2, <1>3, <2>3
      <3>2. QED BY <1>1, <1>2, <1>3, <2>3, <3>1
    <2>4. QED BY <2>1, <2>2, <2>3
  <1>6. ASSUME NEW t \in Timers \ Members(g) PROVE g.ix[t] = 0
    <2>1. t # h.el[i] /\ t # h.el[j] /\ h.ix[t] = 0
      BY <1>4 DEF Members, Placed
    <2>2. QED BY <1>2, <2>1
  <1>7. QED BY <1>2, <1>4, <1>5, <1>6 DEF Placed, Rearranged, g

\* Of a swap the expiries at the places.
LEMMA SwapAt ==
  ASSUME NEW h, Placed(h), NEW i \in 1 .. Len(h.el), NEW j \in 1 .. Len(h.el)
  PROVE  \A k \in 1 .. Len(h.el) :
           At(Swap(h, i, j), k) = IF k = j THEN At(h, i) ELSE IF k = i THEN At(h, j) ELSE At(h, k)
  <1> DEFINE g == Swap(h, i, j)
  <1>1. /\ g.ex = h.ex
        /\ \A k \in 1 .. Len(h.el) :
             g.el[k] = IF k = j THEN h.el[i] ELSE IF k = i THEN h.el[j] ELSE h.el[k]
    <2>1. h \in Heaps
      BY DEF Placed
    <2>2. QED BY <2>1, SwapResult
  <1> HIDE DEF g
  <1>2. QED BY <1>1 DEF At, g

LEMMA AtType == ASSUME NEW h \in Heaps PROVE \A k \in 1 .. Len(h.el) : At(h, k) \in Nat
  BY HeapType DEF At

\* A round of up: it goes on with the timer at its parent's place, or all are in order.
LEMMA UpStep ==
  ASSUME NEW h, Placed(h), NEW i \in 1 .. Len(h.el), UpFrom(h, i)
  PROVE  \/ UpRound[<<h, i>>] = <<h, i>> /\ Ordered(h)
         \/ \E p \in 1 .. Len(h.el) :
              p < i /\ UpRound[<<h, i>>] = <<Swap(h, i, p), p>> /\ UpFrom(Swap(h, i, p), p)
  <1> DEFINE p == i \div 2
             g == Swap(h, i, p)
  <1>1. h \in Heaps /\ Len(h.el) \in Nat /\ i \in Nat /\ i >= 1
        /\ \A k \in 1 .. Len(h.el) : At(h, k) \in Nat
    BY HeapType, AtType DEF Placed
  <1>2. p \in Nat /\ 2 * p <= i /\ i <= 2 * p + 1 /\ p < i /\ (i >= 2 => p >= 1)
    BY <1>1, Half
  <1>3. UpRound[<<h, i>>] = IF p > 0 /\ At(h, i) < At(h, p) THEN <<g, p>> ELSE <<h, i>>
    BY <1>1 DEF UpRound
  <1>4. CASE p > 0 /\ At(h, i) < At(h, p)
    <2>1. p \in 1 .. Len(h.el)
      BY <1>1, <1>2, <1>4
    <2>2. /\ Len(g.el) = Len(h.el)
          /\ \A k \in 1 .. Len(h.el) :
               At(g, k) = IF k = p THEN At(h, i) ELSE IF k = i THEN At(h, p) ELSE At(h, k)
      BY <1>1, <2>1, SwapAt, SwapResult
    <2> HIDE DEF g
    <2>3. ASSUME NEW j \in 2 .. Len(h.el), j # p PROVE Fits(g, j)
      <3> DEFINE q == j \div 2
      <3>1. q \in 1 .. Len(h.el) /\ q < j /\ j \in 1 .. Len(h.el)
        BY <1>1, Half
      <3>2. CASE j = i
        <4>1. q = p
          BY <3>2
        <4>2. At(g, q) = At(h, i) /\ At(g, j) = At(h, p)
          BY <1>2, <2>1, <2>2, <3>1, <3>2, <4>1
        <4>3. QED BY <1>1, <1>4, <2>1, <4>2 DEF Fits
      <3>3. CASE j # i /\ q = i
        <4>1. At(g, q) = At(h, p) /\ At(g, j) = At(h, j)
          BY <1>2, <2>2, <2>3, <3>1, <3>3
        <4>2. i >= 2
          BY <1>1, <1>2, <1>4
        <4>3. At(h, p) <= At(h, j)
          BY <3>3, <4>2 DEF UpFrom, Bridged
        <4>4. QED BY <4>1, <4>3 DEF Fits
      <3>4. CASE j # i /\ q = p
        <4>1. At(g, q) = At(h, i) /\ At(g, j) = At(h, j)
          BY <1>2, <2>1, <2>2, <2>3, <3>1, <3>4
        <4>2. At(h, p) <= At(h, j)
          BY <3>4, <1>2 DEF UpFrom, Bridged, Fits
        <4>3. QED BY <1>1, <1>4, <2>1, <3>1, <4>1, <4>2 DEF Fits
      <3>5. CASE j # i /\ q # i /\ q # p
        <4>1. At(g, q) = At(h, q) /\ At(g, j) = At(h, j)
          BY <2>2, <2>3, <3>1, <3>5
        <4>2. At(h, q) <= At(h, j)
          BY <3>5 DEF UpFrom, Bridged, Fits
        <4>3. QED BY <4>1, <4>2 DEF Fits
      <3>6. QED BY <3>2, <3>3, <3>4, <3>5
    <2>4. ASSUME NEW j \in 2 .. Len(h.el), j \div 2 = p, p >= 2 PROVE At(g, p \div 2) <= At(g, j)
      <3> DEFINE pp == p \div 2
      <3>1. pp \in 1 .. Len(h.el) /\ pp < p /\ p < j /\ j \in 1 .. Len(h.el)
        <4>1. pp \in Nat /\ pp < p /\ pp >= 1
          BY <1>2, <2>4, Half
        <4>2. p < j
          BY <2>4, Half
        <4>3. QED BY <1>1, <2>1, <4>1, <4>2
      <3>2. At(h, pp) <= At(h, p)
        <4>1. p \in 2 .. Len(h.el) /\ p # i
          BY <1>2, <2>1, <2>4
        <4>2. CASE p \div 2 # i
          BY <4>1, <4>2 DEF UpFrom, Bridged, Fits
        <4>3. QED BY <1>2, <3>1, <4>2
      <3>3. At(g, pp) = At(h, pp)
        BY <1>2, <2>2, <3>1
      <3>4. CASE j = i
        <4>1. At(g, j) = At(h, p)
          BY <1>2, <2>2, <3>1, <3>4
        <4>2. QED BY <3>2, <3>3, <4>1
      <3>5. CASE j # i
        <4>1. At(g, j) = At(h, j)
          BY <2>2, <3>1, <3>5
        <4>2. At(h, p) <= At(h, j)
          BY <1>2, <2>4, <3>5 DEF UpFrom, Bridged, Fits
        <4>3. QED BY <1>1, <2>1, <3>1, <3>2, <3>3, <4>1, <4>2
      <3>6. QED BY <3>4, <3>5
    <2>5. UpFrom(g, p)
      <3>1. \A j \in 2 .. Len(g.el) : j \div 2 = p => j # p
        BY <1>1, <2>2, Half
      <3>2. QED BY <2>2, <2>3, <2>4, <3>1 DEF UpFrom, Bridged
    <2>6. QED BY <1>2, <1>3, <1>4, <2>1, <2>5 DEF g
  <1>5. CASE ~(p > 0 /\ At(h, i) < At(h, p))
    <2>1. ASSUME NEW j \in 2 .. Len(h.el) PROVE Fits(h, j)
      <3>1. CASE j = i
        <4>1. p \in 1 .. Len(h.el)
          BY <1>1, <1>2, <3>1
        <4>2. At(h, p) <= At(h, i)
          BY <1>1, <1>5, <4>1
        <4>3. QED BY <3>1, <4>2 DEF Fits
      <3>2. CASE j # i
        BY <3>2 DEF UpFrom, Bridged
      <3>3. QED BY <3>1, <3>2
    <2>2. QED BY <1>3, <1>5, <2>1 DEF Ordered
  <1>6. QED BY <1>4, <1>5

LEMMA RearrangedTwice ==
  ASSUME NEW h, NEW g, NEW k, Rearranged(h, g), Rearranged(g, k)
  PROVE  Rearranged(h, k)
  BY DEF Rearranged

\* up ends with the heap in order.
LEMMA UpOrders ==
  ASSUME NEW h, Placed(h), NEW i \in 1 .. Len(h.el), UpFrom(h, i)
  PROVE  Rearranged(h, Up(h, i)) /\ Ordered(Up(h, i))
  <1> DEFINE Good(g, p) == Rearranged(h, g) /\ p \in 1 .. Len(g.el) /\ UpFrom(g, p)
             I == {s \in Heaps \X Nat : Good(s[1], s[2])}
             m == [s \in I |-> s[2]]
  <1>1. h \in Heaps /\ i \in Nat /\ Len(h.el) \in Nat
    BY HeapType DEF Placed
  <1>2. <<h, i>> \in I
    BY <1>1 DEF Rearranged
  <1>3. ASSUME NEW s \in I
        PROVE  \/ UpRound[s] = s /\ Ordered(s[1])
               \/ UpRound[s] \in I /\ UpRound[s][2] < s[2]
    <2> DEFINE g == s[1]
               p == s[2]
    <2>1. s = <<g, p>> /\ g \in Heaps /\ p \in Nat /\ Good(g, p)
      OBVIOUS
    <2> HIDE DEF g, p
    <2>2. Placed(g) /\ p \in 1 .. Len(g.el) /\ UpFrom(g, p)
      BY <2>1 DEF Rearranged
    <2>3. \/ UpRound[<<g, p>>] = <<g, p>> /\ Ordered(g)
          \/ \E q \in 1 .. Len(g.el) :
                q < p /\ UpRound[<<g, p>>] = <<Swap(g, p, q), q>> /\ UpFrom(Swap(g, p, q), q)
      BY <2>2, UpStep
    <2>4. ASSUME NEW q \in 1 .. Len(g.el), q < p, UpRound[s] = <<Swap(g, p, q), q>>,
                 UpFrom(Swap(g, p, q), q)
          PROVE  UpRound[s] \in I /\ UpRound[s][2] < p
      <3>1. Rearranged(g, Swap(g, p, q))
        BY <2>2, SwapRearranges
      <3>2. Good(Swap(g, p, q), q)
        BY <2>1, <2>4, <3>1, RearrangedTwice DEF Rearranged
      <3>3. Swap(g, p, q) \in Heaps /\ q \in Nat
        BY <3>1 DEF Rearranged, Placed
      <3>4. QED BY <2>4, <3>2, <3>3
    <2>5. QED BY <2>1, <2>3, <2>4 DEF g, p
  <1>4. m \in [I -> Nat] /\ m[<<h, i>>] = i
    BY <1>2
  <1>5. \A s \in I : UpRound[s] \in I
    BY <1>3
  <1>6. \A s \in I : UpRound[s] = s \/ m[UpRound[s]] < m[s]
    BY <1>3
  <1> DEFINE last == Loop(UpRound, <<h, i>>)[i]
  <1>7. last \in I /\ UpRound[last] = last
    <2> HIDE DEF I, m, last
    <2>1. i >= m[<<h, i>>]
      BY <1>1, <1>4
    <2>2. QED BY <1>1, <1>2, <1>4, <1>5, <1>6, <2>1, LoopRests DEF last
  <1> HIDE DEF last
  <1>8. Ordered(last[1])
    <2>1. last[2] \in Nat /\ ~(last[2] < last[2])
      BY <1>7
    <2>2. QED BY <1>3, <1>7, <2>1
  <1>9. QED BY <1>7, <1>8 DEF Up, last

\* Where down goes on.
LEMMA SmallestIs ==
  ASSUME NEW h, Placed(h), NEW i \in 1 .. Len(h.el)
  PROVE  /\ Smallest(h, i) \in 1 .. Len(h.el)
         /\ Smallest(h, i) # i => Smallest(h, i) > i /\ Smallest(h, i) \div 2 = i
         /\ Smallest(h, i) # i => At(h, Smallest(h, i)) < At(h, i)
         /\ \A j \in 2 .. Len(h.el) : j \div 2 = i => At(h, Smallest(h, i)) <= At(h, j)
         /\ Smallest(h, i) = i => \A j \in 2 .. Len(h.el) : j \div 2 = i => At(h, i) <= At(h, j)
  <1> DEFINE l == 2 * i
             r == 2 * i + 1
             min == IF l <= Len(h.el) /\ At(h, l) < At(h, i) THEN l ELSE i
             s == IF r <= Len(h.el) /\ At(h, r) < At(h, min) THEN r ELSE min
  <1>0. Smallest(h, i) = s
    BY Zenon DEF Smallest
  <1>1. Len(h.el) \in Nat /\ i \in Nat /\ i >= 1 /\ \A k \in 1 .. Len(h.el) : At(h, k) \in Nat
    BY HeapType, AtType DEF Placed
  <1>2. \A j \in 2 .. Len(h.el) : j \div 2 = i => j = l \/ j = r
    BY <1>1, Half
  <1>3. /\ min \in 1 .. Len(h.el) /\ (min = i \/ min = l) /\ At(h, min) <= At(h, i)
        /\ (min # i => At(h, min) < At(h, i)) /\ (l <= Len(h.el) => At(h, min) <= At(h, l))
    BY <1>1
  <1> HIDE DEF min
  <1>4. /\ s \in 1 .. Len(h.el) /\ (s = min \/ s = r) /\ At(h, s) <= At(h, min)
        /\ (s # min => At(h, s) < At(h, min)) /\ (r <= Len(h.el) => At(h, s) <= At(h, r))
    BY <1>1, <1>3
  <1> HIDE DEF s
  <1>5. l \div 2 = i /\ r \div 2 = i /\ l > i /\ r > i
    BY <1>1
  <1>6. At(h, s) \in Nat /\ At(h, min) \in Nat /\ At(h, i) \in Nat
    BY <1>1, <1>3, <1>4
  <1>7. s # i => At(h, s) < At(h, i)
    BY <1>3, <1>4, <1>6
  <1>8. ASSUME NEW j \in 2 .. Len(h.el), j \div 2 = i PROVE At(h, s) <= At(h, j)
    <2>1. CASE j = l
      <3>1. l <= Len(h.el) /\ At(h, l) \in Nat
        BY <1>1, <2>1
      <3>2. QED BY <1>3, <1>4, <1>6, <2>1, <3>1
    <2>2. CASE j = r
      <3>1. r <= Len(h.el)
        BY <1>1, <2>2
      <3>2. QED BY <1>4, <2>2, <3>1
    <2>3. QED BY <1>2, <1>8, <2>1, <2>2
  <1>9. QED BY <1>0, <1>3, <1>4, <1>5, <1>7, <1>8

\* A round of down: it goes on with the timer at its smallest child's place, or all are in
\* order.
LEMMA DownStep ==
  ASSUME NEW h, Placed(h), NEW i \in 1 .. Len(h.el), DownFrom(h, i)
  PROVE  \/ DownRound[<<h, i>>] = <<h, i>> /\ Ordered(h)
         \/ \E m \in 1 .. Len(h.el) :
              m > i /\ DownRound[<<h, i>>] = <<Swap(h, i, m), m>> /\ DownFrom(Swap(h, i, m), m)
  <1> DEFINE m == Smallest(h, i)
             g == Swap(h, i, m)
  <1>1. h \in Heaps /\ Len(h.el) \in Nat /\ i \in Nat /\ i >= 1
        /\ \A k \in 1 .. Len(h.el) : At(h, k) \in Nat
    BY HeapType, AtType DEF Placed
  <1>2. /\ m \in 1 .. Len(h.el) /\ (m # i => m > i /\ m \div 2 = i)
        /\ (m # i => At(h, m) < At(h, i))
        /\ \A j \in 2 .. Len(h.el) : j \div 2 = i => At(h, m) <= At(h, j)
        /\ (m = i => \A j \in 2 .. Len(h.el) : j \div 2 = i => At(h, i) <= At(h, j))
    BY SmallestIs
  <1>3. DownRound[<<h, i>>] = IF m = i THEN <<h, i>> ELSE <<g, m>>
    BY <1>1 DEF DownRound
  <1> HIDE DEF m
  <1>4. CASE m = i
    <2>1. ASSUME NEW j \in 2 .. Len(h.el) PROVE Fits(h, j)
      <3>1. CASE j \div 2 = i
        BY <1>2, <1>4, <3>1 DEF Fits
      <3>2. CASE j = i
        BY <1>1, <3>2 DEF DownFrom
      <3>3. CASE j # i /\ j \div 2 # i
        BY <3>3 DEF DownFrom, Bridged
      <3>4. QED BY <3>1, <3>2, <3>3
    <2>2. QED BY <1>3, <1>4, <2>1 DEF Ordered
  <1>5. CASE m # i
    <2>1. m > i /\ m \div 2 = i /\ m \in 2 .. Len(h.el) /\ m \in Nat
      BY <1>1, <1>2, <1>5
    <2>2. /\ Len(g.el) = Len(h.el)
          /\ \A k \in 1 .. Len(h.el) :
               At(g, k) = IF k = m THEN At(h, i) ELSE IF k = i THEN At(h, m) ELSE At(h, k)
      BY <1>1, <1>2, SwapAt, SwapResult
    <2> HIDE DEF g
    <2>3. ASSUME NEW j \in 2 .. Len(h.el), j \div 2 # m PROVE Fits(g, j)
      <3> DEFINE q == j \div 2
      <3>1. q \in 1 .. Len(h.el) /\ q < j /\ j \in 1 .. Len(h.el)
        BY <1>1, Half
      <3>2. CASE j = m
        <4>1. q = i
          BY <2>1, <3>2
        <4>2. At(g, q) = At(h, m) /\ At(g, j) = At(h, i)
          BY <2>1, <2>2, <3>1, <3>2, <4>1
        <4>3. QED BY <1>1, <1>2, <1>5, <4>2 DEF Fits
      <3>3. CASE j # m /\ q = i
        <4>1. At(g, q) = At(h, m) /\ At(g, j) = At(h, j)
          BY <2>1, <2>2, <3>1, <3>3
        <4>2. At(h, m) <= At(h, j)
          BY <1>2, <3>3
        <4>3. QED BY <4>1, <4>2 DEF Fits
      <3>4. CASE j = i
        <4>1. At(g, q) = At(h, q) /\ At(g, j) = At(h, m)
          BY <2>1, <2>2, <3>1, <3>4
        <4>2. At(h, i \div 2) <= At(h, m)
          BY <2>1, <3>4 DEF DownFrom, Bridged
        <4>3. QED BY <3>4, <4>1, <4>2 DEF Fits
      <3>5. CASE j # m /\ j # i /\ q # i
        <4>1. At(g, q) = At(h, q) /\ At(g, j) = At(h, j)
          BY <2>2, <2>3, <3>1, <3>5
        <4>2. At(h, q) <= At(h, j)
          BY <3>5 DEF DownFrom, Bridged, Fits
        <4>3. QED BY <4>1, <4>2 DEF Fits
      <3>6. QED BY <3>2, <3>3, <3>4, <3>5
    <2>4. ASSUME NEW j \in 2 .. Len(h.el), j \div 2 = m PROVE At(g, m \div 2) <= At(g, j)
      <3>1. m < j /\ j \in 1 .. Len(h.el)
        BY <1>1, <2>4, Half
      <3>2. At(g, i) = At(h, m) /\ At(g, j) = At(h, j)
        BY <2>1, <2>2, <3>1
      <3>3. At(h, m) <= At(h, j)
        BY <2>1, <2>4, <3>1 DEF DownFrom, Bridged, Fits
      <3>4. QED BY <2>1, <3>2, <3>3
    <2>5. DownFrom(g, m)
      <3>1. m \div 2 # m
        BY <2>1, <1>1
      <3>2. QED BY <2>1, <2>2, <2>3, <2>4, <3>1 DEF DownFrom, Bridged
    <2>6. QED BY <1>2, <1>3, <1>5, <2>1, <2>5 DEF g
  <1>6. QED BY <1>4, <1>5

\* down ends with the heap in order.
LEMMA DownOrders ==
  ASSUME NEW h, Placed(h), NEW i \in 1 .. Len(h.el), DownFrom(h, i)
  PROVE  Rearranged(h, Down(h, i)) /\ Ordered(Down(h, i))
  <1> DEFINE Good(g, p) == Rearranged(h, g) /\ p \in 1 .. Len(g.el) /\ DownFrom(g, p)
             I == {s \in Heaps \X Nat : Good(s[1], s[2])}
             m == [s \in I |-> Len(h.el) - s[2]]
  <1>1. h \in Heaps /\ i \in Nat /\ Len(h.el) \in Nat
    BY HeapType DEF Placed
  <1>2. <<h, i>> \in I
    BY <1>1 DEF Rearranged
  <1>3. ASSUME NEW s \in I
        PROVE  \/ DownRound[s] = s /\ Ordered(s[1])
               \/ DownRound[s] \in I /\ DownRound[s][2] > s[2]
    <2> DEFINE g == s[1]
               p == s[2]
    <2>1. s = <<g, p>> /\ g \in Heaps /\ p \in Nat /\ Good(g, p)
      OBVIOUS
    <2> HIDE DEF g, p
    <2>2. Placed(g) /\ p \in 1 .. Len(g.el) /\ DownFrom(g, p)
      BY <2>1 DEF Rearranged
    <2>3. \/ DownRound[<<g, p>>] = <<g, p>> /\ Ordered(g)
          \/ \E q \in 1 .. Len(g.el) :
                q > p /\ DownRound[<<g, p>>] = <<Swap(g, p, q), q>> /\ DownFrom(Swap(g, p, q), q)
      BY <2>2, DownStep
    <2>4. ASSUME NEW q \in 1 .. Len(g.el), q > p, DownRound[s] = <<Swap(g, p, q), q>>,
                 DownFrom(Swap(g, p, q), q)
          PROVE  DownRound[s] \in I /\ DownRound[s][2] > p
      <3>1. Rearranged(g, Swap(g, p, q))
        BY <2>2, SwapRearranges
      <3>2. Good(Swap(g, p, q), q)
        BY <2>1, <2>4, <3>1, RearrangedTwice DEF Rearranged
      <3>3. Swap(g, p, q) \in Heaps /\ q \in Nat
        BY <3>1 DEF Rearranged, Placed
      <3>4. QED BY <2>4, <3>2, <3>3
    <2>5. QED BY <2>1, <2>3, <2>4 DEF g, p
  <1>4. \A s \in I : s[2] \in Nat /\ s[2] <= Len(h.el)
    BY <1>1 DEF Rearranged
  <1>5. m \in [I -> Nat] /\ m[<<h, i>>] = Len(h.el) - i
    BY <1>1, <1>2, <1>4
  <1>6. \A s \in I : DownRound[s] \in I
    BY <1>3
  <1>7. \A s \in I : DownRound[s] = s \/ m[DownRound[s]] < m[s]
    <2> SUFFICES ASSUME NEW s \in I, DownRound[s] # s PROVE m[DownRound[s]] < m[s]
      OBVIOUS
    <2>1. DownRound[s] \in I /\ DownRound[s][2] > s[2]
      BY <1>3
    <2>2. m[DownRound[s]] = Len(h.el) - DownRound[s][2] /\ m[s] = Len(h.el) - s[2]
      BY <2>1
    <2> HIDE DEF I, m
    <2>3. s[2] \in Nat /\ DownRound[s][2] \in Nat
      BY <1>4, <2>1
    <2>4. QED BY <1>1, <2>1, <2>2, <2>3
  <1> DEFINE last == Loop(DownRound, <<h, i>>)[Len(h.el)]
  <1>8. last \in I /\ DownRound[last] = last
    <2> HIDE DEF I, m, last
    <2>1. Len(h.el) >= m[<<h, i>>]
      BY <1>1, <1>5
    <2>2. QED BY <1>1, <1>2, <1>5, <1>6, <1>7, <2>1, LoopRests DEF last
  <1> HIDE DEF last
  <1>9. Ordered(last[1])
    <2>1. last[2] \in Nat /\ ~(last[2] > last[2])
      BY <1>8
    <2>2. QED BY <1>3, <1>8, <2>1
  <1>10. QED BY <1>8, <1>9 DEF Down, last

\* down stays where nothing is smaller below.
LEMMA DownStays ==
  ASSUME NEW h, Placed(h), NEW i \in 1 .. Len(h.el),
         \A j \in 2 .. Len(h.el) : j \div 2 = i => At(h, i) <= At(h, j)
  PROVE  Down(h, i) = h
  <1>1. h \in Heaps /\ i \in Nat /\ Len(h.el) \in Nat
        /\ \A k \in 1 .. Len(h.el) : At(h, k) \in Nat
    BY HeapType, AtType DEF Placed
  <1>2. Smallest(h, i) = i
    <2> DEFINE m == Smallest(h, i)
    <2>1. m \in 1 .. Len(h.el) /\ (m # i => m > i /\ m \div 2 = i)
          /\ (m # i => At(h, m) < At(h, i))
      BY SmallestIs
    <2> HIDE DEF m
    <2>2. CASE m # i
      <3>1. m \in 2 .. Len(h.el) /\ m \div 2 = i
        BY <1>1, <2>1, <2>2
      <3>2. At(h, i) <= At(h, m) /\ At(h, m) < At(h, i) /\ At(h, i) \in Nat /\ At(h, m) \in Nat
        BY <1>1, <2>1, <2>2, <3>1
      <3>3. QED BY <3>2
    <2>3. QED BY <2>2 DEF m
  <1>3. DownRound[<<h, i>>] = <<h, i>>
    BY <1>1, <1>2 DEF DownRound
  <1> DEFINE I == {<<h, i>>}
             m == [s \in I |-> 0]
  <1>4. m \in [I -> Nat] /\ m[<<h, i>>] = 0
    OBVIOUS
  <1>5. <<h, i>> \in I /\ \A s \in I : DownRound[s] \in I /\ DownRound[s] = s
    BY <1>3
  <1>6. Loop(DownRound, <<h, i>>)[Len(h.el)] \in I
    <2> HIDE DEF I, m
    <2>1. Len(h.el) >= m[<<h, i>>]
      BY <1>1, <1>4
    <2>2. QED BY <1>1, <1>4, <1>5, <2>1, LoopRests
  <1>7. QED BY <1>6 DEF Down

\* Of a heap in order every place can be gone up from.
LEMMA OrderedUpFrom ==
  ASSUME NEW h, Placed(h), Ordered(h), NEW i \in 1 .. Len(h.el)
  PROVE  UpFrom(h, i)
  <1>1. h \in Heaps /\ i \in Nat /\ Len(h.el) \in Nat
        /\ \A k \in 1 .. Len(h.el) : At(h, k) \in Nat
    BY HeapType, AtType DEF Placed
  <1>2. ASSUME NEW j \in 2 .. Len(h.el), j \div 2 = i, i >= 2 PROVE At(h, i \div 2) <= At(h, j)
    <2> DEFINE p == i \div 2
    <2>1. p \in 1 .. Len(h.el) /\ i \in 2 .. Len(h.el) /\ j \in 1 .. Len(h.el)
      BY <1>1, <1>2, Half
    <2>2. At(h, p) <= At(h, i) /\ At(h, i) <= At(h, j)
      BY <1>2, <2>1 DEF Ordered, Fits
    <2> HIDE DEF p
    <2>3. At(h, p) <= At(h, j)
      BY <1>1, <2>1, <2>2
    <2>4. QED BY <2>3 DEF p
  <1>3. QED BY <1>2 DEF UpFrom, Bridged, Ordered

\* change brings a timer that may be too small or too big for its place to where it belongs.
LEMMA ChangeOrders ==
  ASSUME NEW h, Placed(h), NEW t, h.ix[t] \in 1 .. Len(h.el), Bridged(h, h.ix[t])
  PROVE  Rearranged(h, Change(h, t)) /\ Ordered(Change(h, t))
  <1> DEFINE i == h.ix[t]
             d == Down(h, i)
             p == i \div 2
  <1>0. Change(h, t) = IF d.ix[t] = i THEN Up(d, i) ELSE d
    BY Zenon DEF Change
  <1>1. h \in Heaps /\ i \in Nat /\ i >= 1 /\ Len(h.el) \in Nat /\ i \in 1 .. Len(h.el)
        /\ Bridged(h, i) /\ \A k \in 1 .. Len(h.el) : At(h, k) \in Nat
    BY HeapType, AtType DEF Placed
  <1>2. i >= 2 => p \in 1 .. Len(h.el)
    BY <1>1, Half
  <1>3. CASE i >= 2 /\ At(h, i) < At(h, p)
    <2>1. \A j \in 2 .. Len(h.el) : j \div 2 = i => At(h, i) <= At(h, j)
      <3> SUFFICES ASSUME NEW j \in 2 .. Len(h.el), j \div 2 = i PROVE At(h, i) <= At(h, j)
        OBVIOUS
      <3>1. At(h, p) <= At(h, j)
        BY <1>1, <1>3 DEF Bridged
      <3>2. At(h, p) \in Nat /\ At(h, i) \in Nat /\ At(h, j) \in Nat
        BY <1>1, <1>2, <1>3
      <3>3. QED BY <1>3, <3>1, <3>2
    <2>2. d = h
      BY <1>1, <2>1, DownStays
    <2>3. UpFrom(h, i)
      BY <1>1, <2>1 DEF UpFrom, Fits
    <2>4. Rearranged(h, Up(h, i)) /\ Ordered(Up(h, i))
      BY <1>1, <2>3, UpOrders
    <2>5. d.ix[t] = i
      BY <2>2
    <2>6. QED BY <1>0, <2>2, <2>4, <2>5
  <1>4. CASE ~(i >= 2 /\ At(h, i) < At(h, p))
    <2>1. DownFrom(h, i)
      <3>1. ASSUME i >= 2 PROVE Fits(h, i)
        <4>1. At(h, p) \in Nat /\ At(h, i) \in Nat
          BY <1>1, <1>2, <3>1
        <4>2. QED BY <1>4, <3>1, <4>1 DEF Fits
      <3>2. QED BY <1>1, <3>1 DEF DownFrom
    <2>2. Rearranged(h, d) /\ Ordered(d)
      BY <1>1, <2>1, DownOrders
    <2> HIDE DEF d, i
    <2>3. CASE d.ix[t] = i
      <3>1. Placed(d) /\ i \in 1 .. Len(d.el)
        BY <1>1, <2>2 DEF Rearranged
      <3>2. UpFrom(d, i)
        BY <2>2, <3>1, OrderedUpFrom
      <3>3. Rearranged(d, Up(d, i)) /\ Ordered(Up(d, i))
        BY <3>1, <3>2, UpOrders
      <3>4. Rearranged(h, Up(d, i))
        BY <2>2, <3>3, RearrangedTwice
      <3>5. Change(h, t) = Up(d, i)
        BY <1>0, <2>3
      <3>6. QED BY <3>3, <3>4, <3>5
    <2>4. CASE d.ix[t] # i
      BY <1>0, <2>2, <2>4
    <2>5. QED BY <2>3, <2>4
  <1>5. QED BY <1>3, <1>4

\* In a heap a timer is at one place.
LEMMA AtOnePlace ==
  ASSUME NEW h, Placed(h)
  PROVE  \A i, j \in 1 .. Len(h.el) : h.el[i] = h.el[j] => i = j
  BY DEF Placed

\* Swapping a timer to the end and giving that up.
LEMMA Dropped ==
  ASSUME NEW h, Placed(h), NEW i \in 1 .. Len(h.el), NEW t, h.el[i] = t
  PROVE  LET N == Len(h.el)
             d == DropLast(Swap(h, i, N), t)
         IN  /\ Placed(d) /\ Len(d.el) = N - 1 /\ Members(d) = Members(h) \ {t}
             /\ d.ex = [h.ex EXCEPT ![t] = 0]
             /\ i # N => d.ix[h.el[N]] = i
             /\ \A k \in 1 .. N - 1 : At(d, k) = IF k = i THEN At(h, N) ELSE At(h, k)
  <1> DEFINE N == Len(h.el)
             g == Swap(h, i, N)
             d == DropLast(g, t)
  <1>1. /\ h \in Heaps /\ N \in Nat /\ i \in 1 .. N /\ N \in 1 .. N /\ t \in Timers
        /\ h.ex \in [Timers -> {0} \cup Expiries]
        /\ \A k \in 1 .. N : h.el[k] \in Timers
    BY HeapType DEF Placed
  <1>2. Rearranged(h, g)
    BY <1>1, SwapRearranges
  <1>3. /\ g \in Heaps /\ Len(g.el) = N /\ g.ex = h.ex
        /\ \A k \in 1 .. N : g.el[k] = IF k = N THEN t ELSE IF k = i THEN h.el[N] ELSE h.el[k]
    BY <1>1, SwapResult
  <1>4. Placed(g) /\ Members(g) = Members(h)
    BY <1>2 DEF Rearranged
  <1> HIDE DEF g
  <1> DEFINE el == SubSeq(g.el, 1, N - 1)
             ix == [g.ix EXCEPT ![t] = 0]
             ex == [h.ex EXCEPT ![t] = 0]
  <1>5. d = [el |-> el, ix |-> ix, ex |-> ex]
    <2>1. g = [el |-> g.el, ix |-> g.ix, ex |-> g.ex]
      BY <1>3 DEF Heaps
    <2>2. d = [g EXCEPT !.el = SubSeq(g.el, 1, Len(g.el) - 1), !.ix = [g.ix EXCEPT ![t] = 0],
                        !.ex = [g.ex EXCEPT ![t] = 0]]
      BY Zenon DEF DropLast
    <2>3. d = [g EXCEPT !.el = el, !.ix = ix, !.ex = ex]
      BY <1>3, <2>2, Zenon
    <2>4. QED BY <2>1, <2>3
  <1>6. d.el = el /\ d.ix = ix /\ d.ex = ex
    BY <1>5
  <1> HIDE DEF d
  <1>7. el \in Seq(Timers) /\ Len(el) = N - 1 /\ \A k \in 1 .. N - 1 : el[k] = g.el[k]
    <2>1. g.el \in Seq(Timers)
      BY <1>3 DEF Heaps
    <2>2. \A k \in 1 .. N - 1 : g.el[k] \in Timers
      BY <1>1, <1>3
    <2>3. QED BY <1>1, <1>3, <2>1, <2>2, SubSeqProperties
  <1> HIDE DEF el
  <1>8. ix \in [Timers -> Nat] /\ \A u \in Timers : ix[u] = IF u = t THEN 0 ELSE g.ix[u]
    <2>1. g.ix \in [Timers -> Nat]
      BY <1>3 DEF Heaps
    <2>2. QED BY <1>1, <2>1
  <1> HIDE DEF ix
  <1>9. ex \in [Timers -> {0} \cup Expiries] /\ \A u \in Timers : ex[u] = IF u = t THEN 0 ELSE h.ex[u]
    BY <1>1
  <1> HIDE DEF ex
  <1>10. d \in Heaps
    BY <1>5, <1>7, <1>8, <1>9 DEF Heaps
  <1>11. \A k \in 1 .. N - 1 : g.el[k] # t /\ g.el[k] \in Timers /\ k \in 1 .. N
    <2>1. g.el[N] = t
      BY <1>1, <1>3
    <2>2. \A k \in 1 .. N - 1 : k \in 1 .. N /\ k # N
      BY <1>1
    <2>3. \A k \in 1 .. N - 1 : g.el[k] # g.el[N]
      BY <1>1, <1>3, <1>4, <2>2, AtOnePlace
    <2>4. QED BY <1>1, <1>3, <2>1, <2>2, <2>3
  <1>12. Members(d) = Members(h) \ {t}
    <2>1. ASSUME NEW u \in Members(h), u # t PROVE u \in Members(d)
      <3>1. PICK k \in 1 .. N : u = g.el[k]
        BY <1>3, <1>4, <2>1 DEF Members
      <3>2. k \in 1 .. N - 1
        BY <1>1, <1>3, <2>1, <3>1
      <3>3. d.el[k] = u /\ k \in 1 .. Len(d.el)
        BY <1>6, <1>7, <3>1, <3>2
      <3>4. QED BY <3>3 DEF Members
    <2>2. ASSUME NEW k \in 1 .. N - 1 PROVE d.el[k] \in Members(h) \ {t}
      <3>1. d.el[k] = g.el[k] /\ g.el[k] # t /\ k \in 1 .. N
        BY <1>6, <1>7, <1>11
      <3>2. g.el[k] \in Members(g)
        BY <1>3, <3>1 DEF Members
      <3>3. QED BY <1>4, <3>1, <3>2
    <2>3. Len(d.el) = N - 1
      BY <1>6, <1>7
    <2>4. QED BY <2>1, <2>2, <2>3 DEF Members
  <1>13. Placed(d)
    <2>1. ASSUME NEW k \in 1 .. Len(d.el) PROVE d.ix[d.el[k]] = k
      <3>1. k \in 1 .. N - 1 /\ d.el[k] = g.el[k] /\ g.el[k] # t /\ g.el[k] \in Timers /\ k \in 1 .. N
        BY <1>6, <1>7, <1>11, <2>1
      <3>2. g.ix[g.el[k]] = k
        BY <1>3, <1>4, <3>1 DEF Placed
      <3>3. QED BY <1>6, <1>8, <3>1, <3>2
    <2>2. ASSUME NEW u \in Timers \ Members(d) PROVE d.ix[u] = 0
      <3>1. CASE u = t
        BY <1>6, <1>8, <3>1
      <3>2. CASE u # t
        <4>1. u \in Timers \ Members(g)
          BY <1>4, <1>12, <3>2
        <4>2. g.ix[u] = 0
          BY <1>4, <4>1 DEF Placed
        <4>3. QED BY <1>6, <1>8, <3>2, <4>2
      <3>3. QED BY <3>1, <3>2
    <2>3. QED BY <1>10, <2>1, <2>2 DEF Placed
  <1>14. ASSUME i # N PROVE d.ix[h.el[N]] = i
    <2>1. i \in 1 .. N - 1 /\ g.el[i] = h.el[N]
      BY <1>1, <1>3, <1>14
    <2>2. i \in 1 .. Len(d.el) /\ d.el[i] = h.el[N]
      BY <1>6, <1>7, <2>1
    <2>3. QED BY <1>13, <2>2 DEF Placed
  <1>15. ASSUME NEW k \in 1 .. N - 1 PROVE At(d, k) = IF k = i THEN At(h, N) ELSE At(h, k)
    <2>1. k \in 1 .. N /\ k # N /\ d.el[k] = g.el[k] /\ g.el[k] # t /\ g.el[k] \in Timers
      BY <1>1, <1>6, <1>7, <1>11
    <2>2. d.ex[d.el[k]] = h.ex[g.el[k]]
      BY <1>6, <1>9, <2>1
    <2>3. g.el[k] = IF k = i THEN h.el[N] ELSE h.el[k]
      BY <1>3, <2>1
    <2>4. QED BY <2>2, <2>3 DEF At
  <1>16. QED BY <1>6, <1>7, <1>12, <1>13, <1>14, <1>15 DEF d, g, ex

\* What is left in order then.
LEMMA DroppedOrder ==
  ASSUME NEW h, Placed(h), Ordered(h), NEW i \in 1 .. Len(h.el), NEW t, h.el[i] = t
  PROVE  LET d == DropLast(Swap(h, i, Len(h.el)), t)
         IN  (i = Len(h.el) => Ordered(d)) /\ (i < Len(h.el) => Bridged(d, i))
  <1> DEFINE N == Len(h.el)
             d == DropLast(Swap(h, i, N), t)
  <1>1. N \in Nat /\ i \in Nat /\ i >= 1 /\ i <= N /\ \A k \in 1 .. N : At(h, k) \in Nat
    <2>1. h \in Heaps
      BY DEF Placed
    <2>2. N \in Nat
      BY <2>1, HeapType
    <2>3. QED BY <2>1, <2>2, AtType
  <1>2. /\ Placed(d) /\ Len(d.el) = N - 1 /\ Members(d) = Members(h) \ {t}
        /\ d.ex = [h.ex EXCEPT ![t] = 0]
        /\ (i # N => d.ix[h.el[N]] = i)
        /\ \A k \in 1 .. N - 1 : At(d, k) = IF k = i THEN At(h, N) ELSE At(h, k)
    BY Dropped
  <1> HIDE DEF d
  <1>3. ASSUME NEW j \in 2 .. Len(d.el), j # i, j \div 2 # i PROVE Fits(d, j)
    <2> DEFINE q == j \div 2
    <2>1. j \in 1 .. N - 1 /\ q \in 1 .. N - 1 /\ j \in 2 .. N /\ q # i
      BY <1>1, <1>2, <1>3, Half
    <2>2. At(d, q) = At(h, q) /\ At(d, j) = At(h, j)
      BY <1>2, <1>3, <2>1
    <2>3. At(h, q) <= At(h, j)
      BY <2>1 DEF Ordered, Fits
    <2>4. QED BY <2>2, <2>3 DEF Fits
  <1>4. ASSUME i = N PROVE Ordered(d)
    <2>1. \A j \in 2 .. Len(d.el) : j # i /\ j \div 2 # i
      BY <1>1, <1>2, <1>4, Half
    <2>2. QED BY <1>3, <2>1 DEF Ordered
  <1>5. ASSUME i < N PROVE Bridged(d, i)
    <2>1. ASSUME NEW j \in 2 .. Len(d.el), j \div 2 = i, i >= 2 PROVE At(d, i \div 2) <= At(d, j)
      <3> DEFINE p == i \div 2
      <3>1. p \in 1 .. N - 1 /\ p # i /\ p \in 1 .. N /\ i \in 1 .. N /\ i \in 2 .. N
        BY <1>1, <1>5, <2>1, Half
      <3>2. j \in 1 .. N - 1 /\ j # i /\ j \in 1 .. N /\ j \in 2 .. N
        BY <1>1, <1>2, <2>1, Half
      <3>3. At(d, p) = At(h, p) /\ At(d, j) = At(h, j)
        BY <1>2, <3>1, <3>2
      <3>4. At(h, p) <= At(h, i) /\ At(h, i) <= At(h, j)
        BY <2>1, <3>1, <3>2 DEF Ordered, Fits
      <3>5. At(h, p) \in Nat /\ At(h, i) \in Nat /\ At(h, j) \in Nat
        BY <1>1, <3>1, <3>2
      <3> HIDE DEF p
      <3>6. At(d, p) <= At(d, j)
        BY <3>3, <3>4, <3>5
      <3>7. QED BY <3>6 DEF p
    <2>2. QED BY <1>3, <2>1 DEF Bridged
  <1>6. QED BY <1>4, <1>5 DEF d

\* insert keeps the heap in order and adds the timer.
LEMMA Inserted ==
  ASSUME NEW h, Placed(h), Ordered(h), NEW t \in Timers \ Members(h)
  PROVE  LET g == InsertAt(h, t)
         IN  Placed(g) /\ Ordered(g) /\ g.ex = h.ex /\ Members(g) = Members(h) \cup {t}
  <1> DEFINE n == Len(h.el) + 1
             el == Append(h.el, t)
             ix == [h.ix EXCEPT ![t] = n]
             g == [h EXCEPT !.el = el, !.ix = ix]
  <1>0. InsertAt(h, t) = Up(g, n)
    BY Zenon DEF InsertAt
  <1>1. /\ h \in Heaps /\ Len(h.el) \in Nat /\ n \in Nat /\ n >= 1
        /\ h.el \in Seq(Timers) /\ h.ix \in [Timers -> Nat]
        /\ h.ex \in [Timers -> {0} \cup Expiries]
        /\ \A k \in 1 .. Len(h.el) : h.el[k] \in Timers
        /\ \A k \in 1 .. Len(h.el) : At(h, k) \in Nat
    BY HeapType, AtType DEF Placed
  <1>2. el \in Seq(Timers) /\ Len(el) = n
        /\ \A k \in 1 .. n : el[k] = IF k = n THEN t ELSE h.el[k]
    BY <1>1, AppendProperties
  <1> HIDE DEF el
  <1>3. ix \in [Timers -> Nat] /\ \A u \in Timers : ix[u] = IF u = t THEN n ELSE h.ix[u]
    BY <1>1
  <1> HIDE DEF ix
  <1>4. g = [el |-> el, ix |-> ix, ex |-> h.ex]
    <2>1. h = [el |-> h.el, ix |-> h.ix, ex |-> h.ex]
      BY <1>1 DEF Heaps
    <2>2. g = [h EXCEPT !.el = el, !.ix = ix]
      OBVIOUS
    <2> HIDE DEF g
    <2>3. QED BY <2>1, <2>2
  <1>5. g \in Heaps /\ g.el = el /\ g.ix = ix /\ g.ex = h.ex
    BY <1>1, <1>2, <1>3, <1>4 DEF Heaps
  <1> HIDE DEF g
  <1>6. \A k \in 1 .. Len(h.el) : h.el[k] # t /\ k \in 1 .. n /\ k # n
    BY <1>1 DEF Members
  <1>7. Members(g) = Members(h) \cup {t}
    <2>1. ASSUME NEW k \in 1 .. n PROVE g.el[k] \in Members(h) \cup {t}
      <3>1. CASE k = n
        BY <1>1, <1>2, <1>5, <3>1
      <3>2. CASE k # n
        <4>1. k \in 1 .. Len(h.el) /\ g.el[k] = h.el[k]
          BY <1>1, <1>2, <1>5, <3>2
        <4>2. QED BY <4>1 DEF Members
      <3>3. QED BY <3>1, <3>2
    <2>2. ASSUME NEW k \in 1 .. Len(h.el) PROVE h.el[k] \in Members(g)
      <3>1. k \in 1 .. Len(g.el) /\ g.el[k] = h.el[k]
        BY <1>2, <1>5, <1>6
      <3>2. QED BY <3>1 DEF Members
    <2>3. t \in Members(g)
      <3>1. n \in 1 .. Len(g.el) /\ g.el[n] = t
        BY <1>1, <1>2, <1>5
      <3>2. QED BY <3>1 DEF Members
    <2>4. Len(g.el) = n
      BY <1>2, <1>5
    <2>5. QED BY <2>1, <2>2, <2>3, <2>4 DEF Members
  <1>8. Placed(g)
    <2>1. ASSUME NEW k \in 1 .. Len(g.el) PROVE g.ix[g.el[k]] = k
      <3>1. CASE k = n
        BY <1>1, <1>2, <1>3, <1>5, <3>1
      <3>2. CASE k # n
        <4>0. Len(g.el) = n
          BY <1>2, <1>5
        <4>1. k \in 1 .. Len(h.el) /\ k \in 1 .. n
          BY <1>1, <2>1, <3>2, <4>0
        <4>2. g.el[k] = h.el[k] /\ h.el[k] # t /\ h.el[k] \in Timers
          BY <1>1, <1>2, <1>5, <1>6, <3>2, <4>1
        <4>3. h.ix[h.el[k]] = k
          BY <4>1 DEF Placed
        <4>4. QED BY <1>3, <1>5, <4>2, <4>3
      <3>3. QED BY <3>1, <3>2
    <2>2. ASSUME NEW u \in Timers \ Members(g) PROVE g.ix[u] = 0
      <3>1. u # t /\ u \in Timers \ Members(h)
        BY <1>7
      <3>2. QED BY <1>3, <1>5, <3>1 DEF Placed
    <2>3. QED BY <1>5, <2>1, <2>2 DEF Placed
  <1>9. \A k \in 1 .. Len(h.el) : At(g, k) = At(h, k)
    <2>1. \A k \in 1 .. Len(h.el) : g.el[k] = h.el[k]
      BY <1>2, <1>5, <1>6
    <2>2. QED BY <1>5, <2>1 DEF At
  <1>10. UpFrom(g, n)
    <2>1. ASSUME NEW j \in 2 .. Len(g.el) PROVE j \div 2 # n /\ (j # n => Fits(g, j))
      <3> DEFINE q == j \div 2
      <3>1. j \in Nat /\ q \in Nat /\ q >= 1 /\ q < j /\ j <= n
        BY <1>1, <1>2, <1>5, <2>1, Half
      <3>2. ASSUME j # n PROVE Fits(g, j)
        <4> HIDE DEF q
        <4>1. q \in 1 .. Len(h.el) /\ j \in 1 .. Len(h.el) /\ j \in 2 .. Len(h.el)
          BY <1>1, <2>1, <3>1, <3>2
        <4>2. At(h, q) <= At(h, j)
          BY <4>1 DEF Ordered, Fits, q
        <4>3. QED BY <1>9, <4>1, <4>2 DEF Fits, q
      <3>3. QED BY <1>1, <3>1, <3>2
    <2>2. QED BY <2>1 DEF UpFrom, Bridged
  <1>11. n \in 1 .. Len(g.el)
    BY <1>1, <1>2, <1>5
  <1>12. Rearranged(g, Up(g, n)) /\ Ordered(Up(g, n))
    BY <1>8, <1>10, <1>11, UpOrders
  <1>13. QED BY <1>0, <1>5, <1>7, <1>12 DEF Rearranged

\* remove keeps the heap in order and takes the timer away.
LEMMA Removed ==
  ASSUME NEW h, Placed(h), Ordered(h), NEW t \in Members(h)
  PROVE  LET g == RemoveAt(h, t)
         IN  Placed(g) /\ Ordered(g) /\ g.ex = [h.ex EXCEPT ![t] = 0] /\ Members(g) = Members(h) \ {t}
  <1> DEFINE N == Len(h.el)
             i == h.ix[t]
             tail == h.el[N]
             d == DropLast(Swap(h, i, N), t)
  <1>0. RemoveAt(h, t) = IF tail = t THEN d ELSE Change(d, tail)
    BY Zenon DEF RemoveAt
  <1>1. N \in Nat /\ i \in 1 .. N /\ h.el[i] = t /\ N \in 1 .. N
    <2>1. PICK k \in 1 .. N : t = h.el[k]
      BY DEF Members
    <2>2. h.ix[t] = k
      BY <2>1 DEF Placed
    <2>3. N \in Nat
      BY HeapType DEF Placed
    <2>4. QED BY <2>1, <2>2, <2>3
  <1>2. /\ Placed(d) /\ Len(d.el) = N - 1 /\ Members(d) = Members(h) \ {t}
        /\ d.ex = [h.ex EXCEPT ![t] = 0]
        /\ (i # N => d.ix[tail] = i)
    BY <1>1, Dropped
  <1>3. (i = N => Ordered(d)) /\ (i < N => Bridged(d, i))
    BY <1>1, DroppedOrder
  <1> HIDE DEF d, i
  <1>4. CASE tail = t
    <2>1. i = N
      BY <1>1, <1>4, AtOnePlace
    <2>2. QED BY <1>0, <1>2, <1>3, <1>4, <2>1
  <1>5. CASE tail # t
    <2>1. i < N /\ i # N
      BY <1>1, <1>5
    <2>2. d.ix[tail] = i /\ Bridged(d, i) /\ i \in 1 .. Len(d.el)
      BY <1>1, <1>2, <1>3, <2>1
    <2>3. Rearranged(d, Change(d, tail)) /\ Ordered(Change(d, tail))
      BY <1>2, <2>2, ChangeOrders
    <2>4. QED BY <1>0, <1>2, <1>5, <2>3 DEF Rearranged
  <1>6. QED BY <1>4, <1>5

\* pop keeps the heap in order and takes the first away.
LEMMA Popped ==
  ASSUME NEW h, Placed(h), Ordered(h), h.el # <<>>
  PROVE  LET g == PopTop(h)
             t == h.el[1]
         IN  Placed(g) /\ Ordered(g) /\ g.ex = [h.ex EXCEPT ![t] = 0] /\ Members(g) = Members(h) \ {t}
  <1> DEFINE N == Len(h.el)
             t == h.el[1]
             d == DropLast(Swap(h, 1, N), t)
  <1>0. PopTop(h) = IF d.el = <<>> THEN d ELSE Down(d, 1)
    BY Zenon DEF PopTop
  <1>1. N \in Nat /\ 1 \in 1 .. N
    <2>1. N \in Nat /\ h.el \in Seq(Timers)
      BY HeapType DEF Placed
    <2>2. N # 0
      BY <2>1, EmptySeq
    <2>3. QED BY <2>1, <2>2
  <1>2. /\ Placed(d) /\ Len(d.el) = N - 1 /\ Members(d) = Members(h) \ {t}
        /\ d.ex = [h.ex EXCEPT ![t] = 0]
    BY <1>1, Dropped
  <1>3. (1 = N => Ordered(d)) /\ (1 < N => Bridged(d, 1))
    BY <1>1, DroppedOrder
  <1>4. d.el = <<>> <=> N = 1
    <2> HIDE DEF d
    <2>1. d.el \in Seq(Timers) /\ Len(d.el) = N - 1
      BY <1>2, HeapType DEF Placed
    <2>2. \A s \in Seq(Timers) : s = <<>> <=> Len(s) = 0
      BY EmptySeq
    <2>3. d.el = <<>> <=> N - 1 = 0
      BY <2>1, <2>2, Zenon
    <2>4. QED BY <1>1, <2>3
  <1> HIDE DEF d
  <1>5. CASE N = 1
    BY <1>0, <1>2, <1>3, <1>4, <1>5
  <1>6. CASE N # 1
    <2>1. 1 < N /\ 1 \in 1 .. Len(d.el)
      <3>1. Len(d.el) = N - 1
        BY <1>2
      <3> HIDE DEF N
      <3>2. QED BY <1>1, <1>6, <3>1
    <2>2. DownFrom(d, 1)
      BY <1>3, <2>1 DEF DownFrom
    <2>3. Rearranged(d, Down(d, 1)) /\ Ordered(Down(d, 1))
      BY <1>2, <2>1, <2>2, DownOrders
    <2>4. QED BY <1>0, <1>2, <1>4, <1>6, <2>3 DEF Rearranged
  <1>7. QED BY <1>5, <1>6

\* The first of a heap in order is an earliest: along the parents no expiry gets later.
LEMMA FirstIsEarliest ==
  ASSUME NEW h, Placed(h), Ordered(h)
  PROVE  \A i \in 1 .. Len(h.el) : At(h, 1) <= At(h, i)
  <1> DEFINE T == {n \in Nat : \A i \in 1 .. Len(h.el) : i <= n => At(h, 1) <= At(h, i)}
  <1>1. Len(h.el) \in Nat /\ \A k \in 1 .. Len(h.el) : At(h, k) \in Nat
    BY HeapType, AtType DEF Placed
  <1>2. 0 \in T
    BY <1>1
  <1>3. ASSUME NEW n \in T PROVE n + 1 \in T
    <2>1. n \in Nat /\ n + 1 \in Nat
      OBVIOUS
    <2>2. ASSUME NEW i \in 1 .. Len(h.el), i <= n + 1 PROVE At(h, 1) <= At(h, i)
      <3>1. CASE i = 1
        BY <1>1, <3>1
      <3>2. CASE i # 1
        <4> DEFINE p == i \div 2
        <4>1. i \in Nat /\ i >= 2
          BY <1>1, <3>2
        <4>2. p \in Nat /\ p >= 1 /\ p < i
          BY <4>1, Half
        <4>3. p \in 1 .. Len(h.el) /\ i \in 2 .. Len(h.el) /\ 1 \in 1 .. Len(h.el) /\ p <= n
          BY <1>1, <2>1, <2>2, <4>1, <4>2
        <4>4. At(h, p) <= At(h, i)
          BY <4>3 DEF Ordered, Fits
        <4> HIDE DEF p
        <4>5. At(h, 1) <= At(h, p)
          BY <4>3
        <4>6. QED BY <1>1, <4>3, <4>4, <4>5
      <3>3. QED BY <3>1, <3>2
    <2>3. QED BY <2>1, <2>2
  <1>4. T = Nat
    <2> HIDE DEF T
    <2>1. T \in SUBSET Nat
      BY DEF T
    <2>2. QED BY <1>2, <1>3, <2>1, AllNaturals
  <1>5. Len(h.el) \in T
    BY <1>1, <1>4
  <1>6. QED BY <1>1, <1>5

-----------------------------------------------------------------------------
(* The specification.                                                          *)

\* HeapShape says that the heap is placed and in order.
LEMMA ShapeIsPlaced ==
  HeapShape <=> Placed(Current) /\ Ordered(Current) /\ popped \in SUBSET Timers
  <1>1. Current.el = elements /\ Current.ix = mIndex /\ Current.ex = mExpiredTime
    BY DEF Current, Heap
  <1>2. ASSUME elements \in Seq(Timers) PROVE DOMAIN elements = 1 .. Len(elements)
    BY <1>2, LenProperties
  <1>3. HeapTypeOK <=> Current \in Heaps /\ popped \in SUBSET Timers
    BY DEF HeapTypeOK, Current, Heap, Heaps
  <1>4. ASSUME elements \in Seq(Timers) PROVE Members(Current) = InHeap
    BY <1>1, <1>2, <1>4 DEF Members, InHeap
  <1>5. HeapOrder <=> Ordered(Current)
    BY <1>1 DEF HeapOrder, Ordered, Fits
  <1>6. ASSUME Current \in Heaps PROVE IndexAgrees <=> Placed(Current)
    <2>1. elements \in Seq(Timers)
      BY <1>1, <1>6 DEF Heaps
    <2>2. QED BY <1>1, <1>2, <1>4, <1>6, <2>1 DEF IndexAgrees, Placed
  <1>7. QED BY <1>3, <1>5, <1>6 DEF HeapShape, Placed

\* The heap of the next state.
LEMMA NextHeap ==
  ASSUME NEW h \in Heaps, Becomes(h)
  PROVE  Current' = h /\ InHeap' = Members(h) /\ mExpiredTime' = h.ex
  <1>1. h = [el |-> h.el, ix |-> h.ix, ex |-> h.ex] /\ h.el \in Seq(Timers)
    BY DEF Heaps
  <1>2. elements' = h.el /\ mIndex' = h.ix /\ mExpiredTime' = h.ex
    BY Zenon DEF Becomes
  <1>3. Current' = h
    BY <1>1, <1>2 DEF Current, Heap
  <1>4. DOMAIN h.el = 1 .. Len(h.el)
    BY <1>1, LenProperties
  <1>5. QED BY <1>2, <1>3, <1>4 DEF InHeap, Members

\* The timers of the heap now, and its array.
LEMMA CurrentHeap ==
  ASSUME HeapShape
  PROVE  /\ Placed(Current) /\ Ordered(Current) /\ Members(Current) = InHeap
         /\ Current.el = elements /\ Current.ix = mIndex /\ Current.ex = mExpiredTime
         /\ elements \in Seq(Timers) /\ DOMAIN elements = 1 .. Len(elements)
         /\ InHeap \in SUBSET Timers
  <1>1. Placed(Current) /\ Ordered(Current)
    BY ShapeIsPlaced
  <1>2. Current.el = elements /\ Current.ix = mIndex /\ Current.ex = mExpiredTime
    BY DEF Current, Heap
  <1>3. elements \in Seq(Timers) /\ DOMAIN elements = 1 .. Len(elements)
    BY LenProperties DEF HeapShape, HeapTypeOK
  <1>4. InHeap \in SUBSET Timers
    BY <1>3 DEF InHeap
  <1>5. Members(Current) = InHeap
    BY <1>2, <1>3 DEF Members, InHeap
  <1>6. QED BY <1>1, <1>2, <1>3, <1>4, <1>5

\* What an operation makes of the heap.
Made(h, members, ex) == Placed(h) /\ Ordered(h) /\ Members(h) = members /\ h.ex = ex

LEMMA MadeNext ==
  ASSUME NEW h, NEW members, NEW ex, Made(h, members, ex), Becomes(h), popped' \in SUBSET Timers
  PROVE  HeapShape' /\ InHeap' = members /\ mExpiredTime' = ex
  <1>1. h \in Heaps
    BY DEF Made, Placed
  <1>2. Current' = h /\ InHeap' = members /\ mExpiredTime' = ex
    BY <1>1, NextHeap DEF Made
  <1>3. Placed(Current') /\ Ordered(Current')
    BY <1>2 DEF Made
  <1>4. (HeapShape <=> Placed(Current) /\ Ordered(Current) /\ popped \in SUBSET Timers)'
    BY ShapeIsPlaced, PTL
  <1>5. QED BY <1>2, <1>3, <1>4 DEF Placed, Ordered, Fits, At, Members

LEMMA InsertStep ==
  ASSUME HeapShape, NEW t \in Timers, NEW e \in Expiries, Insert(t, e)
  PROVE  HeapShape' /\ Set!Insert(t, e)
  <1> DEFINE ex == [mExpiredTime EXCEPT ![t] = e]
             h == Heap(elements, mIndex, ex)
  <1>1. t \notin InHeap /\ Becomes(InsertAt(h, t)) /\ popped' = {}
    BY Zenon DEF Insert
  <1>2. h.el = elements /\ h.ix = mIndex /\ h.ex = ex
    BY DEF Heap
  <1>3. /\ Placed(Current) /\ Ordered(Current) /\ Members(Current) = InHeap
        /\ Current.el = elements /\ Current.ix = mIndex /\ Current.ex = mExpiredTime
        /\ elements \in Seq(Timers)
    BY CurrentHeap
  <1>4. h \in Heaps
    <2>1. mExpiredTime \in [Timers -> {0} \cup Expiries] /\ mIndex \in [Timers -> Nat]
      BY DEF HeapShape, HeapTypeOK
    <2>2. ex \in [Timers -> {0} \cup Expiries]
      BY <2>1
    <2>3. QED BY <1>3, <2>1, <2>2 DEF Heap, Heaps
  <1>5. \A u \in InHeap : ex[u] = mExpiredTime[u]
    <2>1. mExpiredTime \in [Timers -> {0} \cup Expiries] /\ InHeap \in SUBSET Timers
      BY CurrentHeap DEF HeapShape, HeapTypeOK
    <2>2. QED BY <1>1, <2>1
  <1> HIDE DEF ex, h
  <1>6. Members(h) = InHeap
    BY <1>2, <1>3 DEF Members
  <1>7. Placed(h)
    BY <1>2, <1>3, <1>4, <1>6 DEF Placed
  <1>8. Ordered(h)
    <2>1. \A k \in 1 .. Len(elements) : At(h, k) = At(Current, k)
      BY <1>2, <1>3, <1>5, <1>6 DEF At, Members
    <2>2. Len(elements) \in Nat
      BY <1>3, LenProperties
    <2>3. \A j \in 2 .. Len(elements) : j \in 1 .. Len(elements) /\ j \div 2 \in 1 .. Len(elements)
      BY <2>2, Half
    <2>4. QED BY <1>2, <1>3, <2>1, <2>3 DEF Ordered, Fits
  <1>9. Made(InsertAt(h, t), InHeap \cup {t}, ex)
    <2>1. t \in Timers \ Members(h)
      BY <1>1, <1>6
    <2>2. QED BY <1>2, <1>6, <1>7, <1>8, <2>1, Inserted DEF Made
  <1>10. HeapShape' /\ InHeap' = InHeap \cup {t} /\ mExpiredTime' = ex
    BY <1>1, <1>9, MadeNext
  <1>11. QED BY <1>1, <1>10 DEF Set!Insert, ex

LEMMA RemoveStep ==
  ASSUME HeapShape, NEW t \in Timers, Remove(t)
  PROVE  HeapShape' /\ Set!Remove(t)
  <1>1. /\ mIndex[t] \in 1 .. Len(elements) /\ elements[mIndex[t]] = t
        /\ Becomes(RemoveAt(Current, t)) /\ popped' = {}
    BY Zenon DEF Remove
  <1>2. /\ Placed(Current) /\ Ordered(Current) /\ Members(Current) = InHeap
        /\ Current.ex = mExpiredTime /\ DOMAIN elements = 1 .. Len(elements)
    BY CurrentHeap
  <1>3. t \in InHeap
    BY <1>1, <1>2 DEF InHeap
  <1>4. Made(RemoveAt(Current, t), InHeap \ {t}, [mExpiredTime EXCEPT ![t] = 0])
    BY <1>2, <1>3, Removed DEF Made
  <1>5. HeapShape' /\ InHeap' = InHeap \ {t} /\ mExpiredTime' = [mExpiredTime EXCEPT ![t] = 0]
    BY <1>1, <1>4, MadeNext
  <1>6. QED BY <1>1, <1>3, <1>5 DEF Set!Remove, Set!Leave

LEMMA PopStep ==
  ASSUME HeapShape, Pop
  PROVE  HeapShape' /\ \E t \in Timers : Set!PopMin(t)
  <1> DEFINE t == elements[1]
  <1>1. elements # <<>> /\ Becomes(PopTop(Current)) /\ popped' = {t}
    BY Zenon DEF Pop
  <1>2. /\ Placed(Current) /\ Ordered(Current) /\ Members(Current) = InHeap
        /\ Current.el = elements /\ Current.ex = mExpiredTime
        /\ elements \in Seq(Timers) /\ DOMAIN elements = 1 .. Len(elements) /\ InHeap \in SUBSET Timers
    BY CurrentHeap
  <1>3. 1 \in DOMAIN elements /\ t \in InHeap /\ t \in Timers
    <2>1. 1 \in DOMAIN elements
      BY <1>1, <1>2
    <2>2. QED BY <1>2, <2>1 DEF InHeap
  <1>4. Made(PopTop(Current), InHeap \ {t}, [mExpiredTime EXCEPT ![t] = 0])
    <2>1. Current.el # <<>> /\ Current.el[1] = t
      BY <1>1, <1>2
    <2>2. QED BY <1>2, <2>1, Popped DEF Made
  <1>5. \A u \in InHeap : mExpiredTime[t] <= mExpiredTime[u]
    <2>1. \A i \in 1 .. Len(elements) : mExpiredTime[t] <= mExpiredTime[elements[i]]
      BY <1>2, FirstIsEarliest DEF At
    <2>2. QED BY <1>2, <2>1 DEF InHeap
  <1> HIDE DEF t
  <1>6. HeapShape' /\ InHeap' = InHeap \ {t} /\ mExpiredTime' = [mExpiredTime EXCEPT ![t] = 0]
    BY <1>1, <1>3, <1>4, MadeNext
  <1>7. Set!PopMin(t)
    BY <1>1, <1>3, <1>5, <1>6 DEF Set!PopMin, Set!Leave
  <1>8. QED BY <1>3, <1>6, <1>7

LEMMA HeapStarts == ASSUME HeapInit PROVE HeapShape /\ Set!Init
  <1>1. elements = <<>> /\ mIndex = [t \in Timers |-> 0] /\ mExpiredTime = [t \in Timers |-> 0]
        /\ popped = {}
    BY DEF HeapInit
  <1>2. Len(elements) = 0 /\ DOMAIN elements = {} /\ InHeap = {} /\ elements \in Seq(Timers)
    BY <1>1 DEF InHeap
  <1>3. QED BY <1>1, <1>2 DEF HeapShape, HeapTypeOK, IndexAgrees, HeapOrder, Set!Init

LEMMA HeapSteps ==
  ASSUME HeapShape, [HeapNext]_heapVars
  PROVE  HeapShape' /\ [Set!Next]_(Set!vars)
  <1>1. CASE Pop
    BY <1>1, PopStep, Zenon DEF Set!Next
  <1>2. ASSUME NEW t \in Timers, Remove(t) PROVE HeapShape' /\ Set!Next
    BY <1>2, RemoveStep, Zenon DEF Set!Next
  <1>3. ASSUME NEW t \in Timers, NEW e \in Expiries, Insert(t, e) PROVE HeapShape' /\ Set!Next
    BY <1>3, InsertStep, Zenon DEF Set!Next
  <1>4. CASE UNCHANGED heapVars
    <2>1. elements' = elements /\ mIndex' = mIndex /\ mExpiredTime' = mExpiredTime /\ popped' = popped
      BY <1>4 DEF heapVars
    <2>2. InHeap' = InHeap
      BY <2>1 DEF InHeap
    <2>3. HeapShape'
      BY <2>1, <2>2 DEF HeapShape, HeapTypeOK, IndexAgrees, HeapOrder, Current, Heap, At
    <2>4. QED BY <2>1, <2>2, <2>3 DEF Set!vars
  <1>5. QED BY <1>1, <1>2, <1>3, <1>4, Zenon DEF HeapNext

THEOREM HeapIsShaped == HeapSpec => []HeapShape
  <1>1. HeapInit => HeapShape
    BY HeapStarts
  <1>2. HeapShape /\ [HeapNext]_heapVars => HeapShape'
    BY HeapSteps
  <1>3. QED BY <1>1, <1>2, PTL DEF HeapSpec

THEOREM HeapIsASet == HeapSpec => ImplementsSet
  <1>1. HeapInit => Set!Init
    BY HeapStarts
  <1>2. HeapShape /\ [HeapNext]_heapVars => [Set!Next]_(Set!vars)
    BY HeapSteps
  <1>3. QED BY <1>1, <1>2, HeapIsShaped, PTL DEF HeapSpec, ImplementsSet, Set!Spec
=============================================================================
