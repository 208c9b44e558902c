-------------------------- MODULE TaskQueueProofs --------------------------
(* Theorems about TaskQueue, for every set of workers and of tasks, with and   *)
(* without swap mode.                                                          *)
EXTENDS TaskQueue, SequenceTheorems, FiniteSetTheorems, TLAPS

\* What one Get hands out and what it leaves: the two parts of the queue.
LEMMA TakeSplit ==
  ASSUME TypeOK, tasks # <<>>
  PROVE  /\ Batch \in 1 .. Len(tasks)
         /\ SubSeq(tasks, 1, Batch) \in Seq(Tasks)
         /\ Len(SubSeq(tasks, 1, Batch)) = Batch
         /\ SubSeq(tasks, Batch + 1, Len(tasks)) \in Seq(Tasks)
         /\ Len(SubSeq(tasks, Batch + 1, Len(tasks))) = Len(tasks) - Batch
         /\ SubSeq(tasks, 1, Batch) \o SubSeq(tasks, Batch + 1, Len(tasks)) = tasks
<1>1. /\ tasks \in Seq(Tasks) /\ Len(tasks) \in Nat \ {0}
      /\ \A i \in 1 .. Len(tasks) : tasks[i] \in Tasks
  BY EmptySeq, LenProperties, ElementOfSeq DEF TypeOK
<1>2. Batch \in 1 .. Len(tasks)
  BY <1>1 DEF Batch
<1>3. /\ SubSeq(tasks, 1, Batch) \in Seq(Tasks)
      /\ Len(SubSeq(tasks, 1, Batch)) = Batch
  <2>1. 1 \in Int /\ Batch \in Int /\ \A i \in 1 .. Batch : tasks[i] \in Tasks
    BY <1>1, <1>2
  <2>2. QED BY <2>1, <1>2, SubSeqProperties
<1>4. /\ SubSeq(tasks, Batch + 1, Len(tasks)) \in Seq(Tasks)
      /\ Len(SubSeq(tasks, Batch + 1, Len(tasks))) = Len(tasks) - Batch
  <2>1. /\ Batch + 1 \in Int /\ Len(tasks) \in Int
        /\ \A i \in Batch + 1 .. Len(tasks) : tasks[i] \in Tasks
    BY <1>1, <1>2
  <2>2. QED BY <2>1, <1>2, SubSeqProperties
<1>5. SubSeq(tasks, 1, Batch) \o SubSeq(tasks, Batch + 1, Len(tasks)) = tasks
  <2>1. /\ 1 \in 1 .. Len(tasks) + 1 /\ Batch \in 1 - 1 .. Len(tasks)
        /\ Len(tasks) \in Batch .. Len(tasks)
    BY <1>1, <1>2
  <2>2. SubSeq(tasks, 1, Batch) \o SubSeq(tasks, Batch + 1, Len(tasks))
          = SubSeq(tasks, 1, Len(tasks))
    BY <1>1, <2>1, ConcatAdjacentSubSeq, Zenon
  <2>3. QED BY <1>1, <2>2, SubSeqFull
<1>6. QED BY <1>2, <1>3, <1>4, <1>5


-----------------------------------------------------------------------------
(* Types, and the count of sleeping threads.                                  *)

\* A worker holds tasks exactly while it runs them.
HeldWhileRunning == \A w \in Workers : held[w] # <<>> <=> pc[w] = "run"

NotStarted == ~inited => pc = [w \in Workers |-> "none"]

Shape == TypeOK /\ HeldWhileRunning /\ NotStarted /\ WattingCount

\* The threads in cv.wait are finitely many, and a set of them loses or gains one.
LEMMA InWaitCount ==
  ASSUME Shape
  PROVE  /\ IsFiniteSet(InWait) /\ Cardinality(InWait) \in Nat
         /\ \A w \in Workers :
              /\ Cardinality(InWait \ {w}) \in Nat
              /\ Cardinality(InWait \ {w})
                   = IF w \in InWait THEN watting - 1 ELSE watting
              /\ Cardinality((InWait \ {w}) \cup {w})
                   = Cardinality(InWait \ {w}) + 1
<1>1. InWait \in SUBSET Workers
  BY DEF InWait, At
<1>2. IsFiniteSet(InWait)
  BY <1>1, WorkersAssumption, FS_Subset
<1>3. Cardinality(InWait) \in Nat
  BY <1>2, FS_CardinalityType
<1>4. ASSUME NEW w \in Workers
      PROVE  /\ IsFiniteSet(InWait \ {w}) /\ Cardinality(InWait \ {w}) \in Nat
             /\ Cardinality(InWait \ {w}) = IF w \in InWait THEN watting - 1 ELSE watting
  BY <1>2, FS_RemoveElement, FS_CardinalityType DEF Shape, WattingCount
<1>5. ASSUME NEW w \in Workers
      PROVE  Cardinality((InWait \ {w}) \cup {w}) = Cardinality(InWait \ {w}) + 1
  BY <1>4, FS_AddElement
<1>6. QED BY <1>2, <1>3, <1>4, <1>5

LEMMA ShapeInit == Init => Shape
<1> SUFFICES ASSUME Init PROVE Shape
  OBVIOUS
<1>2. <<>> \in Seq(Tasks)
  BY EmptySeq
<1>3. InWait = {}
  BY DEF Init, InWait, At
<1>4. WattingCount
  BY <1>3, FS_EmptySet DEF Init, WattingCount
<1>5. QED BY <1>2, <1>4 DEF Init, Shape, TypeOK, HeldWhileRunning, NotStarted, Places

\* cv.notify_one moves a thread from waiting to woken, inside cv.wait.
LEMMA NotifyKeepsShape ==
  ASSUME TypeOK, NotifyIfWatting
  PROVE  /\ pc' \in [Workers -> Places]
         /\ \A w \in Workers : pc'[w] # pc[w] => pc[w] = "waiting" /\ pc'[w] = "woken"
         /\ InWait' = InWait
<1>1. \/ pc' = pc
      \/ \E w \in At("waiting") : pc' = [pc EXCEPT ![w] = "woken"]
  BY DEF NotifyIfWatting, NotifyOne
<1>2. CASE pc' = pc
  BY <1>2 DEF TypeOK, InWait, At
<1>3. CASE \E w \in At("waiting") : pc' = [pc EXCEPT ![w] = "woken"]
  BY <1>3 DEF TypeOK, InWait, At, Places
<1>4. QED BY <1>1, <1>2, <1>3

LEMMA ShapeStep == Shape /\ [Next]_vars => Shape'
<1> SUFFICES ASSUME Shape, [Next]_vars PROVE Shape'
  OBVIOUS
<1> USE DEF Shape
<1>1. CASE PoolInit
  <2>1. PICK W \in SUBSET Workers : pc' = [w \in Workers |-> IF w \in W THEN "get" ELSE "none"]
    BY <1>1 DEF PoolInit
  <2>2. InWait = {} /\ InWait' = {}
    BY <1>1, <2>1 DEF PoolInit, NotStarted, InWait, At
  <2>a. swapMode' \in BOOLEAN
    BY <1>1, Zenon DEF PoolInit
  <2>3. TypeOK'
    BY <1>1, <2>1, <2>a DEF PoolInit, TypeOK, Places
  <2>4. HeldWhileRunning'
    BY <1>1, <2>1 DEF PoolInit, HeldWhileRunning, NotStarted
  <2>5. QED
    BY <1>1, <2>2, <2>3, <2>4 DEF PoolInit, NotStarted, WattingCount
<1>2. ASSUME NEW t \in Tasks, PostTask(t) PROVE Shape'
  <2>1. CASE closed
    BY <1>2, <2>1 DEF PostTask, Pushed, TypeOK, HeldWhileRunning, NotStarted, WattingCount, InWait, At
  <2>2. CASE ~closed
    <3>1. NotifyIfWatting /\ tasks' = Append(tasks, t)
      BY <1>2, <2>2 DEF PostTask, Pushed
    <3>2. Append(tasks, t) \in Seq(Tasks)
      BY AppendProperties DEF TypeOK
    <3>3. /\ pc' \in [Workers -> Places] /\ InWait' = InWait
          /\ \A w \in Workers : pc'[w] # pc[w] => pc[w] = "waiting" /\ pc'[w] = "woken"
      BY <3>1, NotifyKeepsShape
    <3>4. TypeOK'
      BY <1>2, <2>2, <3>1, <3>2, <3>3 DEF PostTask, Pushed, TypeOK
    <3>5. HeldWhileRunning'
      BY <1>2, <3>3 DEF PostTask, Pushed, HeldWhileRunning
    <3>6. NotStarted'
      BY <1>2, <3>3 DEF PostTask, Pushed, NotStarted, TypeOK
    <3>7. QED BY <1>2, <3>3, <3>4, <3>5, <3>6 DEF PostTask, Pushed, WattingCount
  <2>3. QED BY <2>1, <2>2
<1>3. ASSUME NEW w \in Workers, Take(w) PROVE Shape'
  <2>1. InWait' = InWait \ {w}
    BY <1>3 DEF Take, Available, Rest, TypeOK, InWait, At
  <2>2. WattingCount' /\ watting' \in Nat
    BY <1>3, <2>1, InWaitCount, FS_CardinalityType
    DEF Take, Available, Rest, Entering, CountedOut, InWait, At, WattingCount
  <2> DEFINE batch == SubSeq(tasks, 1, Batch)
             rest == SubSeq(tasks, Batch + 1, Len(tasks))
  <2>a. /\ held' = [held EXCEPT ![w] = batch] /\ pc' = [pc EXCEPT ![w] = "run"]
        /\ given' = given \o batch /\ tasks' = rest
    BY <1>3 DEF Take, Available, Rest
  <2>b. /\ batch \in Seq(Tasks) /\ batch # <<>> /\ rest \in Seq(Tasks)
        /\ given \o batch \in Seq(Tasks)
    <3>1. batch \in Seq(Tasks) /\ rest \in Seq(Tasks) /\ Len(batch) # 0
      BY <1>3, TakeSplit DEF Take, Available, Rest
    <3> HIDE DEF batch, rest
    <3>2. given \o batch \in Seq(Tasks)
      BY <3>1, ConcatProperties DEF TypeOK
    <3>3. batch # <<>>
      BY <3>1, EmptySeq
    <3>4. QED BY <3>1, <3>2, <3>3
  <2> HIDE DEF batch, rest
  <2>3. TypeOK'
    BY <1>3, <2>2, <2>a, <2>b DEF Take, Available, Rest, TypeOK, Places
  <2>4. HeldWhileRunning'
    BY <2>a, <2>b DEF HeldWhileRunning, TypeOK
  <2>5. QED BY <1>3, <2>2, <2>3, <2>4 DEF Take, Available, Rest, Entering, NotStarted, TypeOK
<1>4. ASSUME NEW w \in Workers, Wait(w) PROVE Shape'
  <2>1. InWait' = (InWait \ {w}) \cup {w}
    BY <1>4 DEF Wait, TypeOK, InWait, At
  <2>a. CountedOut(w) = Cardinality(InWait \ {w}) /\ CountedOut(w) \in Nat
    BY <1>4, InWaitCount DEF Wait, Entering, CountedOut, InWait, At
  <2>b. Cardinality(InWait') = Cardinality(InWait \ {w}) + 1
    BY <2>1, InWaitCount
  <2>2. WattingCount' /\ watting' \in Nat
    BY <1>4, <2>a, <2>b DEF Wait, WattingCount
  <2>3. TypeOK' /\ HeldWhileRunning' /\ NotStarted'
    BY <1>4, <2>2 DEF Wait, Entering, TypeOK, HeldWhileRunning, NotStarted, Places
  <2>4. QED BY <2>2, <2>3
<1>5. ASSUME NEW w \in Workers, Exit(w) PROVE Shape'
  <2>1. InWait' = InWait \ {w}
    BY <1>5 DEF Exit, AtEnd, TypeOK, InWait, At
  <2>2. WattingCount' /\ watting' \in Nat
    BY <1>5, <2>1, InWaitCount DEF Exit, AtEnd, Entering, CountedOut, InWait, At, WattingCount
  <2>3. TypeOK' /\ HeldWhileRunning' /\ NotStarted'
    BY <1>5, <2>2 DEF Exit, AtEnd, Entering, TypeOK, HeldWhileRunning, NotStarted, Places
  <2>4. QED BY <2>2, <2>3
<1>6. ASSUME NEW w \in Workers, RunTask(w) PROVE Shape'
  <2>1. held[w] \in Seq(Tasks) /\ held[w] # <<>>
    BY <1>6 DEF RunTask, TypeOK, HeldWhileRunning
  <2>2. Head(held[w]) \in Tasks /\ Tail(held[w]) \in Seq(Tasks)
    BY <2>1, HeadTailProperties
  <2>3. InWait' = InWait
    BY <1>6 DEF RunTask, TypeOK, InWait, At
  <2>4. TypeOK'
    BY <1>6, <2>2 DEF RunTask, TypeOK, Places
  <2>5. HeldWhileRunning'
    BY <1>6, <2>2 DEF RunTask, TypeOK, HeldWhileRunning
  <2>6. QED BY <1>6, <2>3, <2>4, <2>5 DEF RunTask, NotStarted, WattingCount, TypeOK
<1>7. ASSUME NEW w \in Workers, SpuriousWakeup(w) PROVE Shape'
  BY <1>7 DEF SpuriousWakeup, TypeOK, HeldWhileRunning, NotStarted, WattingCount, InWait, At, Places
<1>8. CASE Close
  BY <1>8 DEF Close, TypeOK, HeldWhileRunning, NotStarted, WattingCount, InWait, At, Places
<1>9. CASE Join
  BY <1>9 DEF Join, TypeOK, HeldWhileRunning, NotStarted, WattingCount, InWait, At
<1>10. CASE UNCHANGED vars
  BY <1>10 DEF vars, TypeOK, HeldWhileRunning, NotStarted, WattingCount, InWait, At
<1>11. QED
  BY <1>1, <1>2, <1>3, <1>4, <1>5, <1>6, <1>7, <1>8, <1>9, <1>10 DEF Next, Worker

LEMMA ShapeInvariant == Safety => []Shape
  BY ShapeInit, ShapeStep, PTL DEF Safety

\* Type correctness.
THEOREM TypeCorrect == Safety => []TypeOK
<1>1. Shape => TypeOK
  BY DEF Shape
<1>2. QED BY <1>1, ShapeInvariant, PTL

\* watting is the number of threads inside cv.wait whenever the mutex is free, so the
\* test "watting > 0" of PostTask (ThreadPool.cpp:97) sees every sleeper.
THEOREM WattingCorrect == Safety => []WattingCount
<1>1. Shape => WattingCount
  BY DEF Shape
<1>2. QED BY <1>1, ShapeInvariant, PTL

-----------------------------------------------------------------------------
(* No lost wakeup.                                                            *)

\* The threads on their way to the queue.
Coming == At("get") \cup At("woken")

LEMMA ComingCount ==
  /\ IsFiniteSet(Coming) /\ Cardinality(Coming) \in Nat
  /\ IsFiniteSet(Coming') /\ Cardinality(Coming') \in Nat
<1>1. Coming \in SUBSET Workers /\ Coming' \in SUBSET Workers
  BY DEF Coming, At
<1>2. QED BY <1>1, WorkersAssumption, FS_Subset, FS_CardinalityType

LEMMA WakeupInit == Init => NoLostWakeup
  BY DEF Init, NoLostWakeup, At

\* A step that adds no sleeper and no task, and takes no thread from its way to the
\* queue, leaves none behind.
LEMMA WakeupStep ==
  Shape /\ Shape' /\ NoLostWakeup /\ [Next]_vars => NoLostWakeup'
<1> SUFFICES ASSUME Shape, Shape', NoLostWakeup, [Next]_vars, At("waiting")' # {}
             PROVE  Len(tasks') <= Cardinality(Coming')
  BY DEF NoLostWakeup, Coming
<1>0. Len(tasks) \in Nat /\ Len(tasks') \in Nat
  BY LenProperties DEF Shape, TypeOK
<1>a. ASSUME At("waiting") # {}, tasks' = tasks, Coming \subseteq Coming'
      PROVE  Len(tasks') <= Cardinality(Coming')
  <2>1. Cardinality(Coming) <= Cardinality(Coming')
    BY <1>a, ComingCount, FS_Subset
  <2>2. QED BY <1>0, <1>a, <2>1, ComingCount DEF NoLostWakeup, Coming
<1>1. ASSUME PoolInit PROVE FALSE
  BY <1>1 DEF PoolInit, At
<1>2. ASSUME NEW t \in Tasks, PostTask(t) PROVE Len(tasks') <= Cardinality(Coming')
  <2>1. CASE closed
    BY <1>2, <2>1, <1>a DEF PostTask, Pushed, Coming, At
  <2>2. CASE ~closed
    <3>1. NotifyIfWatting /\ Len(tasks') = Len(tasks) + 1
      BY <1>2, <2>2, AppendProperties DEF PostTask, Pushed, Shape, TypeOK
    <3>2. At("waiting") # {}
      BY <3>1, NotifyKeepsShape DEF Shape, At
    <3>3. watting > 0
      <4>1. InWait # {} /\ Cardinality(InWait) # 0
        BY <3>2, InWaitCount, FS_EmptySet DEF InWait
      <4>2. QED BY <4>1, InWaitCount DEF Shape, WattingCount
    <3>4. PICK v \in At("waiting") : pc' = [pc EXCEPT ![v] = "woken"]
      BY <3>1, <3>2, <3>3 DEF NotifyIfWatting, NotifyOne
    <3>5. Coming' = Coming \cup {v} /\ v \notin Coming
      BY <3>4 DEF Coming, At, Shape, TypeOK
    <3>6. Cardinality(Coming') = Cardinality(Coming) + 1
      BY <3>5, ComingCount, FS_AddElement
    <3>7. QED BY <1>0, <3>1, <3>2, <3>6, ComingCount DEF NoLostWakeup, Coming
  <2>3. QED BY <2>1, <2>2
<1>3. ASSUME NEW w \in Workers, Take(w) PROVE Len(tasks') <= Cardinality(Coming')
  <2>1. At("waiting") # {} /\ Coming' = Coming \ {w} /\ w \in Coming
    BY <1>3 DEF Take, Available, Rest, Entering, Coming, At, Shape, TypeOK
  <2>2. Cardinality(Coming') = Cardinality(Coming) - 1
    BY <2>1, ComingCount, FS_RemoveElement
  <2>3. Len(tasks') = Len(tasks) - Batch /\ Batch \in 1 .. Len(tasks)
    BY <1>3, TakeSplit DEF Take, Available, Rest, Shape
  <2>4. QED BY <1>0, <2>1, <2>2, <2>3, ComingCount DEF NoLostWakeup, Coming
<1>4. ASSUME NEW w \in Workers, Wait(w) PROVE Len(tasks') <= Cardinality(Coming')
  <2>1. Len(tasks') = 0
    BY <1>4, EmptySeq DEF Wait
  <2>2. QED BY <2>1, ComingCount
<1>5. ASSUME NEW w \in Workers, Exit(w) PROVE Len(tasks') <= Cardinality(Coming')
  <2>1. Len(tasks') = 0
    BY <1>5, EmptySeq DEF Exit, AtEnd
  <2>2. QED BY <2>1, ComingCount
<1>6. ASSUME NEW w \in Workers, RunTask(w) PROVE Len(tasks') <= Cardinality(Coming')
  BY <1>6, <1>a DEF RunTask, Shape, TypeOK, Coming, At
<1>7. ASSUME NEW w \in Workers, SpuriousWakeup(w)
      PROVE  Len(tasks') <= Cardinality(Coming')
  BY <1>7, <1>a DEF SpuriousWakeup, Shape, TypeOK, Coming, At
<1>8. ASSUME Close PROVE FALSE
  BY <1>8 DEF Close, At
<1>9. CASE Join
  BY <1>9, <1>a DEF Join, Coming, At
<1>10. CASE UNCHANGED vars
  BY <1>10, <1>a DEF vars, Coming, At
<1>11. QED
  BY <1>1, <1>2, <1>3, <1>4, <1>5, <1>6, <1>7, <1>8, <1>9, <1>10 DEF Next, Worker

\* No wakeup is lost: while a thread sleeps, each queued task has a thread of its own
\* coming for it, so one notify_one per post is enough (ThreadPool.cpp:97-99).
THEOREM NoWakeupIsLost == Safety => []NoLostWakeup
<1>1. Init => NoLostWakeup
  BY WakeupInit
<1>2. QED BY <1>1, WakeupStep, ShapeInvariant, PTL DEF Safety

-----------------------------------------------------------------------------
(* Elements and repetitions of sequences.                                     *)

LEMMA ConcatElements ==
  ASSUME NEW S, NEW s \in Seq(S), NEW t \in Seq(S)
  PROVE  Elements(s \o t) = Elements(s) \cup Elements(t)
<1> DEFINE st == s \o t
<1>1. /\ Len(s) \in Nat /\ Len(t) \in Nat /\ Len(st) = Len(s) + Len(t)
      /\ \A i \in 1 .. Len(s) + Len(t) :
           st[i] = IF i <= Len(s) THEN s[i] ELSE t[i - Len(s)]
  BY LenProperties, ConcatProperties
<1> HIDE DEF st
<1>2. ASSUME NEW x \in Elements(st) PROVE x \in Elements(s) \cup Elements(t)
  <2>1. PICK i \in 1 .. Len(st) : x = st[i]
    BY <1>2 DEF Elements
  <2>2. CASE i <= Len(s)
    <3>1. i \in 1 .. Len(s) /\ x = s[i]
      BY <1>1, <2>1, <2>2
    <3>2. QED BY <3>1 DEF Elements
  <2>3. CASE ~(i <= Len(s))
    <3>1. i - Len(s) \in 1 .. Len(t) /\ x = t[i - Len(s)]
      BY <1>1, <2>1, <2>3
    <3>2. QED BY <3>1 DEF Elements
  <2>4. QED BY <2>2, <2>3
<1>3. ASSUME NEW x \in Elements(s) PROVE x \in Elements(st)
  <2>1. PICK i \in 1 .. Len(s) : x = s[i]
    BY <1>3 DEF Elements
  <2>2. i \in 1 .. Len(st) /\ x = st[i]
    BY <1>1, <2>1
  <2>3. QED BY <2>2 DEF Elements
<1>4. ASSUME NEW x \in Elements(t) PROVE x \in Elements(st)
  <2>1. PICK i \in 1 .. Len(t) : x = t[i]
    BY <1>4 DEF Elements
  <2>2. i + Len(s) \in 1 .. Len(st) /\ x = st[i + Len(s)]
    BY <1>1, <2>1
  <2>3. QED BY <2>2 DEF Elements
<1>5. Elements(st) = Elements(s) \cup Elements(t)
  BY <1>2, <1>3, <1>4
<1>6. QED BY <1>5 DEF st

LEMMA ConcatDistinct ==
  ASSUME NEW S, NEW s \in Seq(S), NEW t \in Seq(S)
  PROVE  Distinct(s \o t)
           <=> Distinct(s) /\ Distinct(t) /\ Elements(s) \cap Elements(t) = {}
<1> DEFINE st == s \o t
<1>1. /\ Len(s) \in Nat /\ Len(t) \in Nat /\ Len(st) = Len(s) + Len(t)
      /\ \A i \in 1 .. Len(s) + Len(t) :
           st[i] = IF i <= Len(s) THEN s[i] ELSE t[i - Len(s)]
  BY LenProperties, ConcatProperties
<1> HIDE DEF st
<1>2. \A i \in 1 .. Len(s) : i \in 1 .. Len(st) /\ s[i] = st[i]
  BY <1>1
<1>3. \A i \in 1 .. Len(t) : i + Len(s) \in 1 .. Len(st) /\ t[i] = st[i + Len(s)]
  BY <1>1
<1>4. ASSUME Distinct(st)
      PROVE  Distinct(s) /\ Distinct(t) /\ Elements(s) \cap Elements(t) = {}
  <2>1. Distinct(s)
    BY <1>2, <1>4 DEF Distinct
  <2>2. ASSUME NEW i \in 1 .. Len(t), NEW j \in 1 .. Len(t), i # j PROVE t[i] # t[j]
    <3>1. i + Len(s) # j + Len(s)
      BY <1>1, <2>2
    <3>2. QED BY <1>3, <1>4, <3>1 DEF Distinct
  <2>3. ASSUME NEW i \in 1 .. Len(s), NEW j \in 1 .. Len(t) PROVE s[i] # t[j]
    <3>1. i # j + Len(s)
      BY <1>1
    <3>2. QED BY <1>2, <1>3, <1>4, <3>1 DEF Distinct
  <2>4. QED BY <2>1, <2>2, <2>3 DEF Distinct, Elements
<1>5. ASSUME Distinct(s), Distinct(t), Elements(s) \cap Elements(t) = {}
      PROVE  Distinct(st)
  <2>1. \A i \in 1 .. Len(s), j \in 1 .. Len(t) : s[i] # t[j]
    BY <1>5 DEF Elements
  <2>2. SUFFICES ASSUME NEW i \in 1 .. Len(st), NEW j \in 1 .. Len(st), i # j
                 PROVE  st[i] # st[j]
    BY DEF Distinct
  <2>3. \A k \in 1 .. Len(st) :
          \/ k \in 1 .. Len(s) /\ st[k] = s[k]
          \/ k - Len(s) \in 1 .. Len(t) /\ st[k] = t[k - Len(s)]
    BY <1>1
  <2>4. i - Len(s) # j - Len(s)
    BY <1>1, <2>2
  <2>5. QED BY <1>5, <2>1, <2>2, <2>3, <2>4 DEF Distinct
<1>6. QED BY <1>4, <1>5 DEF st

LEMMA SingletonSeq ==
  ASSUME NEW S, NEW e \in S
  PROVE  <<e>> \in Seq(S) /\ Elements(<<e>>) = {e} /\ Distinct(<<e>>)
  BY DEF Elements, Distinct

LEMMA HeadTailElements ==
  ASSUME NEW S, NEW s \in Seq(S), s # <<>>
  PROVE  /\ Elements(s) = {Head(s)} \cup Elements(Tail(s))
         /\ Distinct(s) => Head(s) \notin Elements(Tail(s)) /\ Distinct(Tail(s))
<1>1. Head(s) \in S /\ Tail(s) \in Seq(S) /\ s = <<Head(s)>> \o Tail(s)
  <2>1. Len(s) \in Nat \ {0}
    BY EmptySeq
  <2>2. Head(s) \in S /\ Tail(s) \in Seq(S) /\ Tail(s) = SubSeq(s, 2, Len(s)) /\ Head(s) = s[1]
    BY HeadTailProperties, TailIsSubSeq
  <2>3. s = <<s[1]>> \o SubSeq(s, 1 + 1, Len(s))
    BY <2>1, SubSeqRecursiveFirst, SubSeqFull
  <2>4. QED BY <2>2, <2>3
<1>2. <<Head(s)>> \in Seq(S) /\ Elements(<<Head(s)>>) = {Head(s)}
  BY <1>1, SingletonSeq
<1> DEFINE h == <<Head(s)>>
           tl == Tail(s)
<1>3. h \in Seq(S) /\ tl \in Seq(S) /\ s = h \o tl
  BY <1>1, <1>2
<1>4. /\ Elements(s) = Elements(h) \cup Elements(tl)
      /\ Distinct(s) => Distinct(tl) /\ Elements(h) \cap Elements(tl) = {}
  <2> HIDE DEF h, tl
  <2>1. QED BY <1>3, ConcatElements, ConcatDistinct
<1>5. QED BY <1>2, <1>4

-----------------------------------------------------------------------------
(* Each accepted task is handed out, and run, once.                           *)

Once ==
  /\ EachTaskOnce
  /\ accepted \subseteq posted
  /\ \A w \in Workers : Distinct(held[w])

LEMMA OnceInit == Init => Once
<1> SUFFICES ASSUME Init PROVE Once
  OBVIOUS
<1>1. given \o tasks = <<>> /\ Len(<<>>) = 0
  BY ConcatEmptySeq, EmptySeq DEF Init
<1>2. Elements(<<>>) = {} /\ Distinct(<<>>)
  BY <1>1 DEF Elements, Distinct
<1>3. InHand = {}
  BY <1>2 DEF Init, InHand
<1>4. QED BY <1>1, <1>2, <1>3 DEF Init, Once, EachTaskOnce

LEMMA OnceStep == Shape /\ Once /\ [Next]_vars => Once'
<1> SUFFICES ASSUME Shape, Once, [Next]_vars PROVE Once'
  OBVIOUS
<1> USE DEF Shape, Once
<1>0. UNCHANGED <<tasks, given, held, accepted, completed>> /\ posted \subseteq posted' => Once'
  BY DEF EachTaskOnce, InHand
<1>1. CASE PoolInit
  BY <1>0, <1>1 DEF PoolInit
<1>2. ASSUME NEW t \in Tasks, PostTask(t) PROVE Once'
  <2>1. CASE closed
    BY <1>0, <1>2, <2>1 DEF PostTask, Pushed
  <2>2. CASE ~closed
    <3> DEFINE history == given \o tasks
               new == <<t>>
    <3>1. /\ history \in Seq(Tasks) /\ new \in Seq(Tasks)
          /\ Elements(new) = {t} /\ Distinct(new)
      BY ConcatProperties, SingletonSeq DEF TypeOK
    <3>2. (given \o tasks)' = history \o new
      <4>1. tasks' = tasks \o new /\ given' = given
        BY <1>2, <2>2, AppendIsConcat DEF PostTask, Pushed, TypeOK
      <4>a. given \in Seq(Tasks) /\ tasks \in Seq(Tasks)
        BY DEF TypeOK
      <4> HIDE DEF new, history
      <4>2. (given \o tasks) \o new = given \o (tasks \o new)
        BY <3>1, <4>a, ConcatAssociative
      <4>3. QED BY <4>1, <4>2 DEF history
    <3>3. /\ Distinct(history) /\ Elements(history) = accepted /\ t \notin accepted
          /\ accepted' = accepted \cup {t}
          /\ UNCHANGED <<given, completed, held>> /\ posted' = posted \cup {t}
      BY <1>2, <2>2 DEF PostTask, Pushed, EachTaskOnce
    <3> HIDE DEF history, new
    <3>4. Distinct(history \o new) /\ Elements(history \o new) = accepted'
      BY <3>1, <3>3, ConcatDistinct, ConcatElements
    <3>5. InHand' = InHand /\ accepted' \subseteq posted'
      BY <3>3 DEF InHand
    <3>6. EachTaskOnce'
      BY <3>2, <3>3, <3>4, <3>5 DEF EachTaskOnce
    <3>7. QED BY <3>3, <3>5, <3>6
  <2>3. QED BY <2>1, <2>2
<1>3. ASSUME NEW w \in Workers, Take(w) PROVE Once'
  <2> DEFINE batch == SubSeq(tasks, 1, Batch)
             rest == SubSeq(tasks, Batch + 1, Len(tasks))
  <2>1. /\ held' = [held EXCEPT ![w] = batch] /\ given' = given \o batch /\ tasks' = rest
        /\ UNCHANGED <<accepted, posted, completed>>
    BY <1>3 DEF Take, Available, Rest
  <2>2. /\ batch \in Seq(Tasks) /\ rest \in Seq(Tasks) /\ given \in Seq(Tasks)
        /\ tasks = batch \o rest
    BY <1>3, TakeSplit DEF Take, Available, Rest, TypeOK
  <2>3. held[w] = <<>> /\ Elements(<<>>) = {}
    BY <1>3, EmptySeq DEF Take, Available, Rest, Entering, HeldWhileRunning, Elements
  <2> HIDE DEF batch, rest
  <2>4. (given \o tasks)' = given \o tasks
    BY <2>1, <2>2, ConcatAssociative
  <2>5. /\ Elements(given') = Elements(given) \cup Elements(batch)
        /\ Distinct(batch) /\ Elements(given) \cap Elements(batch) = {}
    <3>1. given' \in Seq(Tasks) /\ Distinct(given' \o rest)
      BY <2>1, <2>2, <2>4, ConcatProperties DEF EachTaskOnce
    <3>2. Distinct(given \o batch)
      BY <2>1, <2>2, <3>1, ConcatDistinct
    <3>3. QED BY <2>1, <2>2, <3>2, ConcatElements, ConcatDistinct
  <2>6. /\ held'[w] = batch
        /\ \A v \in Workers : v # w => held'[v] = held[v]
    BY <2>1 DEF TypeOK
  <2>7. InHand' = InHand \cup Elements(batch)
    BY <2>3, <2>6 DEF InHand
  <2>8. \A v \in Workers : Elements(held[v]) \subseteq Elements(given)
    BY DEF EachTaskOnce, InHand
  <2>9. EachTaskOnce'
    BY <2>1, <2>4, <2>5, <2>6, <2>7, <2>8 DEF EachTaskOnce
  <2>10. QED BY <2>1, <2>5, <2>6, <2>9
<1>4. ASSUME NEW w \in Workers, Wait(w) PROVE Once'
  BY <1>0, <1>4 DEF Wait
<1>5. ASSUME NEW w \in Workers, Exit(w) PROVE Once'
  BY <1>0, <1>5 DEF Exit, AtEnd
<1>6. ASSUME NEW w \in Workers, RunTask(w) PROVE Once'
  <2> DEFINE t == Head(held[w])
             left == Tail(held[w])
  <2>1. held[w] \in Seq(Tasks) /\ held[w] # <<>>
    BY <1>6 DEF RunTask, TypeOK, HeldWhileRunning
  <2>2. /\ Elements(held[w]) = {t} \cup Elements(left)
        /\ t \notin Elements(left) /\ Distinct(left)
    BY <2>1, HeadTailElements
  <2>3. /\ held' = [held EXCEPT ![w] = left] /\ completed' = completed \cup {t}
        /\ UNCHANGED <<given, tasks, accepted, posted>>
    BY <1>6 DEF RunTask
  <2> HIDE DEF t, left
  <2>4. /\ held'[w] = left
        /\ \A v \in Workers : v # w => held'[v] = held[v]
    BY <2>3 DEF TypeOK
  <2>5. InHand' = InHand \ {t} /\ t \in InHand
    BY <2>2, <2>4 DEF InHand, EachTaskOnce
  <2>6. EachTaskOnce'
    BY <2>2, <2>3, <2>4, <2>5 DEF EachTaskOnce
  <2>7. QED BY <2>2, <2>3, <2>4, <2>6
<1>7. ASSUME NEW w \in Workers, SpuriousWakeup(w) PROVE Once'
  BY <1>0, <1>7 DEF SpuriousWakeup
<1>8. CASE Close
  BY <1>0, <1>8 DEF Close
<1>9. CASE Join
  BY <1>0, <1>9 DEF Join
<1>10. CASE UNCHANGED vars
  BY <1>0, <1>10 DEF vars
<1>11. QED
  BY <1>1, <1>2, <1>3, <1>4, <1>5, <1>6, <1>7, <1>8, <1>9, <1>10 DEF Next, Worker

\* No accepted task is lost, and none is handed out or run twice.
THEOREM TasksRunOnce == Safety => []EachTaskOnce
<1>1. Once => EachTaskOnce
  BY DEF Once
<1>2. QED BY <1>1, OnceInit, OnceStep, ShapeInvariant, PTL DEF Safety

-----------------------------------------------------------------------------
(* The drain on Close, and the join.                                          *)

Drained ==
  /\ inited => \E w \in Workers : pc[w] # "none"
  /\ joined => closed /\ \A w \in Workers : pc[w] \in {"none", "exited"}
  /\ At("exited") # {} => closed /\ tasks = <<>>

LEMMA DrainedStep == Shape /\ Drained /\ [Next]_vars => Drained'
<1> SUFFICES ASSUME Shape, Drained, [Next]_vars PROVE Drained'
  OBVIOUS
<1> USE DEF Shape, Drained, TypeOK, At
<1>1. CASE PoolInit
  <2>1. PICK n \in 0 .. Cardinality(Workers), W \in SUBSET Workers :
          /\ Cardinality(W) = Threads(n)
          /\ pc' = [w \in Workers |-> IF w \in W THEN "get" ELSE "none"]
    BY <1>1 DEF PoolInit
  <2>2. W # {}
    <3>1. Threads(n) # 0
      BY DEF Threads
    <3>2. QED BY <2>1, <3>1, FS_EmptySet
  <2>3. QED BY <1>1, <2>1, <2>2 DEF PoolInit
<1>2. ASSUME NEW t \in Tasks, PostTask(t) PROVE Drained'
  <2>1. CASE closed
    BY <1>2, <2>1 DEF PostTask, Pushed
  <2>2. CASE ~closed
    BY <1>2, <2>2, NotifyKeepsShape DEF PostTask, Pushed
  <2>3. QED BY <2>1, <2>2
<1>3. ASSUME NEW w \in Workers, Take(w) PROVE Drained'
  BY <1>3 DEF Take, Available, Rest, Entering
<1>4. ASSUME NEW w \in Workers, Wait(w) PROVE Drained'
  BY <1>4 DEF Wait, Entering
<1>5. ASSUME NEW w \in Workers, Exit(w) PROVE Drained'
  BY <1>5 DEF Exit, AtEnd, Entering
<1>6. ASSUME NEW w \in Workers, RunTask(w) PROVE Drained'
  BY <1>6 DEF RunTask
<1>7. ASSUME NEW w \in Workers, SpuriousWakeup(w) PROVE Drained'
  BY <1>7 DEF SpuriousWakeup
<1>8. CASE Close
  BY <1>8 DEF Close
<1>9. CASE Join
  BY <1>9 DEF Join
<1>10. CASE UNCHANGED vars
  BY <1>10 DEF vars
<1>11. QED
  BY <1>1, <1>2, <1>3, <1>4, <1>5, <1>6, <1>7, <1>8, <1>9, <1>10 DEF Next, Worker

\* When ~ThreadPool returns, a pool that was started has run every task it accepted.
THEOREM JoinDrains == Safety => []JoinedMeansDone
<1>1. Init => Drained
  BY DEF Init, Drained, At
<1>2. Shape /\ Drained /\ Once => JoinedMeansDone
  <2> SUFFICES ASSUME Shape, Drained, Once, joined, inited
               PROVE  tasks = <<>> /\ completed = accepted
    BY DEF JoinedMeansDone
  <2>1. tasks = <<>> /\ \A w \in Workers : held[w] = <<>>
    BY DEF Shape, Drained, HeldWhileRunning, At
  <2>2. InHand = {}
    <3>1. Elements(<<>>) = {}
      BY EmptySeq DEF Elements
    <3>2. QED BY <2>1, <3>1 DEF InHand
  <2>3. given \o tasks = given
    BY <2>1, ConcatEmptySeq DEF Shape, TypeOK
  <2>4. QED BY <2>1, <2>2, <2>3 DEF Once, EachTaskOnce
<1>3. QED
  BY <1>1, <1>2, DrainedStep, OnceInit, OnceStep, ShapeInvariant, PTL DEF Safety

-----------------------------------------------------------------------------
(* The pool implements the promised queue.                                    *)

FaultOnlyInDrain == crashed => closed /\ ~swapMode /\ Tasks # Owned

\* A pool faults only in the drain of the one-task mode, and only over a task that no
\* one else owns (ThreadPool.cpp:72-74).
THEOREM FaultsInDrain == Safety => []FaultOnlyInDrain
<1>1. Init => FaultOnlyInDrain
  BY DEF Init, FaultOnlyInDrain
<1>2. Shape /\ FaultOnlyInDrain /\ [Next]_vars => FaultOnlyInDrain'
  <2> SUFFICES ASSUME Shape, FaultOnlyInDrain, [Next]_vars
               PROVE  FaultOnlyInDrain'
    OBVIOUS
  <2>1. ASSUME NEW w \in Workers, Take(w) PROVE FaultOnlyInDrain'
    <3>1. Head(tasks) \in Tasks
      BY <2>1, HeadTailProperties DEF Take, Available, Shape, TypeOK
    <3>2. UNCHANGED <<closed, swapMode>> /\ (crashed' => MayDangle(Head(tasks)))
      BY <2>1, Zenon DEF Take
    <3>3. QED BY <3>1, <3>2 DEF MayDangle, FaultOnlyInDrain
  <2>2. ASSUME NEW w \in Workers, Wait(w) \/ Exit(w) \/ RunTask(w) \/ SpuriousWakeup(w)
        PROVE  FaultOnlyInDrain'
    BY <2>2 DEF Wait, Exit, RunTask, SpuriousWakeup, FaultOnlyInDrain
  <2>3. ASSUME NEW t \in Tasks, PostTask(t) PROVE FaultOnlyInDrain'
    BY <2>3 DEF PostTask, FaultOnlyInDrain
  <2>4. CASE PoolInit \/ Close \/ Join \/ UNCHANGED vars
    BY <2>4 DEF PoolInit, Close, Join, vars, FaultOnlyInDrain
  <2>5. QED BY <2>1, <2>2, <2>3, <2>4 DEF Next, Worker
<1>3. QED BY <1>1, <1>2, ShapeInvariant, PTL DEF Safety

\* Every step of the pool is a step of TaskFifo or leaves its variables alone; progress,
\* the fairness of TaskFifo, is left to the runs.
THEOREM ImplementsFifo == Safety => FifoSafety
<1>1. Init => Fifo!Init
  BY DEF Init, Fifo!Init
<1>2. Shape /\ FaultOnlyInDrain /\ [Next]_vars => [Fifo!Next]_Fifo!vars
  <2> SUFFICES ASSUME Shape, FaultOnlyInDrain, [Next]_vars, ~UNCHANGED Fifo!vars PROVE Fifo!Next
    OBVIOUS
  <2>1. CASE PoolInit
    BY <2>1 DEF PoolInit, Fifo!Next, Fifo!Serve, FaultOnlyInDrain
  <2>2. ASSUME NEW t \in Tasks, PostTask(t) PROVE Fifo!Next
    BY <2>2 DEF PostTask, Pushed, Fifo!Next, Fifo!Put, Fifo!vars
  <2>3. ASSUME NEW w \in Workers, Take(w) PROVE Fifo!Next
    <3>1. Batch \in 1 .. Len(tasks)
      BY <2>3, TakeSplit DEF Take, Available, Rest, Shape
    <3>2. inited /\ ~crashed
      BY <2>3 DEF Take, Available, Rest, Entering, Shape, NotStarted
    <3>3. (inited /\ ~crashed)' \in IF ~closed THEN {TRUE} ELSE BOOLEAN
      BY <2>3, <3>2, Zenon DEF Take, MayDangle
    <3>4. Fifo!Take(Batch)
      BY <2>3, <3>2, <3>3 DEF Take, Available, Rest, Fifo!Take
    <3>5. QED BY <3>1, <3>4 DEF Fifo!Next, Fifo!TakeSome
  <2>4. ASSUME NEW w \in Workers, Wait(w) \/ Exit(w) \/ RunTask(w) \/ SpuriousWakeup(w)
        PROVE  FALSE
    BY <2>4 DEF Wait, Exit, AtEnd, RunTask, SpuriousWakeup, Fifo!vars
  <2>5. CASE Close
    BY <2>5 DEF Close, Fifo!Next, Fifo!Shut
  <2>6. ASSUME Join \/ UNCHANGED vars PROVE FALSE
    BY <2>6 DEF Join, vars, Fifo!vars
  <2>7. QED BY <2>1, <2>2, <2>3, <2>4, <2>5, <2>6 DEF Next, Worker
<1>3. QED BY <1>1, <1>2, ShapeInvariant, FaultsInDrain, PTL DEF Safety, FifoSafety, Fifo!Safety

-----------------------------------------------------------------------------
\* No sleeper is missed, no task is lost or run twice, and the join leaves none behind, for
\* any workers and tasks (ThreadPool.cpp:17-104).
THEOREM PoolStaysSound == Safety => []PoolIsSound
  BY NoWakeupIsLost, TasksRunOnce, JoinDrains, PTL DEF PoolIsSound
=============================================================================
