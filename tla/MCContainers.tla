---------------------------- MODULE MCContainers ----------------------------
(* One run for the two containers: a free list of sendContext (SendContextPool) *)
(* or the heap of timers (TimerHeap).                                           *)
EXTENDS SendContextPool, TimerHeap, TLC

CONSTANTS m1, m2, m3, m4, m5, m6, t1, t2, t3, t4, t5, t6

SixContexts == {m1, m2, m3, m4, m5, m6}
SixTimers == {t1, t2, t3, t4, t5, t6}
OneToFour == 1 .. 4

TimersAlike == Permutations(Timers)

VARIABLE part
all == <<part, vars, heapVars>>

BothInit == part \in {"pool", "heap"} /\ Init /\ HeapInit

BothNext ==
  \/ part = "pool" /\ Next /\ UNCHANGED <<part, heapVars>>
  \/ part = "heap" /\ HeapNext /\ UNCHANGED <<part, vars>>

BothSpec == BothInit /\ [][BothNext]_all
=============================================================================
