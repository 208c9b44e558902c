----------------------------- MODULE TimerHeap -----------------------------
(* The binary heap of TimerMgr (util/Timer.h): elements is the array up to       *)
(* elements_size, places are counted from 1, and every timer knows its place.   *)
(* Each operation runs under the manager's lock and is one action.              *)
EXTENDS Integers, Sequences

CONSTANTS
  Timers,
  Expiries  \* bound: the values of mExpiredTime

ASSUME ExpiriesAssumption == Expiries \subseteq Nat \ {0}

VARIABLES
  elements, mIndex,
  mExpiredTime,  \* 0 for a timer outside the heap, whose expiry nobody reads
  popped         \* history: what the last operation popped

heapVars == <<elements, mIndex, mExpiredTime, popped>>

\* The timers in the heap.
InHeap == {elements[i] : i \in DOMAIN elements}

HeapTypeOK ==
  /\ elements \in Seq(Timers)
  /\ mIndex \in [Timers -> Nat]
  /\ mExpiredTime \in [Timers -> {0} \cup Expiries]
  /\ popped \in SUBSET Timers

HeapInit ==
  /\ elements = <<>>
  /\ mIndex = [t \in Timers |-> 0] /\ mExpiredTime = [t \in Timers |-> 0]
  /\ popped = {}

-----------------------------------------------------------------------------
(* The operators work on a heap h, a record of the array (el), the places (ix)  *)
(* and the expiry of each timer (ex).                                           *)

Heap(el, ix, ex) == [el |-> el, ix |-> ix, ex |-> ex]
Heaps == [el : Seq(Timers), ix : [Timers -> Nat], ex : [Timers -> {0} \cup Expiries]]

At(h, i) == h.ex[h.el[i]]

Swap(h, i, j) ==
  [h EXCEPT !.el = [@ EXCEPT ![i] = h.el[j], ![j] = h.el[i]],
            !.ix = [@ EXCEPT ![h.el[j]] = i, ![h.el[i]] = j]]

\* [mutation] The right child is not looked at.
SmallestLeft(h, i) == IF 2 * i <= Len(h.el) /\ At(h, 2 * i) < At(h, i) THEN 2 * i ELSE i

\* The place among i and its children where down goes on.
Smallest(h, i) ==
  LET l == 2 * i
      r == 2 * i + 1
      min == IF l <= Len(h.el) /\ At(h, l) < At(h, i) THEN l ELSE i
  IN  IF r <= Len(h.el) /\ At(h, r) < At(h, min) THEN r ELSE min

\* What down and up go through, round by round: a heap and the place they are at in it.  The
\* round in which they stop would leave both.
Loop(round, start) ==
  LET at[n \in Nat] == IF n = 0 THEN start ELSE round[at[n - 1]] IN at

DownRound ==
  [s \in Heaps \X Nat |->
     LET m == Smallest(s[1], s[2]) IN IF m = s[2] THEN s ELSE <<Swap(s[1], s[2], m), m>>]

UpRound ==
  [s \in Heaps \X Nat |->
     LET p == s[2] \div 2 IN
     IF p > 0 /\ At(s[1], s[2]) < At(s[1], p) THEN <<Swap(s[1], s[2], p), p>> ELSE s]

\* The place grows up to the last one in down, and gets less in up.
Down(h, i) == Loop(DownRound, <<h, i>>)[Len(h.el)][1]
Up(h, i) == Loop(UpRound, <<h, i>>)[i][1]

\* [mutation] A timer never moves up from where it was put.
ChangeDown(h, t) == Down(h, h.ix[t])

\* change: down, and up if it stayed where it was.
Change(h, t) ==
  LET d == Down(h, h.ix[t]) IN IF d.ix[t] = h.ix[t] THEN Up(d, h.ix[t]) ELSE d

\* insert at the end, and up.
InsertAt(h, t) ==
  LET n == Len(h.el) + 1 IN Up([h EXCEPT !.el = Append(@, t), !.ix[t] = n], n)

\* The last place is given up, with the timer that was swapped there.
DropLast(h, t) == [h EXCEPT !.el = SubSeq(@, 1, Len(@) - 1), !.ix[t] = 0, !.ex[t] = 0]

\* pop: the first and the last swapped, the last dropped, the new first down.
PopTop(h) ==
  LET t == h.el[1]
      d == DropLast(Swap(h, 1, Len(h.el)), t)
  IN  IF d.el = <<>> THEN d ELSE Down(d, 1)

\* remove: swapped with the tail, dropped, and the tail moved to where it belongs.
RemoveAt(h, t) ==
  LET tail == h.el[Len(h.el)]
      d == DropLast(Swap(h, h.ix[t], Len(h.el)), t)
  IN  IF tail = t THEN d ELSE Change(d, tail)

-----------------------------------------------------------------------------
Current == Heap(elements, mIndex, mExpiredTime)
Becomes(h) == elements' = h.el /\ mIndex' = h.ix /\ mExpiredTime' = h.ex

Insert(t, e) ==
  /\ t \notin InHeap
  /\ Becomes(InsertAt(Heap(elements, mIndex, [mExpiredTime EXCEPT ![t] = e]), t))
  /\ popped' = {}

Pop == elements # <<>> /\ Becomes(PopTop(Current)) /\ popped' = {elements[1]}

\* remove, of the timer at the place it believes it has.
Remove(t) ==
  /\ mIndex[t] \in 1 .. Len(elements) /\ elements[mIndex[t]] = t
  /\ Becomes(RemoveAt(Current, t))
  /\ popped' = {}

HeapNext == Pop \/ \E t \in Timers : Remove(t) \/ \E e \in Expiries : Insert(t, e)

HeapSpec == HeapInit /\ [][HeapNext]_heapVars

-----------------------------------------------------------------------------
\* Every timer knows its place, and one outside the heap has none.
IndexAgrees ==
  /\ \A i \in DOMAIN elements : mIndex[elements[i]] = i
  /\ \A t \in Timers \ InHeap : mIndex[t] = 0

\* No timer expires before its parent.
HeapOrder ==
  \A i \in 2 .. Len(elements) : At(Current, i \div 2) <= At(Current, i)

\* After any sequence of insert, pop and remove, also of an inner timer, the array is a heap
\* and the places agree with it: the test by which remove finds a timer never fails for one
\* that is there (Timer.h:242-304).
HeapShape == HeapTypeOK /\ IndexAgrees /\ HeapOrder

\* The heap is a set of timers from which an earliest is popped: what Timer takes it for.
Set == INSTANCE TimerSet WITH waiting <- InHeap, expiry <- mExpiredTime
ImplementsSet == Set!Spec
=============================================================================
