----------------------------- MODULE TaskQueue -----------------------------
(* hwnet::ThreadPool (net/ThreadPool.h, net/ThreadPool.cpp): worker threads   *)
(* and user threads share a deque of tasks under a mutex and a condition      *)
(* variable.  A critical section of the mutex is one action; a worker leaves  *)
(* the mutex only in cv.wait, so Get is cut there and nowhere else.           *)
EXTENDS Naturals, FiniteSets, Sequences

CONSTANTS
  Workers,    \* the threads the pool may start
  Tasks,      \* the calls of PostTask; the same object posted twice is two of them
  Owned       \* the tasks some other shared_ptr keeps alive while they are queued

ASSUME WorkersAssumption == IsFiniteSet(Workers) /\ Workers # {}
ASSUME OwnedAssumption == Owned \subseteq Tasks

VARIABLES
  inited,     \* ThreadPool::inited
  swapMode,   \* the threads run threadFuncSwap: a worker takes the whole queue at a time
  closed,     \* TaskQueue::closed
  tasks,      \* TaskQueue::tasks
  watting,    \* TaskQueue::watting, the count of threads in cv.wait
  pc,         \* where each worker is
  held,       \* per worker: local_tasks of threadFuncSwap, or the task of threadFunc
  given,      \* history: the tasks handed to workers, in order
  posted,     \* history: the calls of PostTask made
  accepted,   \* history: those that found the queue open
  completed,  \* history: the tasks whose Do returned
  joined,     \* ~ThreadPool has joined every thread
  crashed     \* a worker followed a dangling reference

vars == <<inited, swapMode, closed, tasks, watting, pc, held, given, posted, accepted,
          completed, joined, crashed>>

Places == {"none", "get", "waiting", "woken", "run", "exited"}

TypeOK ==
  /\ inited \in BOOLEAN /\ swapMode \in BOOLEAN
  /\ closed \in BOOLEAN /\ joined \in BOOLEAN /\ crashed \in BOOLEAN
  /\ tasks \in Seq(Tasks) /\ given \in Seq(Tasks)
  /\ watting \in Nat
  /\ pc \in [Workers -> Places]
  /\ held \in [Workers -> Seq(Tasks)]
  /\ posted \in SUBSET Tasks /\ accepted \in SUBSET Tasks /\ completed \in SUBSET Tasks

At(place) == {w \in Workers : pc[w] = place}

\* Threads parked inside cv.wait, whether or not a notification reached them.
InWait == At("waiting") \cup At("woken")

Init ==
  /\ inited = FALSE /\ swapMode = FALSE /\ closed = FALSE /\ joined = FALSE /\ crashed = FALSE
  /\ tasks = <<>> /\ given = <<>>
  /\ watting = 0
  /\ pc = [w \in Workers |-> "none"]
  /\ held = [w \in Workers |-> <<>>]
  /\ posted = {} /\ accepted = {} /\ completed = {}

-----------------------------------------------------------------------------
(* ThreadPool::Init.  A second call finds inited set and returns false.       *)
Threads(threadCount) == IF threadCount = 0 THEN 1 ELSE threadCount

PoolInit ==
  /\ ~inited /\ ~closed
  /\ inited' = TRUE /\ swapMode' \in BOOLEAN
  /\ \E threadCount \in 0 .. Cardinality(Workers), W \in SUBSET Workers :
       /\ Cardinality(W) = Threads(threadCount)
       /\ pc' = [w \in Workers |-> IF w \in W THEN "get" ELSE "none"]
  /\ UNCHANGED <<closed, tasks, watting, held, given, posted, accepted, completed,
                 joined, crashed>>

-----------------------------------------------------------------------------
(* TaskQueue::PostTask.                                                       *)

\* cv.notify_one: one parked thread, any of them, if there is one.
NotifyOne ==
  IF At("waiting") = {}
    THEN pc' = pc
    ELSE \E w \in At("waiting") : pc' = [pc EXCEPT ![w] = "woken"]

\* [mutation] The notification is sent only to a queue that was empty.
NotifyIfWasEmpty == IF watting > 0 /\ tasks = <<>> THEN NotifyOne ELSE pc' = pc

NotifyIfWatting == IF watting > 0 THEN NotifyOne ELSE pc' = pc

\* [mutation] The deque is used as a stack.
PushedFront(t) == <<t>> \o tasks

Pushed(t) == Append(tasks, t)

PostTask(t) ==
  /\ t \notin posted /\ ~joined /\ ~crashed
  /\ posted' = posted \cup {t}
  /\ IF closed
       THEN UNCHANGED <<accepted, tasks, pc>>
       ELSE accepted' = accepted \cup {t} /\ tasks' = Pushed(t) /\ NotifyIfWatting
  /\ UNCHANGED <<inited, swapMode, closed, watting, held, given, completed, joined, crashed>>

-----------------------------------------------------------------------------
(* TaskQueue::Get, both overloads, and the loops of the worker threads.       *)

\* A worker that holds the mutex and looks at the queue: it comes from its loop, or
\* from cv.wait, where it counts itself out of watting first.
Entering(w) == pc[w] \in {"get", "woken"} /\ ~crashed

CountedOut(w) == IF pc[w] = "woken" THEN watting - 1 ELSE watting

\* How many of the oldest tasks one Get hands out.
Batch == IF swapMode THEN Len(tasks) ELSE 1

Rest == SubSeq(tasks, Batch + 1, Len(tasks))

Available == tasks # <<>>

AtEnd == closed /\ tasks = <<>>

\* After Close the one-task Get returns a copy of a reference to the element it has
\* just popped: the copy works when someone else owns the task, and may fault when
\* the queue held the last pointer to it.
MayDangle(t) == closed /\ ~swapMode /\ t \notin Owned

Take(w) ==
  /\ Entering(w) /\ Available
  /\ held' = [held EXCEPT ![w] = SubSeq(tasks, 1, Batch)]
  /\ given' = given \o SubSeq(tasks, 1, Batch)
  /\ tasks' = Rest
  /\ watting' = CountedOut(w)
  /\ pc' = [pc EXCEPT ![w] = "run"]
  /\ crashed' \in IF MayDangle(Head(tasks)) THEN BOOLEAN ELSE {FALSE}
  /\ UNCHANGED <<inited, swapMode, closed, posted, accepted, completed, joined>>

\* Nothing to take in an open queue: ++watting, and the mutex is released in cv.wait.
Wait(w) ==
  /\ Entering(w) /\ tasks = <<>> /\ ~closed
  /\ watting' = CountedOut(w) + 1
  /\ pc' = [pc EXCEPT ![w] = "waiting"]
  /\ UNCHANGED <<inited, swapMode, closed, tasks, held, given, posted, accepted, completed,
                 joined, crashed>>

\* Nothing left in a closed queue: Get returns nullptr (false) and the thread ends.
Exit(w) ==
  /\ Entering(w) /\ AtEnd
  /\ watting' = CountedOut(w)
  /\ pc' = [pc EXCEPT ![w] = "exited"]
  /\ UNCHANGED <<inited, swapMode, closed, tasks, held, given, posted, accepted, completed,
                 joined, crashed>>

\* cv.wait may return without a notification.
SpuriousWakeup(w) ==
  /\ pc[w] = "waiting" /\ ~crashed
  /\ pc' = [pc EXCEPT ![w] = "woken"]
  /\ UNCHANGED <<inited, swapMode, closed, tasks, watting, held, given, posted, accepted,
                 completed, joined, crashed>>

\* task->Do() returns; what the task does elsewhere is not the pool's concern.
RunTask(w) ==
  /\ pc[w] = "run" /\ ~crashed
  /\ completed' = completed \cup {Head(held[w])}
  /\ held' = [held EXCEPT ![w] = Tail(@)]
  /\ pc' = IF Tail(held[w]) = <<>> THEN [pc EXCEPT ![w] = "get"] ELSE pc
  /\ UNCHANGED <<inited, swapMode, closed, tasks, watting, given, posted, accepted, joined, crashed>>

-----------------------------------------------------------------------------
(* ~ThreadPool: Close, then join.                                             *)

\* [mutation] Close wakes one thread.
CloseNotifyOne ==
  /\ ~closed /\ ~crashed
  /\ closed' = TRUE
  /\ NotifyOne
  /\ UNCHANGED <<inited, swapMode, tasks, watting, held, given, posted, accepted, completed,
                 joined, crashed>>

Close ==
  /\ ~closed /\ ~crashed
  /\ closed' = TRUE
  /\ pc' = [w \in Workers |-> IF pc[w] = "waiting" THEN "woken" ELSE pc[w]]
  /\ UNCHANGED <<inited, swapMode, tasks, watting, held, given, posted, accepted, completed,
                 joined, crashed>>

Join ==
  /\ closed /\ ~joined /\ ~crashed
  /\ \A w \in Workers : pc[w] \in {"none", "exited"}
  /\ joined' = TRUE
  /\ UNCHANGED <<inited, swapMode, closed, tasks, watting, pc, held, given, posted, accepted,
                 completed, crashed>>

-----------------------------------------------------------------------------
Worker(w) == Take(w) \/ Wait(w) \/ Exit(w) \/ RunTask(w)

Next ==
  \/ PoolInit
  \/ \E t \in Tasks : PostTask(t)
  \/ \E w \in Workers : Worker(w) \/ SpuriousWakeup(w)
  \/ Close
  \/ Join

Safety == Init /\ [][Next]_vars

\* Threads are scheduled and the tasks they run return; nobody has to post, to close,
\* or to wake up spuriously.
Spec ==
  /\ Safety
  /\ \A w \in Workers : WF_vars(Worker(w))
  /\ WF_vars(Join)

-----------------------------------------------------------------------------
(* Properties.                                                                *)

\* watting counts the threads inside cv.wait at every release of the mutex, so that
\* "watting > 0" in PostTask never misses a sleeper (ThreadPool.cpp:53-55, 79-81, 98).
WattingCount == watting = Cardinality(InWait)

\* No lost wakeup: while a thread sleeps un-notified, every queued task has a thread
\* of its own that is on its way to the queue (ThreadPool.cpp:98-100: one notify_one
\* per post is enough, whatever the order of posts, wakeups and Gets).
NoLostWakeup ==
  At("waiting") # {} => Len(tasks) <= Cardinality(At("get") \cup At("woken"))

Elements(s) == {s[i] : i \in 1 .. Len(s)}
Distinct(s) == \A i, j \in 1 .. Len(s) : i # j => s[i] # s[j]
InHand == UNION {Elements(held[w]) : w \in Workers}

\* No task is lost, and none is handed out or run twice: the tasks accepted are those
\* handed out followed by those still queued, without repetition, and a task handed out
\* is done or in the hands of exactly one worker (ThreadPool.cpp:17-29, 48, 57, 72-74, 83-85).
EachTaskOnce ==
  /\ Distinct(given \o tasks) /\ accepted = Elements(given \o tasks)
  /\ Elements(given) = completed \cup InHand
  /\ completed \cap InHand = {}
  /\ \A v, w \in Workers : v # w => Elements(held[v]) \cap Elements(held[w]) = {}

\* ~ThreadPool joins only workers that have drained the queue: when it returns, every
\* task accepted by a pool that was started has run (ThreadPool.cpp:44-50, 68-75).
JoinedMeansDone == joined /\ inited => tasks = <<>> /\ completed = accepted

\* No sleeper is missed, no task lost or run twice, and the join leaves none behind.
PoolIsSound == NoLostWakeup /\ EachTaskOnce /\ JoinedMeansDone

\* The destructor returns: closing wakes every worker and each of them ends, also when
\* tasks are still queued (ThreadPool.cpp:32-38, 125-131).
CloseIsJoined == closed ~> joined \/ crashed

\* The pool implements the queue that was promised: order, no duplicates, refusal
\* after Close, and progress, except that a worker may fault over a task that it drains
\* (ThreadPool.cpp:17-29, 63-104).
Fifo == INSTANCE TaskFifo WITH serving <- inited /\ ~crashed, open <- ~closed, queue <- tasks
FifoSafety == Fifo!Safety
FifoSpec == Fifo!Spec
=============================================================================
