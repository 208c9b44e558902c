------------------------------- MODULE Timer -------------------------------
(* hwnet::util::Timer, TimerMgr and TimerRoutine (util/Timer.h, util/Timer.cpp): *)
(* timers, the thread that schedules them, and threads that add timers, cancel  *)
(* them and stop the routine.  cancel works on the status word without the      *)
(* lock, so each of its exchanges is an action.  The heap is the set of the     *)
(* timers in it, of which an earliest is the top.                               *)
EXTENDS Integers, FiniteSets

CONSTANTS
  Timers,
  Callers,     \* the threads that call addTimer, cancel and Stop
  Once,        \* the timers added by addTimerOnce
  Compensate,  \* policy: TRUE for TimerMgr::compensate, FALSE for normal
  Forever,     \* 0xFFFFFFFF milliseconds
  Timeouts,    \* bound: the timeouts that timers are added with
  MaxClock     \* bound: the last millisecond

ASSUME TimersAssumption ==
  /\ Once \subseteq Timers /\ "none" \notin Timers
  /\ {"routine", "free"} \cap Callers = {}
ASSUME TimeAssumption ==
  /\ MaxClock \in Nat /\ Forever \in Nat /\ Timeouts \subseteq Nat
  /\ MaxClock < Forever /\ \A n \in Timeouts : n < Forever
ASSUME PolicyAssumption == Compensate \in BOOLEAN

VARIABLES
  \* a Timer
  born,          \* those that were constructed
  mStatus, mExpiredTime, mTimeout,
  mCallback,     \* those whose callback is set
  mMgr,          \* those whose manager is set
  selfPtr,       \* those that keep themselves alive
  tid,           \* those whose tid is the routine's thread
  \* TimerMgr
  elements,
  mtx,           \* "free", or held by "routine" from one action to the next
  \* TimerRoutine
  constructed,   \* its constructor has returned
  stoped, waitting, waitTime,
  \* the routine's thread
  rpc,
  now, tmp, ok,  \* its locals, reset where they are dead
  wakeAt,        \* when its wait_for times out
  notified,      \* the wait was notified
  \* callers, and the thread itself inside a callback
  cpc, target,
  clock,         \* the steady clock, in milliseconds since begTime
  \* history
  answers,       \* what cancel answered, by timer
  raced,         \* a cancel of these met the end of a callback between its exchanges
  late,          \* Stop came between the thread's check of stoped and its wait
  garbled,       \* a time ahead of the clock was read before begTime was set
  crashed        \* a null mMgr was dereferenced

timerVars == <<born, mStatus, mExpiredTime, mTimeout, mCallback, mMgr, selfPtr, tid>>
routineVars == <<constructed, stoped, waitting, waitTime>>
threadVars == <<rpc, now, tmp, ok, wakeAt, notified>>
callerVars == <<cpc, target>>
history == <<answers, raced, late, garbled, crashed>>
vars == <<timerVars, elements, mtx, routineVars, threadVars, callerVars, clock, history>>

Threads == Callers \cup {"routine"}
None == "none"
Answers == {"cancel_ok", "doing_callback_in_current_thread", "doing_callback_in_other_thread",
            "invaild_timer"}

TypeOK ==
  /\ born \in SUBSET Timers
  /\ mStatus \in [Timers -> SUBSET {"canceled", "incallback"}]
  /\ mExpiredTime \in [Timers -> Nat] /\ mTimeout \in [Timers -> Nat]
  /\ {mCallback, mMgr, selfPtr, tid, elements, raced} \subseteq SUBSET born
  /\ mtx \in {"free", "routine"}
  /\ constructed \in BOOLEAN /\ stoped \in BOOLEAN /\ waitting \in BOOLEAN /\ waitTime \in Nat
  /\ rpc \in {"check", "lock", "cv", "schedule", "top", "call", "relock", "reinsert", "exit"}
  /\ now \in Nat /\ tmp \in born \cup {None} /\ ok \in BOOLEAN
  /\ wakeAt \in Nat /\ notified \in BOOLEAN
  /\ cpc \in [Threads -> {"idle", "add", "cas2", "mgr", "remove", "join"}]
  /\ target \in [Threads -> Timers \cup {None}]
  /\ clock \in 0 .. MaxClock
  /\ answers \in [Timers -> SUBSET Answers] /\ late \in BOOLEAN
  /\ garbled \in BOOLEAN /\ crashed \in BOOLEAN

\* The thread is started by the constructor before stoped, begTime and waitTime are set
\* (Timer.h:317-319, 371-377), and waitting is never initialised.
Init ==
  /\ born = {} /\ mStatus = [t \in Timers |-> {}]
  /\ mExpiredTime = [t \in Timers |-> 0] /\ mTimeout = [t \in Timers |-> 0]
  /\ mCallback = {} /\ mMgr = {} /\ selfPtr = {} /\ tid = {}
  /\ elements = {} /\ mtx = "free"
  /\ constructed = FALSE /\ stoped \in BOOLEAN /\ waitting \in BOOLEAN /\ waitTime = 0
  /\ rpc = "check" /\ now = 0 /\ tmp = None /\ ok = FALSE /\ wakeAt = 0 /\ notified = FALSE
  /\ cpc = [c \in Threads |-> "idle"] /\ target = [c \in Threads |-> None]
  /\ clock = 0
  /\ answers = [t \in Timers |-> {}] /\ raced = {} /\ late = FALSE /\ garbled = FALSE
  /\ crashed = FALSE

-----------------------------------------------------------------------------
(* The constructor, and time.                                                  *)

Construct ==
  /\ ~constructed /\ constructed' = TRUE
  /\ stoped' = FALSE /\ waitTime' = Forever
  /\ UNCHANGED <<timerVars, elements, mtx, waitting, threadVars, callerVars, clock, history>>

Tick ==
  /\ clock < MaxClock /\ clock' = clock + 1
  /\ UNCHANGED <<timerVars, elements, mtx, routineVars, threadVars, callerVars, history>>

-----------------------------------------------------------------------------
(* addTimer and addTimerOnce.                                                  *)

\* The expiry is computed before the lock is taken.
AddBegin(c, t, n) ==
  /\ constructed /\ cpc[c] = "idle" /\ t \notin born
  /\ born' = born \cup {t} /\ mCallback' = mCallback \cup {t}
  /\ mExpiredTime' = [mExpiredTime EXCEPT ![t] = clock + n]
  /\ mTimeout' = [mTimeout EXCEPT ![t] = n]
  /\ cpc' = [cpc EXCEPT ![c] = "add"] /\ target' = [target EXCEPT ![c] = t]
  /\ UNCHANGED <<mStatus, mMgr, selfPtr, tid, elements, mtx, routineVars, threadVars, clock, history>>

\* TimerMgr::insert of a timer that is not in the heap.
Insert(t) ==
  elements' = elements \cup {t} /\ mMgr' = mMgr \cup {t} /\ selfPtr' = selfPtr \cup {t}

\* [mutation] A later addition is never announced.
SoonerNever(t) == FALSE

\* The thread sleeps, and longer than this timer allows.
Sooner(t) == waitting /\ mTimeout[t] < waitTime

\* notify_one: there is one thread to wake.
Notify == notified' = (notified \/ rpc = "cv")

Return(c) == cpc' = [cpc EXCEPT ![c] = "idle"] /\ target' = [target EXCEPT ![c] = None]

AddEnd(c) ==
  /\ cpc[c] = "add" /\ mtx = "free"
  /\ Insert(target[c])
  /\ IF Sooner(target[c])
       THEN waitTime' = mTimeout[target[c]] /\ Notify
       ELSE UNCHANGED <<waitTime, notified>>
  /\ Return(c)
  /\ UNCHANGED <<born, mStatus, mExpiredTime, mTimeout, mCallback, tid, mtx, constructed, stoped,
                 waitting, rpc, now, tmp, ok, wakeAt, clock, history>>

-----------------------------------------------------------------------------
(* Timer::cancel, by a caller or by a callback on the routine's thread.        *)

\* There is a pointer to cancel through: the timer keeps itself alive, Schedule or another
\* cancel holds it, or its callback kept the pointer it was given.
Alive(t) ==
  \/ t \in selfPtr \/ t = tmp \/ "incallback" \in mStatus[t]
  \/ \E c \in Threads : target[c] = t /\ cpc[c] # "add"

\* What the first exchange expects, and the second.
IdleStatus(t) == mStatus[t] = {}

\* [mutation] There is no second exchange.
InCallbackNever(t) == FALSE

InCallback(t) == mStatus[t] = {"incallback"}

SetCanceled(t) == mStatus' = [mStatus EXCEPT ![t] = @ \cup {"canceled"}]

Answer(t, a) == answers' = [answers EXCEPT ![t] = @ \cup {a}]

\* The first exchange.  When it succeeds the status cannot change again, and its load
\* finds incallback clear.
CancelBegin(c, t) ==
  /\ constructed /\ cpc[c] = "idle" /\ t \in born /\ Alive(t)
  /\ c = "routine" => rpc = "call"
  /\ target' = [target EXCEPT ![c] = t]
  /\ IF IdleStatus(t)
       THEN SetCanceled(t) /\ cpc' = [cpc EXCEPT ![c] = "mgr"]
       ELSE UNCHANGED mStatus /\ cpc' = [cpc EXCEPT ![c] = "cas2"]
  /\ UNCHANGED <<born, mExpiredTime, mTimeout, mCallback, mMgr, selfPtr, tid, elements, mtx,
                 routineVars, threadVars, clock, history>>

\* The second exchange, and the answers it leads to.
CancelAgain(c) ==
  LET t == target[c] IN
  /\ cpc[c] = "cas2"
  /\ IF InCallback(t)
       THEN /\ SetCanceled(t)
            /\ Answer(t, IF c = "routine" /\ t \in tid THEN "doing_callback_in_current_thread"
                                                       ELSE "doing_callback_in_other_thread")
       ELSE Answer(t, "invaild_timer") /\ UNCHANGED mStatus
  /\ Return(c)
  /\ UNCHANGED <<born, mExpiredTime, mTimeout, mCallback, mMgr, selfPtr, tid, elements, mtx,
                 routineVars, threadVars, clock, raced, late, garbled, crashed>>

\* The manager is read without the lock; it is null while the timer is outside the heap.
CancelMgr(c) ==
  /\ cpc[c] = "mgr"
  /\ IF target[c] \in mMgr
       THEN cpc' = [cpc EXCEPT ![c] = "remove"] /\ UNCHANGED crashed
       ELSE crashed' = TRUE /\ UNCHANGED cpc
  /\ UNCHANGED <<timerVars, elements, mtx, routineVars, threadVars, target, clock, answers, raced, late, garbled>>

\* TimerMgr::remove under the lock; a timer popped meanwhile is left alone.
CancelRemove(c) ==
  LET t == target[c] IN
  /\ cpc[c] = "remove" /\ mtx = "free"
  /\ IF t \in mMgr /\ t \in elements
       THEN /\ elements' = elements \ {t}
            /\ mCallback' = mCallback \ {t}
            /\ selfPtr' = selfPtr \cup {t}
       ELSE UNCHANGED <<elements, mCallback, selfPtr>>
  /\ Answer(t, "cancel_ok") /\ Return(c)
  /\ UNCHANGED <<born, mStatus, mExpiredTime, mTimeout, mMgr, tid, mtx, routineVars, threadVars,
                 clock, raced, late, garbled, crashed>>

-----------------------------------------------------------------------------
(* TimerRoutine::Stop, also called by the destructor.                          *)

\* [mutation] The sleeping thread is not told.
StopNotifiesNever == FALSE

StopNotifies == waitting

Stop(c) ==
  /\ constructed /\ cpc[c] = "idle" /\ mtx = "free" /\ ~stoped
  /\ stoped' = TRUE /\ late' = (rpc = "lock")
  /\ IF StopNotifies THEN Notify ELSE UNCHANGED notified
  /\ cpc' = [cpc EXCEPT ![c] = "join"]
  /\ UNCHANGED <<timerVars, elements, mtx, constructed, waitting, waitTime, rpc, now, tmp, ok, wakeAt,
                 target, clock, answers, raced, garbled, crashed>>

Joined(c) ==
  /\ cpc[c] = "join" /\ rpc = "exit" /\ Return(c)
  /\ UNCHANGED <<timerVars, elements, mtx, routineVars, threadVars, clock, history>>

-----------------------------------------------------------------------------
(* The routine's thread: threadFunc, wait and Schedule.                        *)

\* getMilliseconds: any time while begTime is not set.
ReadClock ==
  /\ now' \in IF constructed THEN {clock} ELSE 0 .. MaxClock
  /\ garbled' = (garbled \/ now' > clock)

\* while(!stoped), and the clock that wait is given.
Check ==
  /\ rpc = "check"
  /\ IF stoped THEN rpc' = "exit" /\ UNCHANGED <<now, garbled>> ELSE rpc' = "lock" /\ ReadClock
  /\ UNCHANGED <<timerVars, elements, mtx, routineVars, tmp, ok, wakeAt, notified, callerVars, clock,
                 answers, raced, late, crashed>>

IsTop(t) == t \in elements /\ \A u \in elements : mExpiredTime[t] <= mExpiredTime[u]

TopDue == \E t \in elements : mExpiredTime[t] <= now

\* wait, up to the sleep: none if the top is due, else until the top or a notification.
\* The clock for Schedule is read after it.
Wait ==
  /\ rpc = "lock" /\ mtx = "free"
  /\ IF TopDue
       THEN /\ rpc' = "schedule" /\ ReadClock /\ waitting' = FALSE
            /\ UNCHANGED <<waitTime, wakeAt, notified>>
       ELSE /\ rpc' = "cv" /\ waitting' = TRUE /\ notified' = FALSE
            /\ \/ elements = {} /\ waitTime' = Forever
               \/ \E t \in elements : IsTop(t) /\ waitTime' = mExpiredTime[t] - now
            /\ wakeAt' = clock + waitTime' /\ now' = 0
            /\ UNCHANGED garbled
  /\ UNCHANGED <<timerVars, elements, mtx, constructed, stoped, tmp, ok, callerVars, clock, answers,
                 raced, late, crashed>>

\* The end of the sleep.
Awake ==
  /\ rpc = "cv" /\ mtx = "free"
  /\ rpc' = "schedule" /\ ReadClock /\ waitting' = FALSE
  /\ notified' = FALSE /\ wakeAt' = 0
  /\ UNCHANGED <<timerVars, elements, mtx, constructed, stoped, waitTime, tmp, ok, callerVars, clock,
                 answers, raced, late, crashed>>

\* The last millisecond stands for all later ones.
TimedOut == clock >= wakeAt \/ (clock = MaxClock /\ wakeAt < Forever)

Woken == (notified \/ TimedOut) /\ Awake
SpuriousWakeup == ~notified /\ ~TimedOut /\ Awake

\* Schedule takes the lock.
ScheduleLock ==
  /\ rpc = "schedule" /\ mtx = "free"
  /\ rpc' = "top" /\ mtx' = "routine"
  /\ UNCHANGED <<timerVars, elements, routineVars, now, tmp, ok, wakeAt, notified, callerVars, clock,
                 history>>

Due(t) == mExpiredTime[t] <= now

\* The exchange that claims the callback.
Callable(t) == mStatus[t] = {}

\* A due timer is claimed and leaves the heap; the lock is released for its callback.
Pop(t) ==
  /\ rpc = "top" /\ IsTop(t) /\ Due(t)
  /\ tmp' = t /\ tid' = tid \cup {t}
  /\ ok' = Callable(t)
  /\ mStatus' = IF Callable(t) THEN [mStatus EXCEPT ![t] = @ \cup {"incallback"}] ELSE mStatus
  /\ elements' = elements \ {t} /\ mMgr' = mMgr \ {t} /\ selfPtr' = selfPtr \ {t}
  /\ mtx' = "free" /\ rpc' = IF Callable(t) THEN "call" ELSE "relock"
  /\ UNCHANGED <<born, mExpiredTime, mTimeout, mCallback, routineVars, now, wakeAt, notified,
                 callerVars, clock, history>>

\* Nothing is due any more.
ScheduleEnd ==
  /\ rpc = "top" /\ \A t \in elements : ~Due(t)
  /\ rpc' = "check" /\ mtx' = "free" /\ now' = 0
  /\ UNCHANGED <<timerVars, elements, routineVars, tmp, ok, wakeAt, notified, callerVars, clock,
                 history>>

CallbackReturn ==
  /\ rpc = "call" /\ cpc["routine"] = "idle"
  /\ rpc' = "relock"
  /\ UNCHANGED <<timerVars, elements, mtx, routineVars, now, tmp, ok, wakeAt, notified, callerVars,
                 clock, history>>

\* [mutation] A repeating timer is put back although it was canceled in its callback.
RepeatsCanceled(t) == ok /\ t \notin Once

\* The exchange that ends the callback of a repeating timer that was not canceled in it.
Repeats(t) == ok /\ t \notin Once /\ mStatus[t] = {"incallback"}

CallbacksAfter(t) == IF Repeats(t) THEN mCallback ELSE mCallback \ {t}

\* The lock again: a timer that repeats is idle, though not in the heap yet; any other is
\* over, and loses its callback.
Relock ==
  /\ rpc = "relock" /\ mtx = "free" /\ mtx' = "routine"
  /\ IF Repeats(tmp)
       THEN /\ mStatus' = [mStatus EXCEPT ![tmp] = {}]
            /\ rpc' = "reinsert"
            /\ raced' = raced \cup
                  {t \in {tmp} : \E c \in Threads : cpc[c] = "cas2" /\ target[c] = t}
            /\ UNCHANGED <<tmp, ok>>
       ELSE /\ rpc' = "top" /\ tmp' = None /\ ok' = FALSE
            /\ UNCHANGED <<mStatus, raced>>
  /\ mCallback' = CallbacksAfter(tmp)
  /\ UNCHANGED <<born, mExpiredTime, mTimeout, mMgr, selfPtr, tid, elements, routineVars, now,
                 wakeAt, notified, callerVars, clock, answers, late, garbled, crashed>>

\* It goes back into the heap, a timeout after now, or after its last expiry.
Reinsert ==
  /\ rpc = "reinsert" /\ rpc' = "top"
  /\ mExpiredTime' = [mExpiredTime EXCEPT
                        ![tmp] = (IF Compensate THEN @ ELSE now) + mTimeout[tmp]]
  /\ Insert(tmp)
  /\ tid' = tid \ {tmp} /\ tmp' = None /\ ok' = FALSE
  /\ UNCHANGED <<born, mStatus, mTimeout, mCallback, mtx, routineVars, now, wakeAt, notified,
                 callerVars, clock, history>>

\* Inside cancel.
Cancel(c) == CancelAgain(c) \/ CancelMgr(c) \/ CancelRemove(c)

Routine ==
  \/ Check \/ Wait \/ Woken \/ ScheduleLock \/ ScheduleEnd
  \/ CallbackReturn \/ Relock \/ Reinsert
  \/ \E t \in Timers : Pop(t)
  \/ Cancel("routine")

\* A caller inside a method.
Caller(c) == AddEnd(c) \/ Cancel(c) \/ Joined(c)

Next ==
  /\ ~crashed
  /\ \/ Construct \/ Tick \/ Routine \/ SpuriousWakeup
     \/ \E c \in Callers : Caller(c)
     \/ \E c \in Callers : Stop(c)
     \/ \E c \in Callers, t \in Timers, n \in Timeouts : AddBegin(c, t, n)
     \/ \E c \in Threads, t \in Timers : CancelBegin(c, t)

Safety == Init /\ [][Next]_vars

\* Threads run, time passes, the constructor returns, and so does a callback, however
\* often it calls cancel.
Spec ==
  /\ Safety
  /\ SF_vars(~crashed /\ CallbackReturn)
  /\ WF_vars(~crashed /\ Routine) /\ WF_vars(~crashed /\ Tick) /\ WF_vars(~crashed /\ Construct)
  /\ \A c \in Callers : WF_vars(~crashed /\ Caller(c))

-----------------------------------------------------------------------------
(* Properties.                                                                 *)

Canceled == {"cancel_ok", "doing_callback_in_current_thread", "doing_callback_in_other_thread"}

\* No callback begins once cancel answered anything but invaild_timer, wherever the timer
\* was: in the heap, popped, being called, or on its way back (Timer.cpp:19-33, 47-56).
NoCallAfterCancel ==
  [][\A t \in Timers :
       rpc = "top" /\ rpc' = "call" /\ tmp' = t => answers[t] \cap Canceled = {}]_vars

\* cancel_ok: the callback is not running either, so what it uses may go (Timer.cpp:28-31).
OkMeansQuiet == \A t \in Timers : "cancel_ok" \in answers[t] => ~(rpc = "call" /\ tmp = t)

\* What an answer of cancel promises: no callback begins, and after cancel_ok none runs
\* either (Timer.cpp:19-33).
CancelHolds == NoCallAfterCancel /\ []OkMeansQuiet

\* invaild_timer is answered for a timer that is over, or that came back from its
\* callback between the two exchanges of a cancel (Timer.cpp:19, 34).
InvalidMeansOver ==
  \A t \in Timers : "invaild_timer" \in answers[t] /\ t \notin raced => "canceled" \in mStatus[t]

\* A cancel finds no manager only for a timer that is due: Schedule has it.
FaultOnlyWhenDue ==
  crashed /\ ~garbled => \E c \in Threads : cpc[c] = "mgr" /\ mExpiredTime[target[c]] <= clock

\* What the other answers of cancel tell: a timer that is over, or, when it falls over the
\* manager's null pointer, one that is due.
CancelTells == InvalidMeansOver /\ FaultOnlyWhenDue

\* A due timer is taken from the heap, though timers are added while the thread sleeps
\* (Timer.h:327-332, Timer.cpp:79-94), as long as the routine's thread is there.
DueIsTaken ==
  \A t \in Timers :
    (t \in elements /\ mExpiredTime[t] <= clock)
      ~> (t \notin elements \/ mExpiredTime[t] > clock \/ rpc = "exit" \/ crashed)

\* Stop returns, whatever the thread is doing, unless it came between the thread's check
\* and its wait (Timer.cpp:97, 103-115).
StopReturns ==
  \A c \in Callers : cpc[c] = "join" ~> cpc[c] = "idle" \/ late \/ crashed
=============================================================================
