---------------------------- MODULE TimerProofs ----------------------------
(* Theorems about Timer, for any timers, callers, timeouts and policy.         *)
EXTENDS Timer, TLAPS

(* Properties that no run checks: their theorems are below.                     *)

\* The callback that runs is there: neither remove nor the end of Schedule takes it away
\* under it (Timer.cpp:55, 74; Timer.h:298).
CalledIsSet == rpc = "call" => tmp \in mCallback

\* A callback begins no earlier than asked (Timer.cpp:42), unless the thread read the
\* clock before the constructor set its origin.
NeverEarly == rpc = "call" /\ ~garbled => clock >= mExpiredTime[tmp]

\* What the heap points to keeps itself alive and has its manager; a timer is lost from
\* the heap only when it is over, in Schedule's hands, or being added.
HeapOwned ==
  /\ elements \subseteq selfPtr \cap mMgr
  /\ \A t \in born \ elements :
       \/ "canceled" \in mStatus[t] \/ t = tmp
       \/ t \in Once /\ mStatus[t] # {}
       \/ \E c \in Callers : cpc[c] = "add" /\ target[c] = t

-----------------------------------------------------------------------------
(* The inductive invariant.                                                    *)

\* What Schedule holds: a timer outside the heap, claimed unless it was canceled.
InHand ==
  /\ rpc \in {"call", "relock", "reinsert"} <=> tmp # None
  /\ tmp \notin elements
  /\ rpc = "call" => ok
  /\ rpc \in {"call", "relock"} =>
       IF ok THEN "incallback" \in mStatus[tmp] /\ tmp \in mCallback
             ELSE "canceled" \in mStatus[tmp]
  /\ rpc = "reinsert" => tmp \in mCallback /\ "incallback" \notin mStatus[tmp]

Methods == {"add", "cas2", "mgr", "remove"}

\* A timer that is being added is known to nobody else.
Unknown(t) == t \notin selfPtr \cup elements \cup mMgr /\ t # tmp /\ mStatus[t] = {} /\ t \in mCallback

Fresh ==
  /\ \A t \in Timers \ born : mStatus[t] = {}
  /\ \A c \in Threads : cpc[c] \in Methods => target[c] \in born
  /\ \A c \in Threads : cpc[c] \in {"idle", "join"} => target[c] = None
  /\ \A c \in Threads : cpc[c] = "add" =>
       c \in Callers /\ Unknown(target[c]) /\ \A d \in Threads : target[d] = target[c] => d = c

\* A timer in the heap is not called, and has its callback unless it was canceled.
Waiting ==
  \A t \in elements : "incallback" \notin mStatus[t] /\ ("canceled" \in mStatus[t] \/ t \in mCallback)

\* canceled is for ever: alone, it was set by a cancel that answers or has answered
\* cancel_ok; and an idle timer met by a second exchange came back in between.
Canceling ==
  /\ \A c \in Threads : cpc[c] \in {"mgr", "remove"} => mStatus[target[c]] = {"canceled"}
  /\ \A c \in Threads : cpc[c] = "cas2" => target[c] \in raced \/ mStatus[target[c]] # {}
  /\ \A t \in Timers : "cancel_ok" \in answers[t] => mStatus[t] = {"canceled"}
  /\ \A t \in Timers : answers[t] \cap Canceled # {} => "canceled" \in mStatus[t]

\* What was popped was due.
Times ==
  ~garbled =>
    /\ now <= clock
    /\ rpc = "call" => mExpiredTime[tmp] <= clock
    /\ \A t \in born \ mMgr :
         (\E c \in Callers : cpc[c] = "add" /\ target[c] = t) \/ mExpiredTime[t] <= clock

Inv ==
  /\ TypeOK /\ InHand /\ Fresh /\ Waiting /\ Canceling /\ Times
  /\ HeapOwned /\ InvalidMeansOver /\ FaultOnlyWhenDue

-----------------------------------------------------------------------------
LEMMA InvInit == Init => Inv
  <1>. SUFFICES ASSUME Init
                PROVE  Inv
    OBVIOUS
  <1>. USE TimeAssumption, TimersAssumption DEF Init, Threads
  <1>1. {constructed, stoped, waitting, ok, notified, late, garbled, crashed} \subseteq BOOLEAN
    BY Zenon
  <1>2. TypeOK
    BY <1>1 DEF TypeOK
  <1>3. InHand /\ Waiting /\ Times
    BY DEF InHand, Waiting, Times
  <1>4. Fresh /\ Canceling
    BY DEF Fresh, Unknown, Methods, Canceling, Canceled
  <1>. QED
    BY <1>2, <1>3, <1>4 DEF Inv, HeapOwned, InvalidMeansOver, FaultOnlyWhenDue

LEMMA TypeKept == TypeOK /\ InHand /\ Fresh /\ [Next]_vars => TypeOK'
  <1>. SUFFICES ASSUME TypeOK, InHand, Fresh, [Next]_vars
                PROVE  TypeOK'
    OBVIOUS
  <1>. USE TimeAssumption, TimersAssumption DEF Threads, timerVars, routineVars, threadVars, callerVars, history
  <1>1. ASSUME Construct
        PROVE  TypeOK'
    <2>1. constructed' \in BOOLEAN /\ stoped' \in BOOLEAN
      BY <1>1, Zenon DEF Construct
    <2>. QED
      BY <1>1, <2>1 DEF Construct, TypeOK
  <1>2. ASSUME Tick
        PROVE  TypeOK'
    <2>1. clock' \in 0 .. MaxClock
      BY <1>2 DEF Tick, TypeOK
    <2>. QED
      BY <1>2, <2>1 DEF Tick, TypeOK
  <1>3. ASSUME NEW c \in Callers, NEW t \in Timers, NEW n \in Timeouts, AddBegin(c, t, n)
        PROVE  TypeOK'
    <2>0. n \in Nat /\ clock \in Nat
      BY DEF TypeOK
    <2>1. clock + n \in Nat /\ n \in Nat
      BY <2>0
    <2>2. c \in Threads
      OBVIOUS
    <2>3. mExpiredTime' \in [Timers -> Nat] /\ mTimeout' \in [Timers -> Nat]
      BY <1>3, <2>1 DEF AddBegin, TypeOK
    <2>4. cpc' \in [Threads -> {"idle", "add", "cas2", "mgr", "remove", "join"}]
      BY <1>3, <2>2 DEF AddBegin, TypeOK
    <2>5. target' \in [Threads -> Timers \cup {None}]
      BY <1>3, <2>2 DEF AddBegin, TypeOK
    <2>6. /\ born' \in SUBSET Timers /\ tmp' \in born' \cup {None}
          /\ {mCallback', mMgr', selfPtr', tid', elements', raced'} \subseteq SUBSET born'
      BY <1>3 DEF AddBegin, TypeOK
    <2>. QED
      BY <1>3, <2>3, <2>4, <2>5, <2>6 DEF AddBegin, TypeOK
  <1>4. ASSUME NEW c \in Threads, AddEnd(c)
        PROVE  TypeOK'
    <2>1. target[c] \in born /\ target[c] \in Timers
      BY <1>4 DEF AddEnd, Fresh, Methods, TypeOK
    <2>2. notified' \in BOOLEAN
      BY <1>4, Zenon DEF AddEnd, Notify, TypeOK
    <2>3. waitTime' \in Nat
      BY <1>4, <2>1 DEF AddEnd, TypeOK
    <2>4. cpc' \in [Threads -> {"idle", "add", "cas2", "mgr", "remove", "join"}]
      BY <1>4 DEF AddEnd, Return, TypeOK
    <2>5. target' \in [Threads -> Timers \cup {None}]
      BY <1>4 DEF AddEnd, Return, TypeOK
    <2>6. {mCallback', mMgr', selfPtr', tid', elements', raced'} \subseteq SUBSET born'
      BY <1>4, <2>1 DEF AddEnd, Insert, TypeOK
    <2>. QED
      BY <1>4, <2>2, <2>3, <2>4, <2>5, <2>6 DEF AddEnd, TypeOK
  <1>5. ASSUME NEW c \in Threads, NEW t \in Timers, CancelBegin(c, t)
        PROVE  TypeOK'
    BY <1>5 DEF CancelBegin, IdleStatus, SetCanceled, TypeOK
  <1>6. ASSUME NEW c \in Threads, CancelAgain(c)
        PROVE  TypeOK'
    BY <1>6 DEF CancelAgain, InCallback, SetCanceled, Answer, Answers, Return, TypeOK
  <1>7. ASSUME NEW c \in Threads, CancelMgr(c)
        PROVE  TypeOK'
    <2>1. crashed' \in BOOLEAN
      BY <1>7, Zenon DEF CancelMgr, TypeOK
    <2>2. cpc' \in [Threads -> {"idle", "add", "cas2", "mgr", "remove", "join"}]
      BY <1>7 DEF CancelMgr, TypeOK
    <2>. QED
      BY <1>7, <2>1, <2>2 DEF CancelMgr, TypeOK
  <1>8. ASSUME NEW c \in Threads, CancelRemove(c)
        PROVE  TypeOK'
    <2>1. target[c] \in born /\ target[c] \in Timers
      BY <1>8 DEF CancelRemove, Fresh, Methods, TypeOK
    <2>2. {mCallback', mMgr', selfPtr', tid', elements', raced'} \subseteq SUBSET born'
      BY <1>8, <2>1 DEF CancelRemove, TypeOK
    <2>3. answers' \in [Timers -> SUBSET Answers]
      BY <1>8, <2>1 DEF CancelRemove, Answer, Answers, TypeOK
    <2>4. /\ cpc' \in [Threads -> {"idle", "add", "cas2", "mgr", "remove", "join"}]
          /\ target' \in [Threads -> Timers \cup {None}]
      BY <1>8 DEF CancelRemove, Return, TypeOK
    <2>. QED
      BY <1>8, <2>2, <2>3, <2>4 DEF CancelRemove, TypeOK
  <1>9. ASSUME NEW c \in Callers, Stop(c)
        PROVE  TypeOK'
    <2>1. stoped' \in BOOLEAN /\ late' \in BOOLEAN /\ notified' \in BOOLEAN
      BY <1>9, Zenon DEF Stop, Notify, TypeOK
    <2>2. cpc' \in [Threads -> {"idle", "add", "cas2", "mgr", "remove", "join"}]
      BY <1>9 DEF Stop, TypeOK
    <2>. QED
      BY <1>9, <2>1, <2>2 DEF Stop, TypeOK
  <1>10. ASSUME NEW c \in Threads, Joined(c)
         PROVE  TypeOK'
    BY <1>10 DEF Joined, Return, TypeOK
  <1>11. ASSUME ReadClock
         PROVE  now' \in Nat /\ garbled' \in BOOLEAN
    <2>1. now' \in Nat
      BY <1>11 DEF ReadClock, TypeOK
    <2>2. garbled' \in BOOLEAN
      BY <1>11, Zenon DEF ReadClock
    <2>. QED
      BY <2>1, <2>2
  <1>12. ASSUME Check
         PROVE  TypeOK'
    <2>1. now' \in Nat /\ garbled' \in BOOLEAN
      BY <1>11, <1>12 DEF Check, TypeOK
    <2>. QED
      BY <1>12, <2>1 DEF Check, TypeOK
  <1>13. ASSUME Wait
         PROVE  TypeOK'
    <2>1. CASE TopDue
      <3>1. now' \in Nat /\ garbled' \in BOOLEAN /\ waitting' \in BOOLEAN
        BY <1>11, <1>13, <2>1 DEF Wait
      <3>. QED
        BY <1>13, <2>1, <3>1 DEF Wait, TypeOK
    <2>2. CASE ~TopDue
      <3>1. waitTime' \in Nat
        BY <1>13, <2>2 DEF Wait, TopDue, IsTop, TypeOK
      <3>2. wakeAt' \in Nat
        BY <1>13, <2>2, <3>1 DEF Wait, TypeOK
      <3>3. waitting' \in BOOLEAN /\ notified' \in BOOLEAN /\ garbled' \in BOOLEAN
        BY <1>13, <2>2, Zenon DEF Wait, TypeOK
      <3>4. now' \in Nat /\ rpc' = "cv"
        BY <1>13, <2>2 DEF Wait
      <3>5. /\ UNCHANGED <<timerVars, elements, mtx, constructed, stoped, tmp, ok, callerVars, clock>>
            /\ UNCHANGED <<answers, raced, late, crashed>>
        BY <1>13 DEF Wait
      <3>. QED
        BY <3>1, <3>2, <3>3, <3>4, <3>5 DEF TypeOK
    <2>. QED
      BY <2>1, <2>2
  <1>14. ASSUME Awake
         PROVE  TypeOK'
    <2>1. now' \in Nat /\ garbled' \in BOOLEAN
      BY <1>11, <1>14 DEF Awake
    <2>2. waitting' \in BOOLEAN /\ notified' \in BOOLEAN
      BY <1>14, Zenon DEF Awake
    <2>. QED
      BY <1>14, <2>1, <2>2 DEF Awake, TypeOK
  <1>15. ASSUME ScheduleLock
         PROVE  TypeOK'
    BY <1>15 DEF ScheduleLock, TypeOK
  <1>16. ASSUME NEW t \in Timers, Pop(t)
         PROVE  TypeOK'
    BY <1>16 DEF Pop, IsTop, Callable, TypeOK
  <1>17. ASSUME ScheduleEnd
         PROVE  TypeOK'
    BY <1>17 DEF ScheduleEnd, TypeOK
  <1>18. ASSUME CallbackReturn
         PROVE  TypeOK'
    BY <1>18 DEF CallbackReturn, TypeOK
  <1>19. ASSUME Relock
         PROVE  TypeOK'
    <2>1. tmp \in born /\ tmp \in Timers
      BY <1>19 DEF Relock, InHand, TypeOK
    <2>2. {mCallback', mMgr', selfPtr', tid', elements', raced'} \subseteq SUBSET born'
      BY <1>19, <2>1 DEF Relock, CallbacksAfter, TypeOK
    <2>3. mStatus' \in [Timers -> SUBSET {"canceled", "incallback"}]
      BY <1>19, <2>1 DEF Relock, TypeOK
    <2>4. /\ rpc' \in {"check", "lock", "cv", "schedule", "top", "call", "relock", "reinsert", "exit"}
          /\ mtx' \in {"free", "routine"} /\ tmp' \in born' \cup {None}
      BY <1>19 DEF Relock, TypeOK
    <2>. QED
      BY <1>19, <2>2, <2>3, <2>4 DEF Relock, TypeOK
  <1>20. ASSUME Reinsert
         PROVE  TypeOK'
    <2>1. tmp \in born /\ tmp \in Timers
      BY <1>20 DEF Reinsert, InHand, TypeOK
    <2>2. {mCallback', mMgr', selfPtr', tid', elements', raced'} \subseteq SUBSET born'
      BY <1>20, <2>1 DEF Reinsert, Insert, TypeOK
    <2>3. (IF Compensate THEN mExpiredTime[tmp] ELSE now) + mTimeout[tmp] \in Nat
      BY <2>1 DEF TypeOK
    <2>4. mExpiredTime' \in [Timers -> Nat]
      BY <1>20, <2>1, <2>3 DEF Reinsert, TypeOK
    <2>. QED
      BY <1>20, <2>2, <2>4 DEF Reinsert, TypeOK
  <1>21. CASE UNCHANGED vars
    BY <1>21 DEF vars, TypeOK
  <1>. QED
    BY <1>1, <1>2, <1>3, <1>4, <1>5, <1>6, <1>7, <1>8, <1>9, <1>10, <1>12, <1>13, <1>14, <1>15,
       <1>16, <1>17, <1>18, <1>19, <1>20, <1>21
    DEF Next, Routine, Caller, Cancel, Woken, SpuriousWakeup

LEMMA HandKept == TypeOK /\ InHand /\ Fresh /\ Waiting /\ [Next]_vars => InHand'
  <1>. SUFFICES ASSUME TypeOK, InHand, Fresh, Waiting, [Next]_vars
                PROVE  InHand'
    OBVIOUS
  <1>. USE TimersAssumption
       DEF timerVars, routineVars, threadVars, callerVars, history, Threads, None
  <1>1. ASSUME Construct \/ Tick \/ Check \/ Wait \/ Awake \/ ScheduleLock \/ ScheduleEnd
        PROVE  InHand'
    BY <1>1 DEF Construct, Tick, Check, Wait, Awake, ScheduleLock, ScheduleEnd, InHand
  <1>2. ASSUME NEW c \in Threads, CancelMgr(c) \/ Stop(c) \/ Joined(c)
        PROVE  InHand'
    BY <1>2 DEF CancelMgr, Stop, Joined, InHand
  <1>3. ASSUME NEW c \in Callers, NEW t \in Timers, NEW n \in Timeouts, AddBegin(c, t, n)
        PROVE  InHand'
    BY <1>3 DEF AddBegin, InHand
  <1>4. ASSUME NEW c \in Threads, AddEnd(c)
        PROVE  InHand'
    <2>1. target[c] # tmp
      BY <1>4 DEF AddEnd, Fresh, Unknown
    <2>. QED
      BY <1>4, <2>1 DEF AddEnd, Insert, InHand
  <1>5. ASSUME NEW c \in Threads, NEW t \in Timers, CancelBegin(c, t)
        PROVE  InHand'
    BY <1>5 DEF CancelBegin, IdleStatus, SetCanceled, InHand, TypeOK
  <1>6. ASSUME NEW c \in Threads, CancelAgain(c)
        PROVE  InHand'
    BY <1>6 DEF CancelAgain, InCallback, SetCanceled, InHand, TypeOK
  <1>7. ASSUME NEW c \in Threads, CancelRemove(c)
        PROVE  InHand'
    BY <1>7 DEF CancelRemove, InHand
  <1>8. ASSUME NEW t \in Timers, Pop(t)
        PROVE  InHand'
    <2>1. t \in elements /\ t # None
      BY <1>8 DEF Pop, IsTop
    <2>2. CASE Callable(t)
      <3>1. t \in mCallback /\ "incallback" \in mStatus'[t]
        BY <1>8, <2>1, <2>2 DEF Pop, Callable, Waiting, TypeOK
      <3>. QED
        BY <1>8, <2>1, <2>2, <3>1 DEF Pop, InHand
    <2>3. CASE ~Callable(t)
      <3>1. "canceled" \in mStatus[t]
        BY <2>1, <2>3 DEF Callable, Waiting, TypeOK
      <3>. QED
        BY <1>8, <2>1, <2>3, <3>1 DEF Pop, InHand
    <2>. QED
      BY <2>2, <2>3
  <1>9. ASSUME CallbackReturn
        PROVE  InHand'
    BY <1>9 DEF CallbackReturn, InHand
  <1>10. ASSUME Relock
         PROVE  InHand'
    <2>1. tmp \in Timers /\ tmp # None /\ tmp \notin elements
      BY <1>10 DEF Relock, InHand, TypeOK
    <2>2. CASE Repeats(tmp)
      <3>1. tmp \in mCallback /\ mStatus'[tmp] = {}
        BY <1>10, <2>1, <2>2 DEF Relock, Repeats, InHand, TypeOK
      <3>. QED
        BY <1>10, <2>1, <2>2, <3>1 DEF Relock, CallbacksAfter, InHand
    <2>3. CASE ~Repeats(tmp)
      BY <1>10, <2>1, <2>3 DEF Relock, InHand, TypeOK
    <2>. QED
      BY <2>2, <2>3
  <1>11. ASSUME Reinsert
         PROVE  InHand'
    BY <1>11 DEF Reinsert, Insert, InHand, TypeOK
  <1>12. CASE UNCHANGED vars
    BY <1>12 DEF vars, InHand
  <1>. QED
    BY <1>1, <1>2, <1>3, <1>4, <1>5, <1>6, <1>7, <1>8, <1>9, <1>10, <1>11, <1>12
    DEF Next, Routine, Caller, Cancel, Woken, SpuriousWakeup

LEMMA FreshKept == TypeOK /\ InHand /\ Fresh /\ [Next]_vars => Fresh'
  <1>. SUFFICES ASSUME TypeOK, InHand, Fresh, [Next]_vars
                PROVE  Fresh'
    OBVIOUS
  <1>. USE TimersAssumption
       DEF timerVars, routineVars, threadVars, callerVars, history, Threads, None
  <1>1. ASSUME Construct \/ Tick \/ Check \/ Wait \/ Awake \/ ScheduleLock \/ ScheduleEnd
               \/ CallbackReturn
        PROVE  Fresh'
    BY <1>1 DEF Construct, Tick, Check, Wait, Awake, ScheduleLock, ScheduleEnd, CallbackReturn,
                Fresh, Unknown
  <1>2. ASSUME NEW c \in Callers, NEW t \in Timers, NEW n \in Timeouts, AddBegin(c, t, n)
        PROVE  Fresh'
    <2>1. c \in Threads /\ t \notin born /\ t # None /\ t # tmp
      BY <1>2 DEF AddBegin, TypeOK
    <2>2. t \notin selfPtr \cup elements \cup mMgr /\ mStatus[t] = {}
      BY <2>1 DEF Fresh, TypeOK
    <2>3. Unknown(t)'
      BY <1>2, <2>1, <2>2 DEF AddBegin, Unknown
    <2>4. \A d \in Threads : target[d] # t
      BY <2>1 DEF Fresh, Methods, TypeOK
    <2>5. /\ cpc'[c] = "add" /\ target'[c] = t /\ t \in born'
          /\ \A d \in Threads \ {c} : cpc'[d] = cpc[d] /\ target'[d] = target[d]
      BY <1>2, <2>1 DEF AddBegin, TypeOK
    <2>6. \A d \in Threads \ {c} : cpc[d] = "add" => Unknown(target[d])'
      BY <1>2 DEF AddBegin, Fresh, Unknown
    <2>7. \A d \in Threads : cpc'[d] \in Methods => target'[d] \in born'
      BY <1>2, <2>5 DEF AddBegin, Fresh
    <2>8. \A d \in Threads : cpc'[d] \in {"idle", "join"} => target'[d] = None
      BY <2>5 DEF Fresh
    <2>9. \A d \in Threads : cpc'[d] = "add" =>
             d \in Callers /\ Unknown(target[d])' /\ \A e \in Threads : target'[e] = target'[d] => e = d
      BY <2>3, <2>4, <2>5, <2>6 DEF Fresh
    <2>10. \A u \in Timers \ born' : mStatus'[u] = {}
      BY <1>2 DEF AddBegin, Fresh
    <2>. QED
      BY <2>3, <2>5, <2>6, <2>7, <2>8, <2>9, <2>10 DEF Fresh
  <1>3. ASSUME NEW c \in Threads, AddEnd(c)
        PROVE  Fresh'
    <2>1. \A d \in Threads \ {c} : cpc[d] = "add" => target[d] # target[c]
      BY <1>3 DEF Fresh
    <2>2. /\ cpc'[c] = "idle" /\ target'[c] = None
          /\ \A d \in Threads \ {c} : cpc'[d] = cpc[d] /\ target'[d] = target[d]
      BY <1>3 DEF AddEnd, Return, TypeOK
    <2>3. \A d \in Threads \ {c} : cpc[d] = "add" => Unknown(target[d])'
      BY <1>3, <2>1, <2>2 DEF AddEnd, Insert, Fresh, Unknown
    <2>4. \A d \in Threads \ {c} : cpc[d] = "add" => target[d] # None
      BY DEF Fresh, Methods, TypeOK
    <2>. QED
      BY <1>3, <2>2, <2>3, <2>4 DEF AddEnd, Fresh, Methods
  <1>4. ASSUME NEW c \in Threads, NEW t \in Timers, CancelBegin(c, t)
        PROVE  Fresh'
    <2>1. \A d \in Threads : cpc[d] = "add" => target[d] # t
      BY <1>4 DEF CancelBegin, Alive, Fresh, Unknown
    <2>2. cpc[c] = "idle" /\ target[c] = None
      BY <1>4 DEF CancelBegin, Fresh
    <2>. QED
      BY <1>4, <2>1, <2>2 DEF CancelBegin, SetCanceled, Fresh, Unknown, Methods, TypeOK
  <1>5. ASSUME NEW c \in Threads, CancelAgain(c)
        PROVE  Fresh'
    <2>1. /\ \A d \in Threads : cpc[d] = "add" => target[d] # target[c]
          /\ target[c] \in born
      BY <1>5 DEF CancelAgain, Fresh, Methods
    <2>2. \A d \in Threads : cpc[d] = "add" => target[d] # None
      BY DEF Fresh, Methods, TypeOK
    <2>. QED
      BY <1>5, <2>1, <2>2 DEF CancelAgain, SetCanceled, Return, Fresh, Unknown, Methods, TypeOK
  <1>6. ASSUME NEW c \in Threads, CancelMgr(c)
        PROVE  Fresh'
    BY <1>6 DEF CancelMgr, Fresh, Unknown, Methods, TypeOK
  <1>7. ASSUME NEW c \in Threads, CancelRemove(c)
        PROVE  Fresh'
    <2>1. \A d \in Threads : cpc[d] = "add" => target[d] # target[c]
      BY <1>7 DEF CancelRemove, Fresh
    <2>2. \A d \in Threads : cpc[d] = "add" => target[d] # None
      BY DEF Fresh, Methods, TypeOK
    <2>. QED
      BY <1>7, <2>1, <2>2 DEF CancelRemove, Return, Fresh, Unknown, Methods, TypeOK
  <1>8. ASSUME NEW c \in Callers, Stop(c)
        PROVE  Fresh'
    BY <1>8 DEF Stop, Fresh, Unknown, Methods, TypeOK
  <1>9. ASSUME NEW c \in Threads, Joined(c)
        PROVE  Fresh'
    <2>1. \A d \in Threads : cpc[d] = "add" => target[d] # None
      BY DEF Fresh, Methods, TypeOK
    <2>. QED
      BY <1>9, <2>1 DEF Joined, Return, Fresh, Unknown, Methods, TypeOK
  <1>10. ASSUME NEW t \in Timers, Pop(t)
         PROVE  Fresh'
    <2>1. t \in born /\ \A d \in Threads : cpc[d] = "add" => target[d] # t
      BY <1>10 DEF Pop, IsTop, Fresh, Unknown, TypeOK
    <2>. QED
      BY <1>10, <2>1 DEF Pop, Fresh, Unknown, Methods, TypeOK
  <1>11. ASSUME Relock
         PROVE  Fresh'
    <2>1. tmp \in born /\ \A d \in Threads : cpc[d] = "add" => target[d] # tmp /\ target[d] # None
      BY <1>11 DEF Relock, InHand, Fresh, Unknown, Methods, TypeOK
    <2>. QED
      BY <1>11, <2>1 DEF Relock, CallbacksAfter, Fresh, Unknown, Methods, TypeOK
  <1>12. ASSUME Reinsert
         PROVE  Fresh'
    <2>1. tmp \in born /\ \A d \in Threads : cpc[d] = "add" => target[d] # tmp /\ target[d] # None
      BY <1>12 DEF Reinsert, InHand, Fresh, Unknown, Methods, TypeOK
    <2>. QED
      BY <1>12, <2>1 DEF Reinsert, Insert, Fresh, Unknown, Methods, TypeOK
  <1>13. CASE UNCHANGED vars
    BY <1>13 DEF vars, Fresh, Unknown
  <1>. QED
    BY <1>1, <1>2, <1>3, <1>4, <1>5, <1>6, <1>7, <1>8, <1>9, <1>10, <1>11, <1>12, <1>13
    DEF Next, Routine, Caller, Cancel, Woken, SpuriousWakeup

LEMMA WaitingKept == TypeOK /\ InHand /\ Fresh /\ Waiting /\ [Next]_vars => Waiting'
  <1>. SUFFICES ASSUME TypeOK, InHand, Fresh, Waiting, [Next]_vars
                PROVE  Waiting'
    OBVIOUS
  <1>. USE TimersAssumption
       DEF timerVars, routineVars, threadVars, callerVars, history, Threads, None
  <1>1. ASSUME Construct \/ Tick \/ Check \/ Wait \/ Awake \/ ScheduleLock \/ ScheduleEnd
               \/ CallbackReturn
        PROVE  Waiting'
    BY <1>1 DEF Construct, Tick, Check, Wait, Awake, ScheduleLock, ScheduleEnd, CallbackReturn,
                Waiting
  <1>2. ASSUME NEW c \in Threads, CancelMgr(c) \/ Stop(c) \/ Joined(c)
        PROVE  Waiting'
    BY <1>2 DEF CancelMgr, Stop, Joined, Waiting
  <1>3. ASSUME NEW c \in Callers, NEW t \in Timers, NEW n \in Timeouts, AddBegin(c, t, n)
        PROVE  Waiting'
    BY <1>3 DEF AddBegin, Waiting
  <1>4. ASSUME NEW c \in Threads, AddEnd(c)
        PROVE  Waiting'
    <2>1. mStatus[target[c]] = {} /\ target[c] \in mCallback
      BY <1>4 DEF AddEnd, Fresh, Unknown
    <2>. QED
      BY <1>4, <2>1 DEF AddEnd, Insert, Waiting
  <1>5. ASSUME NEW c \in Threads, NEW t \in Timers, CancelBegin(c, t)
        PROVE  Waiting'
    BY <1>5 DEF CancelBegin, IdleStatus, SetCanceled, Waiting, TypeOK
  <1>6. ASSUME NEW c \in Threads, CancelAgain(c)
        PROVE  Waiting'
    BY <1>6 DEF CancelAgain, InCallback, SetCanceled, Waiting, TypeOK
  <1>7. ASSUME NEW c \in Threads, CancelRemove(c)
        PROVE  Waiting'
    BY <1>7 DEF CancelRemove, Waiting
  <1>8. ASSUME NEW t \in Timers, Pop(t)
        PROVE  Waiting'
    BY <1>8 DEF Pop, Waiting, TypeOK
  <1>9. ASSUME Relock
        PROVE  Waiting'
    <2>1. tmp \notin elements
      BY DEF InHand
    <2>. QED
      BY <1>9, <2>1 DEF Relock, CallbacksAfter, Waiting, TypeOK
  <1>10. ASSUME Reinsert
         PROVE  Waiting'
    BY <1>10 DEF Reinsert, Insert, InHand, Waiting
  <1>11. CASE UNCHANGED vars
    BY <1>11 DEF vars, Waiting
  <1>. QED
    BY <1>1, <1>2, <1>3, <1>4, <1>5, <1>6, <1>7, <1>8, <1>9, <1>10, <1>11
    DEF Next, Routine, Caller, Cancel, Woken, SpuriousWakeup

LEMMA CancelingKept == TypeOK /\ InHand /\ Fresh /\ Canceling /\ [Next]_vars => Canceling'
  <1>. SUFFICES ASSUME TypeOK, InHand, Fresh, Canceling, [Next]_vars
                PROVE  Canceling'
    OBVIOUS
  <1>. USE TimersAssumption
       DEF timerVars, routineVars, threadVars, callerVars, history, Threads, None, Canceled
  <1>1. ASSUME Construct \/ Tick \/ Check \/ Wait \/ Awake \/ ScheduleLock \/ ScheduleEnd
               \/ CallbackReturn \/ Reinsert
        PROVE  Canceling'
    BY <1>1 DEF Construct, Tick, Check, Wait, Awake, ScheduleLock, ScheduleEnd, CallbackReturn,
                Reinsert, Canceling
  <1>2. ASSUME NEW c \in Callers, NEW t \in Timers, NEW n \in Timeouts, AddBegin(c, t, n)
        PROVE  Canceling'
    BY <1>2 DEF AddBegin, Canceling, TypeOK
  <1>3. ASSUME NEW c \in Threads, AddEnd(c)
        PROVE  Canceling'
    BY <1>3 DEF AddEnd, Return, Canceling, TypeOK
  <1>4. ASSUME NEW c \in Threads, NEW t \in Timers, CancelBegin(c, t)
        PROVE  Canceling'
    <2>1. CASE IdleStatus(t)
      <3>1. mStatus'[t] = {"canceled"} /\ \A u \in Timers \ {t} : mStatus'[u] = mStatus[u]
        BY <1>4, <2>1 DEF CancelBegin, IdleStatus, SetCanceled, TypeOK
      <3>2. /\ cpc'[c] = "mgr" /\ target'[c] = t
            /\ \A d \in Threads \ {c} : cpc'[d] = cpc[d] /\ target'[d] = target[d]
        BY <1>4, <2>1 DEF CancelBegin, TypeOK
      <3>3. \A d \in Threads : cpc[d] \in {"mgr", "remove"} => target[d] # t
        BY <2>1 DEF IdleStatus, Canceling
      <3>4. \A d \in Threads : cpc[d] \in {"cas2", "mgr", "remove"} => target[d] \in Timers
        BY DEF Fresh, Methods, TypeOK
      <3>5. answers' = answers /\ raced' = raced
        BY <1>4 DEF CancelBegin
      <3>. QED
        BY <3>1, <3>2, <3>3, <3>4, <3>5 DEF Canceling
    <2>2. CASE ~IdleStatus(t)
      BY <1>4, <2>2 DEF CancelBegin, IdleStatus, Canceling, TypeOK
    <2>. QED
      BY <2>1, <2>2
  <1>5. ASSUME NEW c \in Threads, CancelAgain(c)
        PROVE  Canceling'
    <2>1. target[c] \in Timers
      BY <1>5 DEF CancelAgain, Fresh, Methods, TypeOK
    <2>2. /\ cpc'[c] = "idle"
          /\ \A d \in Threads \ {c} : cpc'[d] = cpc[d] /\ target'[d] = target[d]
          /\ raced' = raced
      BY <1>5 DEF CancelAgain, Return, TypeOK
    <2>3. \A d \in Threads : cpc[d] \in {"cas2", "mgr", "remove"} => target[d] \in Timers
      BY DEF Fresh, Methods, TypeOK
    <2>4. CASE InCallback(target[c])
      <3>1. /\ mStatus'[target[c]] = {"incallback", "canceled"}
            /\ \A u \in Timers \ {target[c]} : mStatus'[u] = mStatus[u]
        BY <1>5, <2>1, <2>4 DEF CancelAgain, InCallback, SetCanceled, TypeOK
      <3>2. \A u \in Timers : "cancel_ok" \in answers'[u] <=> "cancel_ok" \in answers[u]
        BY <1>5, <2>1, <2>4 DEF CancelAgain, Answer, TypeOK
      <3>3. \A u \in Timers \ {target[c]} : answers'[u] = answers[u]
        BY <1>5, <2>1, <2>4 DEF CancelAgain, Answer, TypeOK
      <3>4. mStatus[target[c]] = {"incallback"}
        BY <2>4 DEF InCallback
      <3>. QED
        BY <2>1, <2>2, <2>3, <3>1, <3>2, <3>3, <3>4 DEF Canceling
    <2>5. CASE ~InCallback(target[c])
      <3>1. mStatus' = mStatus
        BY <1>5, <2>5 DEF CancelAgain
      <3>2. \A u \in Timers : answers'[u] \cap Canceled = answers[u] \cap Canceled
        BY <1>5, <2>1, <2>5 DEF CancelAgain, Answer, TypeOK
      <3>. QED
        BY <2>2, <2>3, <3>1, <3>2 DEF Canceling
    <2>. QED
      BY <2>4, <2>5
  <1>6. ASSUME NEW c \in Threads, CancelMgr(c)
        PROVE  Canceling'
    BY <1>6 DEF CancelMgr, Canceling, TypeOK
  <1>7. ASSUME NEW c \in Threads, CancelRemove(c)
        PROVE  Canceling'
    <2>1. target[c] \in Timers /\ mStatus[target[c]] = {"canceled"}
      BY <1>7 DEF CancelRemove, Canceling, Fresh, Methods, TypeOK
    <2>2. \A u \in Timers \ {target[c]} : answers'[u] = answers[u]
      BY <1>7, <2>1 DEF CancelRemove, Answer, TypeOK
    <2>3. /\ cpc'[c] = "idle" /\ mStatus' = mStatus /\ raced' = raced
          /\ \A d \in Threads \ {c} : cpc'[d] = cpc[d] /\ target'[d] = target[d]
      BY <1>7 DEF CancelRemove, Return, TypeOK
    <2>. QED
      BY <2>1, <2>2, <2>3 DEF Canceling
  <1>8. ASSUME NEW c \in Callers, Stop(c)
        PROVE  Canceling'
    BY <1>8 DEF Stop, Canceling, TypeOK
  <1>9. ASSUME NEW c \in Threads, Joined(c)
        PROVE  Canceling'
    BY <1>9 DEF Joined, Return, Canceling, TypeOK
  <1>10. ASSUME NEW t \in Timers, Pop(t)
         PROVE  Canceling'
    BY <1>10 DEF Pop, Callable, Canceling, TypeOK
  <1>11. ASSUME Relock
         PROVE  Canceling'
    <2>1. tmp \in Timers
      BY <1>11 DEF Relock, InHand, TypeOK
    <2>2. CASE Repeats(tmp)
      <3>1. /\ mStatus[tmp] = {"incallback"}
            /\ \A u \in Timers \ {tmp} : mStatus'[u] = mStatus[u]
        BY <1>11, <2>1, <2>2 DEF Relock, Repeats, TypeOK
      <3>2. /\ raced \subseteq raced'
            /\ \A d \in Threads : cpc[d] = "cas2" /\ target[d] = tmp => tmp \in raced'
        BY <1>11, <2>2 DEF Relock
      <3>3. \A d \in Threads : cpc[d] \in {"cas2", "mgr", "remove"} => target[d] \in Timers
        BY DEF Fresh, Methods, TypeOK
      <3>4. cpc' = cpc /\ target' = target /\ answers' = answers
        BY <1>11 DEF Relock
      <3>. QED
        BY <3>1, <3>2, <3>3, <3>4 DEF Canceling
    <2>3. CASE ~Repeats(tmp)
      BY <1>11, <2>3 DEF Relock, Canceling
    <2>. QED
      BY <2>2, <2>3
  <1>12. CASE UNCHANGED vars
    BY <1>12 DEF vars, Canceling
  <1>. QED
    BY <1>1, <1>2, <1>3, <1>4, <1>5, <1>6, <1>7, <1>8, <1>9, <1>10, <1>11, <1>12
    DEF Next, Routine, Caller, Cancel, Woken, SpuriousWakeup

LEMMA TimesKept == TypeOK /\ InHand /\ Fresh /\ Times /\ [Next]_vars => Times'
  <1>. SUFFICES ASSUME TypeOK, InHand, Fresh, Times, [Next]_vars
                PROVE  Times'
    OBVIOUS
  <1>. USE TimersAssumption, TimeAssumption
       DEF timerVars, routineVars, threadVars, callerVars, history, Threads
  <1>0. \A t \in Timers : mExpiredTime[t] \in Nat
    BY DEF TypeOK
  <1>1. ASSUME Construct \/ ScheduleLock \/ ScheduleEnd \/ CallbackReturn \/ Relock
        PROVE  Times'
    <2>1. now' \in {0, now} /\ clock \in Nat
      BY <1>1 DEF Construct, ScheduleLock, ScheduleEnd, CallbackReturn, Relock, TypeOK
    <2>. QED
      BY <1>1, <2>1 DEF Construct, ScheduleLock, ScheduleEnd, CallbackReturn, Relock, Times
  <1>2. ASSUME Tick
        PROVE  Times'
    <2>1. clock \in Nat /\ clock' = clock + 1 /\ now \in Nat
      BY <1>2 DEF Tick, TypeOK
    <2>2. rpc = "call" => tmp \in Timers
      BY DEF InHand, TypeOK
    <2>. QED
      BY <1>0, <1>2, <2>1, <2>2 DEF Tick, Times, TypeOK
  <1>3. ASSUME NEW c \in Callers, NEW t \in Timers, NEW n \in Timeouts, AddBegin(c, t, n)
        PROVE  Times'
    <2>1. t \notin born /\ (rpc = "call" => tmp \in born)
      BY <1>3 DEF AddBegin, InHand, TypeOK
    <2>2. \A u \in born : mExpiredTime'[u] = mExpiredTime[u]
      BY <1>3, <2>1 DEF AddBegin, TypeOK
    <2>3. cpc'[c] = "add" /\ target'[c] = t
      BY <1>3 DEF AddBegin, TypeOK
    <2>4. \A d \in Callers : cpc[d] = "add" => cpc'[d] = "add" /\ target'[d] = target[d]
      BY <1>3 DEF AddBegin, TypeOK
    <2>. QED
      BY <1>3, <2>1, <2>2, <2>3, <2>4 DEF AddBegin, Times
  <1>4. ASSUME NEW c \in Threads, AddEnd(c)
        PROVE  Times'
    <2>1. \A d \in Threads \ {c} : cpc'[d] = cpc[d] /\ target'[d] = target[d]
      BY <1>4 DEF AddEnd, Return, TypeOK
    <2>. QED
      BY <1>4, <2>1 DEF AddEnd, Insert, Times
  <1>5. ASSUME NEW c \in Threads, NEW t \in Timers, CancelBegin(c, t)
        PROVE  Times'
    BY <1>5 DEF CancelBegin, Times, TypeOK
  <1>6. ASSUME NEW c \in Threads, CancelAgain(c) \/ CancelMgr(c) \/ CancelRemove(c)
        PROVE  Times'
    BY <1>6 DEF CancelAgain, CancelMgr, CancelRemove, Return, Times, TypeOK
  <1>7. ASSUME NEW c \in Threads, Stop(c) \/ Joined(c)
        PROVE  Times'
    BY <1>7 DEF Stop, Joined, Return, Times, TypeOK
  <1>8. ASSUME ReadClock
        PROVE  ~garbled' => ~garbled /\ now' <= clock
    <2>1. clock \in Nat /\ now' \in Nat
      <3>1. clock \in Nat
        BY DEF TypeOK
      <3>. QED
        BY <1>8, <3>1 DEF ReadClock
    <2>2. ~garbled' => ~garbled /\ ~(now' > clock)
      BY <1>8, Zenon DEF ReadClock
    <2>. QED
      BY <2>1, <2>2
  <1>9. ASSUME Check
        PROVE  Times'
    BY <1>8, <1>9 DEF Check, Times
  <1>10. ASSUME Wait
         PROVE  Times'
    <2>1. CASE TopDue
      BY <1>8, <1>10, <2>1 DEF Wait, Times
    <2>2. CASE ~TopDue
      <3>1. now' = 0 /\ clock \in Nat /\ garbled' = garbled
        BY <1>10, <2>2 DEF Wait, TypeOK
      <3>. QED
        BY <1>10, <2>2, <3>1 DEF Wait, Times
    <2>. QED
      BY <2>1, <2>2
  <1>11. ASSUME Awake
         PROVE  Times'
    BY <1>8, <1>11 DEF Awake, Times
  <1>12. ASSUME NEW t \in Timers, Pop(t)
         PROVE  Times'
    <2>1. ~garbled => mExpiredTime[t] <= clock
      BY <1>0, <1>12 DEF Pop, Due, Times, TypeOK
    <2>. QED
      BY <1>12, <2>1 DEF Pop, Times
  <1>13. ASSUME Reinsert
         PROVE  Times'
    BY <1>13 DEF Reinsert, Insert, Times, TypeOK
  <1>14. CASE UNCHANGED vars
    BY <1>14 DEF vars, Times
  <1>. QED
    BY <1>1, <1>2, <1>3, <1>4, <1>5, <1>6, <1>7, <1>9, <1>10, <1>11, <1>12, <1>13, <1>14
    DEF Next, Routine, Caller, Cancel, Woken, SpuriousWakeup

LEMMA OwnedKept == TypeOK /\ InHand /\ Fresh /\ Waiting /\ Canceling /\ HeapOwned /\ [Next]_vars => HeapOwned'
  <1>. SUFFICES ASSUME TypeOK, InHand, Fresh, Waiting, Canceling, HeapOwned, [Next]_vars
                PROVE  HeapOwned'
    OBVIOUS
  <1>. USE TimersAssumption
       DEF timerVars, routineVars, threadVars, callerVars, history, Threads, None
  <1>1. ASSUME Construct \/ Tick \/ Check \/ Wait \/ Awake \/ ScheduleLock \/ ScheduleEnd
               \/ CallbackReturn
        PROVE  HeapOwned'
    BY <1>1 DEF Construct, Tick, Check, Wait, Awake, ScheduleLock, ScheduleEnd, CallbackReturn,
                HeapOwned
  <1>2. ASSUME NEW c \in Callers, NEW t \in Timers, NEW n \in Timeouts, AddBegin(c, t, n)
        PROVE  HeapOwned'
    <2>1. cpc'[c] = "add" /\ target'[c] = t
      BY <1>2 DEF AddBegin, TypeOK
    <2>2. \A d \in Callers : cpc[d] = "add" => cpc'[d] = "add" /\ target'[d] = target[d]
      BY <1>2 DEF AddBegin, TypeOK
    <2>. QED
      BY <1>2, <2>1, <2>2 DEF AddBegin, HeapOwned
  <1>3. ASSUME NEW c \in Threads, AddEnd(c)
        PROVE  HeapOwned'
    <2>1. \A d \in Threads \ {c} : cpc'[d] = cpc[d] /\ target'[d] = target[d]
      BY <1>3 DEF AddEnd, Return, TypeOK
    <2>. QED
      BY <1>3, <2>1 DEF AddEnd, Insert, HeapOwned
  <1>4. ASSUME NEW c \in Threads, NEW t \in Timers, CancelBegin(c, t)
        PROVE  HeapOwned'
    BY <1>4 DEF CancelBegin, IdleStatus, SetCanceled, HeapOwned, TypeOK
  <1>5. ASSUME NEW c \in Threads, CancelAgain(c)
        PROVE  HeapOwned'
    <2>1. target[c] \in Timers
      BY <1>5 DEF CancelAgain, Fresh, Methods, TypeOK
    <2>2. \A t \in Timers : mStatus[t] \subseteq mStatus'[t]
      BY <1>5, <2>1 DEF CancelAgain, SetCanceled, TypeOK
    <2>3. \A d \in Threads : cpc[d] = "add" => cpc'[d] = "add" /\ target'[d] = target[d]
      BY <1>5 DEF CancelAgain, Return, TypeOK
    <2>. QED
      BY <1>5, <2>2, <2>3 DEF CancelAgain, HeapOwned, TypeOK
  <1>6. ASSUME NEW c \in Threads, CancelMgr(c) \/ Stop(c) \/ Joined(c)
        PROVE  HeapOwned'
    <2>1. \A d \in Threads : cpc[d] = "add" => cpc'[d] = "add" /\ target'[d] = target[d]
      BY <1>6 DEF CancelMgr, Stop, Joined, Return, TypeOK
    <2>. QED
      BY <1>6, <2>1 DEF CancelMgr, Stop, Joined, HeapOwned
  <1>7. ASSUME NEW c \in Threads, CancelRemove(c)
        PROVE  HeapOwned'
    <2>1. mStatus[target[c]] = {"canceled"}
      BY <1>7 DEF CancelRemove, Canceling
    <2>2. \A d \in Threads : cpc[d] = "add" => cpc'[d] = "add" /\ target'[d] = target[d]
      BY <1>7 DEF CancelRemove, Return, TypeOK
    <2>. QED
      BY <1>7, <2>1, <2>2 DEF CancelRemove, HeapOwned
  <1>8. ASSUME NEW t \in Timers, Pop(t)
        PROVE  HeapOwned'
    <2>1. tmp = None
      BY <1>8 DEF Pop, InHand
    <2>2. \A u \in Timers : mStatus[u] \subseteq mStatus'[u]
      BY <1>8 DEF Pop, TypeOK
    <2>. QED
      BY <1>8, <2>1, <2>2 DEF Pop, HeapOwned, TypeOK
  <1>9. ASSUME Relock
        PROVE  HeapOwned'
    <2>1. tmp \in Timers
      BY <1>9 DEF Relock, InHand, TypeOK
    <2>2. CASE Repeats(tmp)
      BY <1>9, <2>1, <2>2 DEF Relock, HeapOwned, TypeOK
    <2>3. CASE ~Repeats(tmp)
      <3>1. "canceled" \in mStatus[tmp] \/ (tmp \in Once /\ mStatus[tmp] # {})
        BY <1>9, <2>1, <2>3 DEF Relock, Repeats, InHand, TypeOK
      <3>. QED
        BY <1>9, <2>3, <3>1 DEF Relock, HeapOwned
    <2>. QED
      BY <2>2, <2>3
  <1>10. ASSUME Reinsert
         PROVE  HeapOwned'
    BY <1>10 DEF Reinsert, Insert, HeapOwned
  <1>11. CASE UNCHANGED vars
    BY <1>11 DEF vars, HeapOwned
  <1>. QED
    BY <1>1, <1>2, <1>3, <1>4, <1>5, <1>6, <1>7, <1>8, <1>9, <1>10, <1>11
    DEF Next, Routine, Caller, Cancel, Woken, SpuriousWakeup

LEMMA InvalidKept ==
  TypeOK /\ InHand /\ Fresh /\ Canceling /\ InvalidMeansOver /\ [Next]_vars => InvalidMeansOver'
  <1>. SUFFICES ASSUME TypeOK, InHand, Fresh, Canceling, InvalidMeansOver, [Next]_vars
                PROVE  InvalidMeansOver'
    OBVIOUS
  <1>. USE TimersAssumption
       DEF timerVars, routineVars, threadVars, callerVars, history, Threads, None
  <1>1. ASSUME Construct \/ Tick \/ Check \/ Wait \/ Awake \/ ScheduleLock \/ ScheduleEnd
               \/ CallbackReturn \/ Reinsert
        PROVE  InvalidMeansOver'
    BY <1>1 DEF Construct, Tick, Check, Wait, Awake, ScheduleLock, ScheduleEnd, CallbackReturn,
                Reinsert, InvalidMeansOver
  <1>2. ASSUME NEW c \in Callers, NEW t \in Timers, NEW n \in Timeouts, AddBegin(c, t, n)
        PROVE  InvalidMeansOver'
    BY <1>2 DEF AddBegin, InvalidMeansOver
  <1>3. ASSUME NEW c \in Threads, AddEnd(c) \/ CancelMgr(c) \/ Stop(c) \/ Joined(c)
        PROVE  InvalidMeansOver'
    BY <1>3 DEF AddEnd, CancelMgr, Stop, Joined, InvalidMeansOver
  <1>4. ASSUME NEW c \in Threads, NEW t \in Timers, CancelBegin(c, t)
        PROVE  InvalidMeansOver'
    BY <1>4 DEF CancelBegin, SetCanceled, InvalidMeansOver, TypeOK
  <1>5. ASSUME NEW c \in Threads, CancelAgain(c)
        PROVE  InvalidMeansOver'
    <2>1. target[c] \in Timers
      BY <1>5 DEF CancelAgain, Fresh, Methods, TypeOK
    <2>2. CASE InCallback(target[c])
      BY <1>5, <2>1, <2>2 DEF CancelAgain, InCallback, SetCanceled, Answer, InvalidMeansOver, TypeOK
    <2>3. CASE ~InCallback(target[c])
      <3>1. target[c] \in raced \/ "canceled" \in mStatus[target[c]]
        BY <1>5, <2>1, <2>3 DEF CancelAgain, InCallback, Canceling, TypeOK
      <3>2. \A u \in Timers \ {target[c]} : answers'[u] = answers[u]
        BY <1>5, <2>1, <2>3 DEF CancelAgain, Answer, TypeOK
      <3>3. mStatus' = mStatus /\ raced' = raced
        BY <1>5, <2>3 DEF CancelAgain
      <3>. QED
        BY <3>1, <3>2, <3>3 DEF InvalidMeansOver
    <2>. QED
      BY <2>2, <2>3
  <1>6. ASSUME NEW c \in Threads, CancelRemove(c)
        PROVE  InvalidMeansOver'
    <2>1. target[c] \in Timers
      BY <1>6 DEF CancelRemove, Fresh, Methods, TypeOK
    <2>. QED
      BY <1>6, <2>1 DEF CancelRemove, Answer, InvalidMeansOver, TypeOK
  <1>7. ASSUME NEW t \in Timers, Pop(t)
        PROVE  InvalidMeansOver'
    BY <1>7 DEF Pop, InvalidMeansOver, TypeOK
  <1>8. ASSUME Relock
        PROVE  InvalidMeansOver'
    <2>1. tmp \in Timers
      BY <1>8 DEF Relock, InHand, TypeOK
    <2>. QED
      BY <1>8, <2>1 DEF Relock, Repeats, InvalidMeansOver, TypeOK
  <1>9. CASE UNCHANGED vars
    BY <1>9 DEF vars, InvalidMeansOver
  <1>. QED
    BY <1>1, <1>2, <1>3, <1>4, <1>5, <1>6, <1>7, <1>8, <1>9
    DEF Next, Routine, Caller, Cancel, Woken, SpuriousWakeup

LEMMA FaultKept ==
  TypeOK /\ Fresh /\ Times /\ FaultOnlyWhenDue /\ [Next]_vars => FaultOnlyWhenDue'
  <1>. SUFFICES ASSUME TypeOK, Fresh, Times, FaultOnlyWhenDue, [Next]_vars
                PROVE  FaultOnlyWhenDue'
    OBVIOUS
  <1>. USE TimersAssumption
       DEF timerVars, routineVars, threadVars, callerVars, history, Threads
  <1>1. ASSUME ~crashed, NEW c \in Threads, CancelMgr(c)
        PROVE  FaultOnlyWhenDue'
    <2>1. CASE target[c] \in mMgr
      BY <1>1, <2>1 DEF CancelMgr, FaultOnlyWhenDue, TypeOK
    <2>2. CASE target[c] \notin mMgr
      <3>1. target[c] \in born /\ \A d \in Callers : ~(cpc[d] = "add" /\ target[d] = target[c])
        BY <1>1 DEF CancelMgr, Fresh, Methods
      <3>2. ~garbled => mExpiredTime[target[c]] <= clock
        BY <2>2, <3>1 DEF Times
      <3>. QED
        BY <1>1, <2>2, <3>2 DEF CancelMgr, FaultOnlyWhenDue
    <2>. QED
      BY <2>1, <2>2
  <1>2. ASSUME ~crashed, crashed' = crashed
        PROVE  FaultOnlyWhenDue'
    BY <1>2 DEF FaultOnlyWhenDue
  <1>3. CASE UNCHANGED vars
    BY <1>3 DEF vars, FaultOnlyWhenDue
  <1>4. ASSUME NEW c \in Threads,
               AddEnd(c) \/ CancelAgain(c) \/ CancelRemove(c) \/ Joined(c) \/ Stop(c)
        PROVE  crashed' = crashed
    BY <1>4 DEF AddEnd, CancelAgain, CancelRemove, Joined, Stop
  <1>5. ASSUME Construct \/ Tick \/ Check \/ Wait \/ Awake \/ ScheduleLock \/ ScheduleEnd
               \/ CallbackReturn \/ Relock \/ Reinsert
        PROVE  crashed' = crashed
    BY <1>5 DEF Construct, Tick, Check, Wait, Awake, ScheduleLock, ScheduleEnd, CallbackReturn,
                Relock, Reinsert
  <1>6. ASSUME NEW c \in Threads, NEW t \in Timers, Pop(t) \/ CancelBegin(c, t)
        PROVE  crashed' = crashed
    BY <1>6 DEF Pop, CancelBegin
  <1>7. ASSUME NEW c \in Callers, NEW t \in Timers, NEW n \in Timeouts, AddBegin(c, t, n)
        PROVE  crashed' = crashed
    BY <1>7 DEF AddBegin
  <1>8. ASSUME Next
        PROVE  ~crashed /\ (crashed' = crashed \/ \E c \in Threads : CancelMgr(c))
    <2>1. "routine" \in Threads
      OBVIOUS
    <2>. QED
      BY <1>4, <1>5, <1>6, <1>7, <1>8, <2>1 DEF Next, Routine, Caller, Cancel, Woken, SpuriousWakeup
  <1>. QED
    BY <1>1, <1>2, <1>3, <1>8

THEOREM InvCorrect == Safety => []Inv
  <1>1. Inv /\ [Next]_vars => Inv'
    BY TypeKept, HandKept, FreshKept, WaitingKept, CancelingKept, TimesKept, OwnedKept, InvalidKept,
       FaultKept DEF Inv
  <1>. QED
    BY InvInit, <1>1, PTL DEF Safety

-----------------------------------------------------------------------------
\* Type correctness, for any timers and threads.
THEOREM TypeCorrect == Safety => []TypeOK
  BY InvCorrect, PTL DEF Inv

\* After cancel_ok the callback is not running, and never will (Timer.cpp:28-31).
THEOREM OkIsQuiet == Safety => []OkMeansQuiet
  <1>1. Inv => OkMeansQuiet
    BY DEF Inv, InHand, Canceling, OkMeansQuiet, TypeOK
  <1>. QED
    BY <1>1, InvCorrect, PTL

\* The callback is there while it runs (Timer.cpp:55, 74; Timer.h:298).
THEOREM RunningIsSet == Safety => []CalledIsSet
  <1>1. Inv => CalledIsSet
    BY DEF Inv, InHand, CalledIsSet
  <1>. QED
    BY <1>1, InvCorrect, PTL

\* No callback begins early (Timer.cpp:42).
THEOREM NoneIsEarly == Safety => []NeverEarly
  <1>1. Inv => NeverEarly
    <2>1. Inv => clock \in Nat /\ (rpc = "call" => mExpiredTime[tmp] \in Nat)
      BY TimeAssumption DEF Inv, TypeOK, InHand
    <2>. QED
      BY <2>1 DEF Inv, Times, NeverEarly
  <1>. QED
    BY <1>1, InvCorrect, PTL

\* The heap's timers keep themselves, and none is lost (Timer.h:242-304).
THEOREM TheHeapOwns == Safety => []HeapOwned
  BY InvCorrect, PTL DEF Inv

\* invaild_timer, without the race, is the end (Timer.cpp:19, 34).
THEOREM InvalidIsOver == Safety => []InvalidMeansOver
  BY InvCorrect, PTL DEF Inv

\* The null manager is met for a due timer only (Timer.cpp:29-30, 50).
THEOREM FaultIsDue == Safety => []FaultOnlyWhenDue
  BY InvCorrect, PTL DEF Inv

\* What cancel tells is so (Timer.cpp:19, 29-30, 34, 50).
THEOREM TellsTheTruth == Safety => []CancelTells
  BY InvalidIsOver, FaultIsDue, PTL DEF CancelTells

\* An answer of cancel is kept: no callback begins after it, and after cancel_ok none runs
\* (Timer.cpp:19-33, 47-56).
THEOREM CancelIsKept == Safety => CancelHolds
  <1>. DEFINE Quiet ==
         \A t \in Timers : rpc = "top" /\ rpc' = "call" /\ tmp' = t => answers[t] \cap Canceled = {}
  <1>1. ASSUME Inv, [Next]_vars
        PROVE  Quiet
    <2>1. ASSUME NEW t \in Timers, Pop(t), rpc' = "call"
          PROVE  tmp' = t /\ answers[t] \cap Canceled = {}
      BY <1>1, <2>1 DEF Pop, Callable, Inv, Canceling
    <2>2. ASSUME rpc = "top", rpc' = "call"
          PROVE  \E t \in Timers : Pop(t)
      BY <1>1, <2>2 DEF Next, Routine, Caller, Cancel, Woken, SpuriousWakeup, Construct, Tick, Check, Wait,
           Awake, ScheduleLock, ScheduleEnd, CallbackReturn, Relock, Reinsert, AddEnd, CancelAgain,
           CancelMgr, CancelRemove, Joined, Stop, AddBegin, CancelBegin, vars, threadVars
    <2>. QED
      BY <2>1, <2>2
  <1>2. Inv /\ [Next]_vars => [Quiet]_vars
    BY <1>1
  <1>. QED
    BY <1>2, InvCorrect, OkIsQuiet, PTL DEF Safety, CancelHolds, NoCallAfterCancel
=============================================================================
