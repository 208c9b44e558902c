--------------------------- MODULE EndpointsProofs --------------------------
(* Theorems about TCPConnector, and about a listener beside it (MCEndpoints).  *)
EXTENDS MCEndpoints, TLAPS

One(b) == IF b THEN 1 ELSE 0

\* doing is one claim: about to be posted by one of two threads, posted, or taken by Do.
OneClaim == One(ppc = "post") + One(tpc = "post") + posted + ends = One(doing)

\* Before Connect nothing has happened, and before Add the poller's thread has nothing.
Fresh ==
  /\ upc = "idle" =>
       /\ fd = "none" /\ conn = "none" /\ ~doing /\ ~gotError /\ ~timedOut
       /\ timer = "none" /\ tpc = "idle" /\ wpc = "idle" /\ told = {}
  /\ upc \in {"idle", "add"} =>
       ~registered /\ ppc = "idle" /\ ~doing /\ timer = "none" /\ tpc = "idle"
  /\ upc = "timer" => timer = "none" /\ tpc = "idle"
  /\ ppc \in {"cancel", "claim", "post"} => ~registered \/ fd = "given"
  /\ ppc # "idle" => conn \in {"connected", "refused"}

\* Who finds no error has a connection, or comes after the end.
Real == conn = "connected" \/ fd = "closed"

NoErrorIsReal ==
  /\ ppc = "set" /\ ~checked => Real
  /\ ppc \in {"remove", "delete", "cancel", "claim", "post"} /\ ~gotError => Real
  /\ doing /\ ~gotError => Real
  /\ fd \in {"closed", "given"} => ends > 0

\* Who claims Do before the number was removed is the timeout.
ClaimedIsRemoved == doing /\ registered => timedOut

\* The poller's thread has not reported its result yet.
NotYet == ppc \in {"check", "set"} \/ (ppc = "idle" /\ registered) \/ upc \in {"idle", "add"}

Excused == timedOut /\ conn # "pending"

\* An error without a cause comes from the answer that met a timeout.
CauseUnlessExcused ==
  /\ NotYet /\ (gotError \/ wpc = "error") => timedOut
  /\ (gotError \/ wpc = "error") /\ err = "0" => Excused
  /\ ppc = "set" /\ checked => err # "0"

\* The inductive invariant.
Answers ==
  /\ TypeOK /\ OneClaim /\ Fresh /\ NoErrorIsReal /\ ConnectedIsReal
  /\ ClaimedIsRemoved /\ CauseUnlessExcused /\ ErrorHasCause

-----------------------------------------------------------------------------
LEMMA AnswersInit == Init => Answers
  <1>. SUFFICES ASSUME Init
                PROVE  Answers
    OBVIOUS
  <1>1. /\ {withTimeout, hasErrorCallback, doing, gotError, connectTimer, registered} \subseteq BOOLEAN
        /\ {checked, timedOut, early, crashed} \subseteq BOOLEAN
    BY Zenon DEF Init
  <1>2. TypeOK
    BY <1>1 DEF Init, TypeOK, Errors
  <1>. QED
    BY <1>2 DEF Init, Answers, OneClaim, One, Fresh, NoErrorIsReal, Real, ConnectedIsReal,
                ClaimedIsRemoved, CauseUnlessExcused, NotYet, Excused, ErrorHasCause

\* One step per action; the definitions used here are those of the invariant.
LEMMA AnswersKept == Answers /\ [Next]_vars => Answers'
  <1>. SUFFICES ASSUME Answers, [Next]_vars
                PROVE  Answers'
    OBVIOUS
  <1>. USE DEF Answers, TypeOK, OneClaim, One, Fresh, NoErrorIsReal, Real, ConnectedIsReal,
               ClaimedIsRemoved, CauseUnlessExcused, NotYet, Excused, ErrorHasCause, Errors
  <1>1. ASSUME Step(Connect)
        PROVE  Answers'
    BY <1>1 DEF Step, options, Connect, history
  <1>2. ASSUME Step(Answered)
        PROVE  Answers'
    BY <1>2 DEF Step, options, Answered, history
  <1>3. ASSUME Step(Add)
        PROVE  Answers'
    BY <1>3 DEF Step, options, Add, history
  <1>4. ASSUME Step(AddTimer)
        PROVE  Answers'
    BY <1>4 DEF Step, options, AddTimer, history
  <1>5. ASSUME Step(Assign)
        PROVE  Answers'
    <2>1. TypeOK'
      BY <1>5 DEF Step, options, Assign, Torn, history
    <2>2. OneClaim'
      BY <1>5 DEF Step, options, Assign, Torn, history
    <2>3. Fresh'
      BY <1>5 DEF Step, options, Assign, Torn, history
    <2>4. NoErrorIsReal'
      BY <1>5 DEF Step, options, Assign, Torn, history
    <2>5. ConnectedIsReal'
      BY <1>5 DEF Step, options, Assign, Torn, history
    <2>6. CauseUnlessExcused'
      BY <1>5 DEF Step, options, Assign, Torn, history
    <2>7. ErrorHasCause'
      BY <1>5 DEF Step, options, Assign, Torn, history
    <2>8. ClaimedIsRemoved'
      BY <1>5 DEF Step, options, Assign, Torn, history
    <2>. QED
      BY <2>1, <2>2, <2>3, <2>4, <2>5, <2>6, <2>7, <2>8
  <1>6. ASSUME Step(Fire)
        PROVE  Answers'
    BY <1>6 DEF Step, options, Fire, history
  <1>7. ASSUME Step(TimeoutLock)
        PROVE  Answers'
    <2>1. TypeOK'
      <3>1. connectTimer' \in BOOLEAN /\ doing' \in BOOLEAN /\ gotError' \in BOOLEAN /\ timedOut' \in BOOLEAN /\ early' \in BOOLEAN /\ crashed' \in BOOLEAN
        BY <1>7, Zenon DEF Step, options, TimeoutLock, TimeoutCounts, TimeoutError, Torn, history
      <3>. QED
        BY <1>7, <3>1 DEF Step, options, TimeoutLock, TimeoutCounts, TimeoutError, Torn, history
    <2>2. OneClaim'
      BY <1>7 DEF Step, options, TimeoutLock, TimeoutCounts, TimeoutError, Torn, history
    <2>3. Fresh'
      BY <1>7 DEF Step, options, TimeoutLock, TimeoutCounts, TimeoutError, Torn, history
    <2>4. NoErrorIsReal'
      BY <1>7 DEF Step, options, TimeoutLock, TimeoutCounts, TimeoutError, Torn, history
    <2>5. ConnectedIsReal'
      BY <1>7 DEF Step, options, TimeoutLock, TimeoutCounts, TimeoutError, Torn, history
    <2>6. CauseUnlessExcused'
      BY <1>7 DEF Step, options, TimeoutLock, TimeoutCounts, TimeoutError, Torn, history
    <2>7. ErrorHasCause'
      BY <1>7 DEF Step, options, TimeoutLock, TimeoutCounts, TimeoutError, Torn, history
    <2>8. ClaimedIsRemoved'
      BY <1>7 DEF Step, options, TimeoutLock, TimeoutCounts, TimeoutError, Torn, history
    <2>. QED
      BY <2>1, <2>2, <2>3, <2>4, <2>5, <2>6, <2>7, <2>8
  <1>8. ASSUME Step(TimeoutPost)
        PROVE  Answers'
    BY <1>8 DEF Step, options, TimeoutPost, TimeoutPosts, history
  <1>9. ASSUME Step(EpollWait)
        PROVE  Answers'
    BY <1>9 DEF Step, options, EpollWait, history
  <1>10. ASSUME Step(CheckError)
        PROVE  Answers'
    <2>1. TypeOK'
      BY <1>10 DEF Step, options, CheckError, SocketErrors, history
    <2>2. OneClaim'
      BY <1>10 DEF Step, options, CheckError, SocketErrors, history
    <2>3. Fresh'
      BY <1>10 DEF Step, options, CheckError, SocketErrors, history
    <2>4. NoErrorIsReal'
      BY <1>10 DEF Step, options, CheckError, SocketErrors, history
    <2>5. ConnectedIsReal'
      BY <1>10 DEF Step, options, CheckError, SocketErrors, history
    <2>6. CauseUnlessExcused'
      BY <1>10 DEF Step, options, CheckError, SocketErrors, history
    <2>7. ErrorHasCause'
      BY <1>10 DEF Step, options, CheckError, SocketErrors, history
    <2>8. ClaimedIsRemoved'
      BY <1>10 DEF Step, options, CheckError, SocketErrors, history
    <2>. QED
      BY <2>1, <2>2, <2>3, <2>4, <2>5, <2>6, <2>7, <2>8
  <1>11. ASSUME Step(SetGotError)
        PROVE  Answers'
    BY <1>11 DEF Step, options, SetGotError, history
  <1>12. ASSUME Step(RemoveFromPoller)
        PROVE  Answers'
    <2>1. TypeOK'
      <3>1. registered' \in BOOLEAN
        BY <1>12, Zenon DEF Step, options, RemoveFromPoller, history
      <3>. QED
        BY <1>12, <3>1 DEF Step, options, RemoveFromPoller, history
    <2>2. OneClaim'
      BY <1>12 DEF Step, options, RemoveFromPoller, history
    <2>3. Fresh'
      BY <1>12 DEF Step, options, RemoveFromPoller, history
    <2>4. NoErrorIsReal'
      BY <1>12 DEF Step, options, RemoveFromPoller, history
    <2>5. ConnectedIsReal'
      BY <1>12 DEF Step, options, RemoveFromPoller, history
    <2>6. CauseUnlessExcused'
      BY <1>12 DEF Step, options, RemoveFromPoller, history
    <2>7. ErrorHasCause'
      BY <1>12 DEF Step, options, RemoveFromPoller, history
    <2>8. ClaimedIsRemoved'
      BY <1>12 DEF Step, options, RemoveFromPoller, history
    <2>. QED
      BY <2>1, <2>2, <2>3, <2>4, <2>5, <2>6, <2>7, <2>8
  <1>13. ASSUME Step(CancelTimer)
        PROVE  Answers'
    <2>1. TypeOK'
      <3>1. connectTimer' \in BOOLEAN /\ crashed' \in BOOLEAN
        BY <1>13, Zenon DEF Step, options, CancelTimer, Torn, history
      <3>. QED
        BY <1>13, <3>1 DEF Step, options, CancelTimer, Torn, history
    <2>2. OneClaim'
      BY <1>13 DEF Step, options, CancelTimer, Torn, history
    <2>3. Fresh'
      BY <1>13 DEF Step, options, CancelTimer, Torn, history
    <2>4. NoErrorIsReal'
      BY <1>13 DEF Step, options, CancelTimer, Torn, history
    <2>5. ConnectedIsReal'
      BY <1>13 DEF Step, options, CancelTimer, Torn, history
    <2>6. CauseUnlessExcused'
      BY <1>13 DEF Step, options, CancelTimer, Torn, history
    <2>7. ErrorHasCause'
      BY <1>13 DEF Step, options, CancelTimer, Torn, history
    <2>8. ClaimedIsRemoved'
      BY <1>13 DEF Step, options, CancelTimer, Torn, history
    <2>. QED
      BY <2>1, <2>2, <2>3, <2>4, <2>5, <2>6, <2>7, <2>8
  <1>14. ASSUME Step(Claim)
        PROVE  Answers'
    <2>1. TypeOK'
      <3>1. doing' \in BOOLEAN
        BY <1>14, Zenon DEF Step, options, Claim, Claims, history
      <3>. QED
        BY <1>14, <3>1 DEF Step, options, Claim, Claims, history
    <2>2. OneClaim'
      BY <1>14 DEF Step, options, Claim, Claims, history
    <2>3. Fresh'
      BY <1>14 DEF Step, options, Claim, Claims, history
    <2>4. NoErrorIsReal'
      BY <1>14 DEF Step, options, Claim, Claims, history
    <2>5. ConnectedIsReal'
      BY <1>14 DEF Step, options, Claim, Claims, history
    <2>6. CauseUnlessExcused'
      BY <1>14 DEF Step, options, Claim, Claims, history
    <2>7. ErrorHasCause'
      BY <1>14 DEF Step, options, Claim, Claims, history
    <2>8. ClaimedIsRemoved'
      BY <1>14 DEF Step, options, Claim, Claims, history
    <2>. QED
      BY <2>1, <2>2, <2>3, <2>4, <2>5, <2>6, <2>7, <2>8
  <1>15. ASSUME Step(Post)
        PROVE  Answers'
    BY <1>15 DEF Step, options, Post, history
  <1>16. ASSUME Step(DoLock)
        PROVE  Answers'
    BY <1>16 DEF Step, options, DoLock, history
  <1>17. ASSUME Step(DoCall)
        PROVE  Answers'
    BY <1>17 DEF Step, options, DoCall, history
  <1>18. ASSUME Step(FindInPoller)
        PROVE  Answers'
    BY <1>18 DEF Step, options, FindInPoller, history
  <1>19. CASE UNCHANGED vars
    BY <1>19 DEF vars, options, history
  <1>. QED
    BY <1>1, <1>2, <1>3, <1>4, <1>5, <1>6, <1>7, <1>8, <1>9, <1>10, <1>11, <1>12, <1>13, <1>14, <1>15, <1>16, <1>17, <1>18, <1>19
    DEF Next, Step, User, TimerThread, Poll, Worker

THEOREM AnswersCorrect == Safety => []Answers
  <1>. QED
    BY AnswersInit, AnswersKept, PTL DEF Safety

\* Type correctness; in particular at most one Do task is in the pool.
THEOREM TypeCorrect == Safety => []TypeOK
  <1>1. Answers => TypeOK
    BY DEF Answers
  <1>. QED
    BY <1>1, AnswersCorrect, PTL

\* The descriptor is closed or given away once (TCPConnector.cpp:20, 114, 130-140).
THEOREM ItEndsOnce == Safety => []EndsOnce
  <1>1. Answers => EndsOnce
    BY DEF Answers, TypeOK, OneClaim, One, EndsOnce
  <1>. QED
    BY <1>1, AnswersCorrect, PTL

\* Only an established connection is given away (TCPConnector.cpp:24, 102, 132-137).
THEOREM OnlyConnectionsAreGiven == Safety => []ConnectedIsReal
  <1>1. Answers => ConnectedIsReal
    BY DEF Answers
  <1>. QED
    BY <1>1, AnswersCorrect, PTL

\* An error is reported without a cause only when the answer met the timeout
\* (TCPConnector.cpp:25, 87, 143).
THEOREM ErrorsHaveCauses == Safety => []ErrorHasCause
  <1>1. Answers => ErrorHasCause
    BY DEF Answers
  <1>. QED
    BY <1>1, AnswersCorrect, PTL

\* A number that is given away is registered no more, but when the timeout claimed Do
\* (TCPConnector.cpp:24, 102-104, 137-138).
THEOREM GivenIsNotRegistered == Safety => []GivenIsRemoved
  <1>1. Answers => GivenIsRemoved
    <2>. SUFFICES ASSUME Answers, fd = "given", registered
                  PROVE  timedOut
      BY DEF GivenIsRemoved
    <2>1. ends > 0
      BY DEF Answers, NoErrorIsReal
    <2>2. doing
      BY <2>1 DEF Answers, TypeOK, OneClaim, One
    <2>. QED
      BY <2>2 DEF Answers, ClaimedIsRemoved
  <1>. QED
    BY <1>1, AnswersCorrect, PTL

\* An attempt ends once, with the right callback (TCPConnector.cpp:20-30, 102-146).
THEOREM OutcomeIsRight == Safety => []ConnectOutcome
  BY ItEndsOnce, OnlyConnectionsAreGiven, ErrorsHaveCauses, GivenIsNotRegistered, PTL DEF ConnectOutcome

-----------------------------------------------------------------------------
(* The listener beside the connector: another instance of TCPListener.         *)

LP == INSTANCE TCPListenerProofs
        WITH doing <- ldoing, fd <- lfd, upc <- lupc, ppc <- lppc, posted <- lposted, wpc <- lwpc

\* Both instances have the same steps.
LEMMA ListenerSteps == (L!Next <=> LP!Next) /\ L!vars = LP!vars /\ (L!Init <=> LP!Init)
  <1>1. /\ L!listenerVars = LP!listenerVars /\ L!userVars = LP!userVars
        /\ L!workVars = LP!workVars /\ L!kernelVars = LP!kernelVars
    BY DEF L!listenerVars, LP!listenerVars, L!userVars, LP!userVars, L!workVars, LP!workVars,
           L!kernelVars, LP!kernelVars
  <1>2. L!User <=> LP!User
    BY <1>1, Zenon DEF L!User, LP!User, L!StartSocket, LP!StartSocket, L!StartBind, LP!StartBind,
       L!StartAdd, LP!StartAdd, L!StartEnd, LP!StartEnd, L!listenerVars, LP!listenerVars,
       L!userVars, LP!userVars, L!workVars, LP!workVars, L!kernelVars, LP!kernelVars
  <1>3. (L!StartClaim <=> LP!StartClaim) /\ (L!StopClaim <=> LP!StopClaim)
        /\ (L!Stopper <=> LP!Stopper) /\ (L!Arrive <=> LP!Arrive)
    BY <1>1, Zenon DEF L!StartClaim, LP!StartClaim, L!StopClaim, LP!StopClaim, L!Stopper, LP!Stopper,
       L!StopRemove, LP!StopRemove, L!StopClose, LP!StopClose, L!Arrive, LP!Arrive,
       L!listenerVars, LP!listenerVars, L!userVars, LP!userVars, L!workVars, LP!workVars,
       L!kernelVars, LP!kernelVars
  <1>4. L!Poll <=> LP!Poll
    BY <1>1, Zenon DEF L!Poll, LP!Poll, L!EpollWait, LP!EpollWait, L!OnActive, LP!OnActive,
       L!Post, LP!Post, L!Counted, LP!Counted, L!Unclaimed, LP!Unclaimed,
       L!listenerVars, LP!listenerVars, L!userVars, LP!userVars, L!workVars, LP!workVars,
       L!kernelVars, LP!kernelVars
  <1>5. \A w \in Workers : L!Worker(w) <=> LP!Worker(w)
    BY <1>1, Zenon DEF L!Worker, LP!Worker, L!DoEnter, LP!DoEnter, L!CopyVersion, LP!CopyVersion,
       L!Accept, LP!Accept, L!Fail, LP!Fail, L!NewConn, LP!NewConn, L!Again, LP!Again,
       L!CheckStop, LP!CheckStop, L!Goto, LP!Goto,
       L!listenerVars, LP!listenerVars, L!userVars, LP!userVars, L!workVars, LP!workVars,
       L!kernelVars, LP!kernelVars
  <1>6. L!Next <=> LP!Next
    BY <1>2, <1>3, <1>4, <1>5, Zenon DEF L!Next, LP!Next, L!Step, LP!Step
  <1>7. L!vars = LP!vars /\ (L!Init <=> LP!Init)
    BY Zenon DEF L!vars, LP!vars, L!Init, LP!Init
  <1>. QED
    BY <1>6, <1>7

\* In the run one acceptor is in Do, whatever the connector beside it does: no step of the one is
\* a step of the other (TCPListener.cpp:18-21, 62, 67-68, 72-73).
THEOREM OneAcceptorInTheRun == BothSpec => []OneAcceptor
  <1>1. BothInit => LP!Init
    BY ListenerSteps DEF BothInit
  <1>2. [BothNext]_all => [LP!Next]_(LP!vars)
    <2>1. UNCHANGED listener => UNCHANGED LP!vars
      BY DEF listener, LP!vars
    <2>2. UNCHANGED all => UNCHANGED listener
      BY DEF all, listener
    <2>. QED
      BY <2>1, <2>2, ListenerSteps DEF BothNext
  <1>3. LP!Safety => []LP!OneAcceptor
    BY ListenerAssumption, LP!OneAcceptorAtATime DEF L!BoundsAssumption, LP!BoundsAssumption
  <1>4. LP!OneAcceptor => OneAcceptor
    <2>1. \A S : LP!Cardinality(S) = L!Cardinality(S)
      BY Zenon DEF LP!Cardinality, L!Cardinality
    <2>. QED
      BY <2>1, Zenon DEF LP!OneAcceptor, OneAcceptor, L!OneAcceptor, LP!TypeOK, L!TypeOK,
         LP!Tasks, L!Tasks
  <1>. QED
    BY <1>1, <1>2, <1>3, <1>4, PTL DEF BothSpec, LP!Safety
=============================================================================
