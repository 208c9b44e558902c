---------------------------- MODULE TCPListener ----------------------------
(* hwnet::TCPListener (net/TCPListener.cpp): the threads that call Start and    *)
(* Stop, the poller's thread in OnActive and workers in Do.  The kernel holds   *)
(* the connections that arrived, and reports each arrival once (EPOLLET).       *)
EXTENDS Naturals, FiniteSets

CONSTANTS
  Workers,
  MaxConn,    \* bound: connections that arrive
  MaxErrors,  \* bound: errors of accept that pass, like EMFILE
  MaxStart    \* bound: calls of Start

\* To be assumed where the module is used.
BoundsAssumption == MaxConn \in Nat /\ MaxErrors \in Nat /\ MaxStart \in Nat

VARIABLES
  hasOnError,   \* Start was given an error callback
  \* TCPListener
  started, stop, doing,
  fd,           \* the number in the member: "none", "fresh", "listening" or "closed"
  verNew,       \* workers for whom readableVer moved since they copied it
  \* the thread in Start, the one in Stop
  upc, spc, starts,
  \* the poller's thread, the pool, the workers
  ppc, posted, wpc,
  \* the kernel: the listening socket, what arrived, an arrival to report
  bound, inEpoll, backlog, arrived, edge,
  errors,
  quit          \* history: a worker left Do without clearing doing

vars == <<hasOnError, started, stop, doing, fd, verNew, upc, spc, starts, ppc, posted, wpc, bound,
          inEpoll, backlog, arrived, edge, errors, quit>>

TypeOK ==
  /\ {hasOnError, started, stop, doing, bound, inEpoll, edge, quit} \subseteq BOOLEAN
  /\ fd \in {"none", "fresh", "listening", "closed"} /\ verNew \subseteq Workers
  /\ upc \in {"idle", "socket", "bind", "add", "store"} /\ spc \in {"idle", "remove", "close"}
  /\ ppc \in {"idle", "event", "post"} /\ posted \in 0 .. 1
  /\ wpc \in [Workers -> {"idle", "copy", "accept", "again", "called", "check"}]
  /\ backlog \in 0 .. MaxConn /\ arrived \in 0 .. MaxConn
  /\ errors \in 0 .. MaxErrors /\ starts \in 0 .. MaxStart

Init ==
  /\ hasOnError \in BOOLEAN
  /\ started = FALSE /\ stop = FALSE /\ doing = FALSE /\ fd = "none" /\ verNew = {}
  /\ upc = "idle" /\ spc = "idle" /\ starts = 0
  /\ ppc = "idle" /\ posted = 0 /\ wpc = [w \in Workers |-> "idle"]
  /\ bound = FALSE /\ inEpoll = FALSE /\ backlog = 0 /\ arrived = 0 /\ edge = FALSE
  /\ errors = 0 /\ quit = FALSE

listenerVars == <<started, stop, doing, fd, verNew>>
userVars == <<upc, spc, starts>>
workVars == <<ppc, posted, wpc>>
kernelVars == <<bound, inEpoll, backlog, arrived, edge, errors>>

-----------------------------------------------------------------------------
(* Start and _start.                                                           *)

StartClaim ==
  /\ upc = "idle" /\ starts < MaxStart /\ ~started
  /\ started' = TRUE /\ upc' = "socket" /\ starts' = starts + 1
  /\ UNCHANGED <<stop, doing, fd, verNew, spc, workVars, kernelVars, quit>>

\* The member is overwritten, whatever was there.
StartSocket ==
  /\ upc = "socket" /\ fd' = "fresh" /\ upc' = "bind"
  /\ UNCHANGED <<started, stop, doing, verNew, spc, starts, workVars, kernelVars, quit>>

\* bind and listen; the address is taken as long as a first socket listens on it.
StartBind ==
  /\ upc = "bind"
  /\ IF bound \/ fd # "fresh"
       THEN fd' = "none" /\ upc' = "store" /\ UNCHANGED bound
       ELSE fd' = "listening" /\ upc' = "add" /\ bound' = TRUE
  /\ UNCHANGED <<started, stop, doing, verNew, spc, starts, workVars, inEpoll, backlog, arrived,
                 edge, errors, quit>>

\* Poller::Add; what arrived already is reported.
StartAdd ==
  /\ upc = "add" /\ upc' = "store"
  /\ inEpoll' = bound /\ edge' = (bound /\ backlog > 0)
  /\ UNCHANGED <<listenerVars, spc, starts, workVars, bound, backlog, arrived, errors, quit>>

\* _start returns false though it succeeded, and Start takes its claim back.
StartEnd ==
  /\ upc = "store" /\ upc' = "idle" /\ started' = FALSE
  /\ UNCHANGED <<stop, doing, fd, verNew, spc, starts, workVars, kernelVars, quit>>

-----------------------------------------------------------------------------
(* Stop.                                                                       *)

StopClaim ==
  /\ spc = "idle" /\ started /\ ~stop
  /\ stop' = TRUE /\ spc' = "remove"
  /\ UNCHANGED <<started, doing, fd, verNew, upc, starts, workVars, kernelVars, quit>>

\* Poller::Remove, by the number in the member.
StopRemove ==
  /\ spc = "remove" /\ spc' = "close"
  /\ IF fd = "listening" THEN inEpoll' = FALSE /\ edge' = FALSE ELSE UNCHANGED <<inEpoll, edge>>
  /\ UNCHANGED <<listenerVars, upc, starts, workVars, bound, backlog, arrived, errors, quit>>

\* ::close, of whatever number the member holds; a worker may be in accept on it.
StopClose ==
  /\ spc = "close" /\ spc' = "idle"
  /\ IF fd = "listening"
       THEN bound' = FALSE /\ inEpoll' = FALSE /\ edge' = FALSE /\ backlog' = 0
       ELSE UNCHANGED <<bound, inEpoll, edge, backlog>>
  /\ fd' = IF fd = "none" THEN fd ELSE "closed"
  /\ UNCHANGED <<started, stop, doing, verNew, upc, starts, workVars, arrived, errors, quit>>

-----------------------------------------------------------------------------
(* The kernel and the poller's thread.                                         *)

Arrive ==
  /\ bound /\ arrived < MaxConn /\ arrived' = arrived + 1
  /\ backlog' = backlog + 1 /\ edge' = inEpoll
  /\ UNCHANGED <<listenerVars, userVars, workVars, bound, inEpoll, errors, quit>>

EpollWait ==
  /\ ppc = "idle" /\ edge /\ edge' = FALSE /\ ppc' = "event"
  /\ UNCHANGED <<listenerVars, userVars, posted, wpc, bound, inEpoll, backlog, arrived, errors, quit>>

\* [mutation] The event is not counted when somebody is in Do.
CountedWhenIdle == IF doing THEN verNew ELSE Workers

\* ++readableVer, as the workers that copied it will see it.
Counted == Workers

\* [mutation] Every event posts.
UnclaimedAlways == TRUE

Unclaimed == ~doing

OnActive ==
  /\ ppc = "event" /\ verNew' = Counted /\ doing' = TRUE
  /\ ppc' = IF Unclaimed THEN "post" ELSE "idle"
  /\ UNCHANGED <<started, stop, fd, userVars, posted, wpc, kernelVars, quit>>

Post ==
  /\ ppc = "post" /\ ppc' = "idle" /\ posted' = posted + 1
  /\ UNCHANGED <<listenerVars, userVars, wpc, kernelVars, quit>>

-----------------------------------------------------------------------------
(* Do.                                                                         *)

Goto(w, pc) == wpc' = [wpc EXCEPT ![w] = pc]

DoEnter(w) ==
  /\ wpc[w] = "idle" /\ posted > 0 /\ posted' = posted - 1 /\ Goto(w, "copy")
  /\ UNCHANGED <<listenerVars, userVars, ppc, kernelVars, quit>>

CopyVersion(w) ==
  /\ wpc[w] = "copy" /\ verNew' = verNew \ {w} /\ Goto(w, "accept")
  /\ UNCHANGED <<started, stop, doing, fd, userVars, ppc, posted, kernelVars, quit>>

\* onError_, if there is one, ends Do, and doing stays set.
Fail(w) ==
  IF hasOnError THEN Goto(w, "idle") /\ quit' = TRUE ELSE Goto(w, "check") /\ UNCHANGED quit

\* accept, outside the lock: a connection, EAGAIN, an error that passes, or the error of a
\* member that is no listening socket.
Accept(w) ==
  /\ wpc[w] = "accept"
  /\ \/ fd = "listening" /\ backlog > 0 /\ backlog' = backlog - 1 /\ Goto(w, "called")
        /\ UNCHANGED <<errors, quit>>
     \/ fd = "listening" /\ backlog = 0 /\ Goto(w, "again") /\ UNCHANGED <<backlog, errors, quit>>
     \/ fd = "listening" /\ errors < MaxErrors /\ errors' = errors + 1 /\ Fail(w)
        /\ UNCHANGED backlog
     \/ fd # "listening" /\ Fail(w) /\ UNCHANGED <<backlog, errors>>
  /\ UNCHANGED <<listenerVars, userVars, ppc, posted, bound, inEpoll, arrived, edge>>

\* onNewConn_.
NewConn(w) ==
  /\ wpc[w] = "called" /\ Goto(w, "check")
  /\ UNCHANGED <<listenerVars, userVars, ppc, posted, kernelVars, quit>>

\* EAGAIN: Do ends if no event came since the version was copied.
Again(w) ==
  /\ wpc[w] = "again"
  /\ IF w \in verNew THEN Goto(w, "check") /\ UNCHANGED doing
                     ELSE Goto(w, "idle") /\ doing' = FALSE
  /\ UNCHANGED <<started, stop, fd, verNew, userVars, ppc, posted, kernelVars, quit>>

CheckStop(w) ==
  /\ wpc[w] = "check"
  /\ IF stop THEN Goto(w, "idle") /\ quit' = TRUE ELSE Goto(w, "copy") /\ UNCHANGED quit
  /\ UNCHANGED <<listenerVars, userVars, ppc, posted, kernelVars>>

Worker(w) ==
  DoEnter(w) \/ CopyVersion(w) \/ Accept(w) \/ NewConn(w) \/ Again(w) \/ CheckStop(w)

User == StartSocket \/ StartBind \/ StartAdd \/ StartEnd
Stopper == StopRemove \/ StopClose
Poll == EpollWait \/ OnActive \/ Post

\* The argument of Start stays.
Step(A) == A /\ UNCHANGED hasOnError

Next == Step(StartClaim \/ User \/ StopClaim \/ Stopper \/ Arrive \/ Poll \/ \E w \in Workers : Worker(w))

Safety == Init /\ [][Next]_vars

\* Threads run; nobody has to call Start or Stop, or to connect.
Fairness ==
  /\ WF_vars(Step(User)) /\ WF_vars(Step(Stopper)) /\ WF_vars(Step(Poll))
  /\ \A w \in Workers : WF_vars(Step(Worker(w)))

Spec == Safety /\ Fairness

-----------------------------------------------------------------------------
Tasks == posted + Cardinality({w \in Workers : wpc[w] # "idle"}) + IF ppc = "post" THEN 1 ELSE 0

\* With the types: one worker accepts at a time, for doing is one Do task, and none once Do
\* was left through the error callback or stop (TCPListener.cpp:18-21, 62, 67-68, 72-73).
OneAcceptor == TypeOK /\ Tasks = IF doing /\ ~quit THEN 1 ELSE 0

\* What arrives is accepted, unless accept failed, the listener was stopped, or a second
\* Start took its socket away (TCPListener.cpp:47-76, 91-105).
ArrivedIsAccepted == (inEpoll /\ backlog > 0) ~> (backlog = 0 \/ quit \/ fd # "listening" \/ stop)
=============================================================================
