---------------------------- MODULE TCPConnector ----------------------------
(* hwnet::TCPConnector (net/TCPConnector.cpp): the thread that connects, the     *)
(* poller's thread in OnActive, the timer's thread in connectTimeout and a worker *)
(* in Do.  Only connectTimeout, Do and the claim of OnActive hold mtx; gotError,  *)
(* err and connectTimer are used without it as well.                            *)
EXTENDS Naturals

VARIABLES
  \* the call: ConnectWithTimeout or Connect, with or without an error callback
  withTimeout, hasErrorCallback,
  \* TCPConnector
  fd,            \* "none", "open", "closed", or "given" to the connect callback
  doing, gotError, err,
  connectTimer,  \* it is set
  \* the poller, the timer, the pool
  registered,    \* the kernel has the number, with the connector's raw pointer
  timer,         \* "none", "armed", "firing", "over"
  posted,        \* Do tasks in the pool
  \* threads: the one that connects, the poller's, the timer's, a worker
  upc, ppc, tpc, wpc,
  checked,       \* what checkError returned to the poller's thread
  \* the kernel: "none", "pending", "connected" or "refused"
  conn,
  \* history
  ends,          \* how often Do closed the descriptor or gave it away
  told,          \* what the callbacks were told: "connected", or an error
  timedOut,      \* connectTimeout claimed Do
  early,         \* the timer fired before connectTimer was assigned
  crashed        \* the weak pointer connectTimer was torn by two threads

options == <<withTimeout, hasErrorCallback>>
history == <<ends, told, timedOut, early>>
vars == <<options, fd, doing, gotError, err, connectTimer, registered, timer, posted, upc, ppc, tpc,
          wpc, checked, conn, history, crashed>>

Errors == {"0", "ETIMEDOUT", "ECONNREFUSED", "EBADF"}

TypeOK ==
  /\ withTimeout \in BOOLEAN /\ hasErrorCallback \in BOOLEAN
  /\ fd \in {"none", "open", "closed", "given"}
  /\ doing \in BOOLEAN /\ gotError \in BOOLEAN /\ err \in Errors /\ connectTimer \in BOOLEAN
  /\ registered \in BOOLEAN /\ timer \in {"none", "armed", "firing", "over"} /\ posted \in 0 .. 1
  /\ upc \in {"idle", "add", "timer", "assign", "done", "failed"}
  /\ ppc \in {"idle", "check", "set", "remove", "delete", "cancel", "claim", "post"}
  /\ tpc \in {"idle", "lock", "post"}
  /\ wpc \in {"idle", "error", "connect"} /\ checked \in BOOLEAN
  /\ conn \in {"none", "pending", "connected", "refused"}
  /\ ends \in Nat /\ told \subseteq Errors \cup {"connected"}
  /\ timedOut \in BOOLEAN /\ early \in BOOLEAN /\ crashed \in BOOLEAN

Init ==
  /\ withTimeout \in BOOLEAN /\ hasErrorCallback \in BOOLEAN
  /\ fd = "none" /\ doing = FALSE /\ gotError = FALSE /\ err = "0" /\ connectTimer = FALSE
  /\ registered = FALSE /\ timer = "none" /\ posted = 0
  /\ upc = "idle" /\ ppc = "idle" /\ tpc = "idle" /\ wpc = "idle" /\ checked = FALSE
  /\ conn = "none"
  /\ ends = 0 /\ told = {} /\ timedOut = FALSE /\ early = FALSE /\ crashed = FALSE

-----------------------------------------------------------------------------
(* Connect and ConnectWithTimeout.                                             *)

\* started is set for good, whatever comes of it: a socket and a connection under way or
\* established, or false.
Connect ==
  /\ upc = "idle"
  /\ \/ upc' = "add" /\ fd' = "open" /\ conn' \in {"pending", "connected"}
     \/ upc' = "failed" /\ UNCHANGED <<fd, conn>>
  /\ UNCHANGED <<doing, gotError, err, connectTimer, registered, timer, posted, ppc, tpc, wpc,
                 checked, history, crashed>>

Add ==
  /\ upc = "add" /\ registered' = TRUE
  /\ upc' = IF withTimeout THEN "timer" ELSE "done"
  /\ UNCHANGED <<fd, doing, gotError, err, connectTimer, timer, posted, ppc, tpc, wpc, checked,
                 conn, history, crashed>>

AddTimer ==
  /\ upc = "timer" /\ upc' = "assign" /\ timer' = "armed"
  /\ UNCHANGED <<fd, doing, gotError, err, connectTimer, registered, posted, ppc, tpc, wpc, checked,
                 conn, history, crashed>>

\* Two threads at connectTimer at a time: the assignment, the cancel of OnActive, and the
\* comparison of connectTimeout are not ordered by anything.
Torn(pcs) ==
  \/ crashed' = crashed
  \/ crashed' = TRUE /\ {<<"user", upc>>, <<"poller", ppc>>, <<"timer", tpc>>} \cap pcs # {}

Assign ==
  /\ upc = "assign" /\ upc' = "done"
  /\ connectTimer' = TRUE
  /\ Torn({<<"poller", "cancel">>, <<"timer", "lock">>})
  /\ UNCHANGED <<fd, doing, gotError, err, registered, timer, posted, ppc, tpc, wpc, checked,
                 conn, history>>

-----------------------------------------------------------------------------
(* The kernel: the answer of the peer, or none.                                *)

Answered ==
  /\ conn = "pending" /\ fd = "open" /\ conn' \in {"connected", "refused"}
  /\ UNCHANGED <<fd, doing, gotError, err, connectTimer, registered, timer, posted, upc, ppc, tpc,
                 wpc, checked, history, crashed>>

-----------------------------------------------------------------------------
(* connectTimeout, on the timer's thread.                                      *)

Fire ==
  /\ timer = "armed" /\ timer' = "firing" /\ tpc = "idle" /\ tpc' = "lock"
  /\ UNCHANGED <<fd, doing, gotError, err, connectTimer, registered, posted, upc, ppc, wpc, checked,
                 conn, history, crashed>>

\* [mutation] It does not look whether OnActive was first.
TimeoutCountsAlways == connectTimer

\* The timer is the one assigned, and nobody claimed Do.
TimeoutCounts == connectTimer /\ ~doing

TimeoutError == "ETIMEDOUT"

TimeoutLock ==
  /\ tpc = "lock"
  /\ IF TimeoutCounts
       THEN /\ connectTimer' = FALSE /\ doing' = TRUE /\ gotError' = TRUE /\ err' = TimeoutError
            /\ timedOut' = TRUE /\ tpc' = "post"
            /\ UNCHANGED <<timer, early>>
       ELSE /\ tpc' = "idle" /\ timer' = "over" /\ early' = (early \/ ~(connectTimer \/ doing))
            /\ UNCHANGED <<connectTimer, doing, gotError, err, timedOut>>
  /\ Torn({<<"user", "assign">>, <<"poller", "cancel">>})
  /\ UNCHANGED <<fd, registered, posted, upc, ppc, wpc, checked, conn, ends, told>>

\* [mutation] The task is forgotten.
TimeoutPostsNever == posted

TimeoutPosts == posted + 1

TimeoutPost ==
  /\ tpc = "post" /\ tpc' = "idle" /\ timer' = "over" /\ posted' = TimeoutPosts
  /\ UNCHANGED <<fd, doing, gotError, err, connectTimer, registered, upc, ppc, wpc, checked,
                 conn, history, crashed>>

-----------------------------------------------------------------------------
(* OnActive, on the poller's thread.                                           *)

\* The number is registered without EPOLLET while it is open, whosever it is by now.
EpollWait ==
  /\ ppc = "idle" /\ registered /\ fd \in {"open", "given"} /\ conn \in {"connected", "refused"}
  /\ ppc' = "check"
  /\ UNCHANGED <<fd, doing, gotError, err, connectTimer, registered, timer, posted, upc, tpc, wpc,
                 checked, conn, history, crashed>>

\* What SO_ERROR is: of -1 once the number was given away, and of a number that may be closed
\* by now, and somebody else's.
SocketErrors ==
  CASE fd = "given" -> {"EBADF"}
    [] fd = "closed" -> {"EBADF", "0"}
    [] OTHER -> {IF conn = "refused" THEN "ECONNREFUSED" ELSE "0"}

CheckError ==
  /\ ppc = "check" /\ ppc' = "set"
  /\ err' \in SocketErrors /\ checked' = (err' # "0")
  /\ UNCHANGED <<fd, doing, gotError, connectTimer, registered, timer, posted, upc, tpc, wpc,
                 conn, history, crashed>>

SetGotError ==
  /\ ppc = "set" /\ ppc' = "remove" /\ gotError' = checked
  /\ UNCHANGED <<fd, doing, err, connectTimer, registered, timer, posted, upc, tpc, wpc, checked,
                 conn, history, crashed>>

\* Poller::Remove takes mtx of the poller, not of the connector, and looks at the number
\* twice: it finds nothing under -1, ...
FindInPoller ==
  /\ ppc = "remove" /\ ppc' = IF fd = "given" THEN "cancel" ELSE "delete"
  /\ UNCHANGED <<fd, doing, gotError, err, connectTimer, registered, timer, posted, upc, tpc, wpc,
                 checked, conn, history, crashed>>

\* ... and EPOLL_CTL_DEL of -1 leaves the registration.
RemoveFromPoller ==
  /\ ppc = "delete" /\ ppc' = "cancel" /\ registered' = (registered /\ fd = "given")
  /\ UNCHANGED <<fd, doing, gotError, err, connectTimer, timer, posted, upc, tpc, wpc, checked,
                 conn, history, crashed>>

CancelTimer ==
  /\ ppc = "cancel" /\ ppc' = "claim"
  /\ connectTimer' = FALSE
  /\ timer' = IF connectTimer /\ timer = "armed" THEN "over" ELSE timer
  /\ Torn({<<"user", "assign">>, <<"timer", "lock">>})
  /\ UNCHANGED <<fd, doing, gotError, err, registered, posted, upc, tpc, wpc, checked, conn,
                 history>>

Claims == ~doing

Claim ==
  /\ ppc = "claim"
  /\ IF Claims THEN doing' = TRUE /\ ppc' = "post" ELSE ppc' = "idle" /\ UNCHANGED doing
  /\ UNCHANGED <<fd, gotError, err, connectTimer, registered, timer, posted, upc, tpc, wpc, checked,
                 conn, history, crashed>>

Post ==
  /\ ppc = "post" /\ ppc' = "idle" /\ posted' = posted + 1
  /\ UNCHANGED <<fd, doing, gotError, err, connectTimer, registered, timer, upc, tpc, wpc, checked,
                 conn, history, crashed>>

-----------------------------------------------------------------------------
(* Do, on a worker.                                                            *)

\* An error closes the descriptor, whatever the poller still has of it.
DoLock ==
  /\ posted > 0 /\ wpc = "idle" /\ posted' = posted - 1
  /\ fd' = IF gotError THEN "closed" ELSE "given"
  /\ wpc' = IF gotError THEN "error" ELSE "connect"
  /\ ends' = ends + 1
  /\ UNCHANGED <<doing, gotError, err, connectTimer, registered, timer, upc, ppc, tpc, checked,
                 conn, told, timedOut, early, crashed>>

\* The callback; err is read here, without the lock.
DoCall ==
  /\ wpc # "idle" /\ wpc' = "idle"
  /\ told' = told \cup (IF wpc = "connect" THEN {"connected"}
                        ELSE IF hasErrorCallback THEN {err} ELSE {})
  /\ UNCHANGED <<fd, doing, gotError, err, connectTimer, registered, timer, posted, upc, ppc, tpc,
                 checked, conn, ends, timedOut, early, crashed>>

User == Add \/ AddTimer \/ Assign
TimerThread == Fire \/ TimeoutLock \/ TimeoutPost
Poll ==
  \/ EpollWait \/ CheckError \/ SetGotError \/ FindInPoller \/ RemoveFromPoller \/ CancelTimer
  \/ Claim \/ Post
Worker == DoLock \/ DoCall

\* The arguments stay, and nothing follows a fault.
Step(A) == ~crashed /\ A /\ UNCHANGED options

Next == Step(Connect \/ Answered \/ User \/ TimerThread \/ Poll \/ Worker)

Safety == Init /\ [][Next]_vars

\* Every thread runs, and time passes; the peer need not answer.
Fairness ==
  /\ WF_vars(Step(User)) /\ WF_vars(Step(TimerThread))
  /\ WF_vars(Step(Poll)) /\ WF_vars(Step(Worker))

Spec == Safety /\ Fairness

-----------------------------------------------------------------------------
\* The descriptor is closed or given away, once, by Do alone, though both the timer and the
\* poller may want it to run (TCPConnector.cpp:20, 114, 130-140).
EndsOnce == ends <= 1

\* The connect callback gets a connection that was established: gotError, which OnActive
\* writes without the lock, never hides a refusal (TCPConnector.cpp:24, 102, 132-137).
ConnectedIsReal == fd = "given" => conn = "connected"

\* The error callback is told a cause, unless the answer came while the timeout was being
\* reported and overwrote it (TCPConnector.cpp:25, 87, 143).
ErrorHasCause == "0" \in told => timedOut /\ conn # "pending"

\* The number is not registered any more when it is given away, but by a timeout whose error
\* OnActive took back: Do gives it away before Remove has looked at it
\* (TCPConnector.cpp:24, 102-104, 137-138).
GivenIsRemoved == fd = "given" /\ registered => timedOut

\* An attempt ends once, with the callback that its outcome deserves, and with nothing left in
\* the poller unless a timeout met the answer.
ConnectOutcome == EndsOnce /\ ConnectedIsReal /\ ErrorHasCause /\ GivenIsRemoved

\* What ends an attempt: an answer, and a timeout that was not lost.
AnswerEnds == (upc = "done" /\ conn \in {"connected", "refused"}) ~> (ends > 0 \/ crashed)
TimeoutEnds == (upc = "done" /\ withTimeout) ~> (ends > 0 \/ early \/ crashed)

\* An attempt that was answered, or has a timeout, reaches Do, whichever of the timer and the
\* poller comes first (TCPConnector.cpp:20-30, 112-122).
ConnectEnds == AnswerEnds /\ TimeoutEnds
=============================================================================
