----------------------------- MODULE TCPSocket -----------------------------
(* hwnet::TCPSocket (net/TCPSocket.h, net/TCPSocket.cpp), built without SSL    *)
(* and GATHER_RECV, no timeouts set: one socket, the threads of the pool that  *)
(* run its Do, the poller thread that runs its OnActive, user threads (and     *)
(* user callbacks) that call its methods, the kernel's side of the descriptor  *)
(* and the peer.  A critical section of mtx is one action, a system call made  *)
(* outside mtx is one, and so is each hand-over between threads.               *)
EXTENDS Integers, Sequences, FiniteSets

CONSTANTS
  Workers,        \* the threads of the pool
  MaxLoop,        \* maxLoop of Do
  IovMax,         \* max_send_iovec_size
  HighWaterSize,  \* highWaterSize; 0: no high water mark
  FlushCb,        \* a FlushCallback is set
  ErrorCb,        \* an ErrorCallback is set
  CloseCb,        \* a CloseCallback is set
  BufLen,         \* Len() of the buffers given to Recv
  Capacity,       \* bytes the kernel's send buffer takes
  MaxRecv,        \* bound: calls of Recv
  MaxMsg,         \* bound: bytes of one Send
  MaxBytes,       \* bound: bytes of all Sends
  MaxRx,          \* bound: bytes the peer sends
  Breaks,         \* bound: the ways the connection may end, within {"fin", "rst"}
  Methods         \* bound: those of Shutdown, SendAndClose and Close that users call

ASSUME WorkersAssumption == IsFiniteSet(Workers) /\ "user" \notin Workers /\ "free" \notin Workers
ASSUME SizesAssumption ==
  /\ MaxLoop \in Nat /\ IovMax \in Nat \ {0} /\ HighWaterSize \in Nat
  /\ BufLen \in Nat \ {0} /\ Capacity \in Nat
  /\ MaxRecv \in Nat /\ MaxMsg \in Nat /\ MaxBytes \in Nat /\ MaxRx \in Nat
ASSUME CallbacksAssumption == FlushCb \in BOOLEAN /\ ErrorCb \in BOOLEAN /\ CloseCb \in BOOLEAN

VARIABLES
  \* the socket object
  started, closed, closedOnFlush, shutdown, doing, socketError,
  mtx,         \* its mutex: "free", or held across a system call by a thread in Close
  readable, recvList,
  rNew,        \* the workers for which readableVer has moved since they read it
  writeable,
  sendList,    \* *ptrSendlist, byte by byte
  localList,   \* the other one of sendLists, localSendlist while a writev is under way
  wNew,        \* the workers for which writeableVer has moved since they read it
  bytes4Send,
  \* the kernel: the connection, and its entry in the epoll instance
  rx,          \* bytes that arrived and were not read
  room,        \* free bytes of the send buffer
  shut,        \* ::shutdown called with: "none", "wr" (SHUT_WR), "rdwr" (SHUT_RDWR)
  peer,        \* "open", "fin" (it closed its side), "rst" (the connection broke)
  added,       \* registered: a member of Poller::channels
  armed,       \* EPOLLOUT is part of the registered events
  edge,        \* on the ready list: the next epoll_wait looks at it
  \* the poller thread
  ppc, pev,    \* where it is, and the events epoll_wait returned
  \* the pool
  posting,     \* user threads between the unlock and their PostTask
  queued,      \* Do tasks of this socket in the pool's queue
  pc,          \* where each worker is, "idle" outside Do
  loops, wantW, buf, res, cof,  \* i, canWrite_, front, n, closedOnFlush_ of a worker
  \* history
  offered,     \* buffers given to Recv
  filled,      \* buffers handed to the receive callback, in order
  arrived,     \* bytes the peer sent
  accepted,    \* bytes Send took
  wire,        \* bytes writev took, in order
  closeCbs     \* calls of the close callback

recvVars == <<readable, recvList, rNew, offered>>
sendVars == <<writeable, sendList, localList, wNew, bytes4Send, accepted, closedOnFlush>>
rxVars == <<rx, arrived>>
txVars == <<room, wire>>
epollVars == <<added, armed, edge>>
pollerVars == <<ppc, pev>>
poolVars == <<posting, queued>>
localVars == <<loops, wantW, buf, res, cof>>
history == <<filled, closeCbs>>
vars == <<started, closed, shutdown, doing, socketError, mtx, recvVars, sendVars, rxVars,
          txVars, shut, peer, epollVars, pollerVars, poolVars, pc, localVars, history>>

\* A byte to send: its place in the stream, and whether its sendContext ends there.
Byte == [pos : 1 .. MaxBytes, last : BOOLEAN]

Places == {"idle", "loop", "repost", "recv", "read", "recvcb", "recvfail", "error", "send",
           "writev", "senddone", "enable", "flushcb", "highwater", "close", "closing",
           "doclose", "closecb"}

\* The places inside recvInWorker and sendInWorker.
DataPath == Places \ {"idle", "loop", "repost", "doclose", "closecb"}

\* Results of read and writev: a count, or one of these.
Again == -1
Failed == -2

TypeOK ==
  /\ started \in BOOLEAN /\ closed \in BOOLEAN /\ closedOnFlush \in BOOLEAN
  /\ shutdown \in BOOLEAN /\ doing \in BOOLEAN /\ socketError \in BOOLEAN
  /\ mtx \in {"free", "user"} \cup Workers
  /\ readable \in BOOLEAN /\ recvList \in Seq(Nat) /\ rNew \in SUBSET Workers
  /\ writeable \in BOOLEAN /\ sendList \in Seq(Byte) /\ localList \in Seq(Byte)
  /\ wNew \in SUBSET Workers /\ bytes4Send \in Nat
  /\ rx \in Nat /\ room \in 0 .. Capacity
  /\ shut \in {"none", "wr", "rdwr"} /\ peer \in {"open", "fin", "rst"}
  /\ added \in BOOLEAN /\ armed \in BOOLEAN /\ edge \in BOOLEAN
  /\ ppc \in {"wait", "disable", "active", "post"} /\ pev \in SUBSET {"in", "out", "err"}
  /\ posting \in Nat /\ queued \in Nat
  /\ pc \in [Workers -> Places]
  /\ loops \in [Workers -> 0 .. MaxLoop] /\ wantW \in [Workers -> BOOLEAN]
  /\ buf \in [Workers -> Nat] /\ res \in [Workers -> Int] /\ cof \in [Workers -> BOOLEAN]
  /\ offered \in 0 .. MaxRecv /\ filled \in Seq(Nat)
  /\ arrived \in 0 .. MaxRx /\ accepted \in 0 .. MaxBytes
  /\ wire \in Seq(Byte) /\ closeCbs \in Nat

Init ==
  /\ started = FALSE /\ closed = FALSE /\ closedOnFlush = FALSE
  /\ shutdown = FALSE /\ doing = FALSE /\ socketError = FALSE /\ mtx = "free"
  /\ readable = FALSE /\ recvList = <<>> /\ rNew = {}
  /\ writeable = FALSE /\ sendList = <<>> /\ localList = <<>> /\ wNew = {} /\ bytes4Send = 0
  /\ rx = 0 /\ room = Capacity /\ shut = "none" /\ peer = "open"
  /\ added = FALSE /\ armed = FALSE /\ edge = FALSE
  /\ ppc = "wait" /\ pev = {}
  /\ posting = 0 /\ queued = 0
  /\ pc = [w \in Workers |-> "idle"]
  /\ loops = [w \in Workers |-> 0] /\ wantW = [w \in Workers |-> FALSE]
  /\ buf = [w \in Workers |-> 0] /\ res = [w \in Workers |-> 0]
  /\ cof = [w \in Workers |-> FALSE]
  /\ offered = 0 /\ filled = <<>> /\ arrived = 0 /\ accepted = 0 /\ wire = <<>>
  /\ closeCbs = 0

-----------------------------------------------------------------------------
(* The predicates of TCPSocket.h.                                             *)

HighWater == HighWaterSize > 0 /\ bytes4Send > HighWaterSize

CanRead == (readable /\ recvList # <<>>) \/ socketError

CanWrite == /\ ~shutdown /\ ~closed /\ ~socketError
            /\ (writeable /\ sendList # <<>>) \/ HighWater

\* The claim on Do that every poster makes: who finds work and nobody doing it sets
\* doing and posts the task.
Claims(work) == work /\ ~doing

-----------------------------------------------------------------------------
(* The kernel.                                                                *)

\* What epoll_wait would find.  A closed peer (RDHUP), a broken connection (ERR, HUP)
\* and the local SHUT_RDWR (HUP, RDHUP) all come with EPOLLIN and as ErrorFlag().
Broken == peer # "open" \/ shut = "rdwr"
Ready == {e \in {"in", "out", "err"} :
            \/ e = "in" /\ (rx > 0 \/ Broken)
            \/ e = "out" /\ (room > 0 \/ shut # "none" \/ peer = "rst")
            \/ e = "err" /\ Broken}
Interest(out) == IF out THEN {"in", "out", "err"} ELSE {"in", "err"}

\* epoll_ctl ADD and MOD look at the descriptor at once and put it on the ready list
\* if an event of the new interest is there.
Rearm(out) == armed' = out /\ edge' = (edge \/ Ready \cap Interest(out) # {})

\* Data, FIN and RST of the peer wake the descriptor; so does room in the send buffer,
\* when EPOLLOUT is asked for.
PeerSend ==
  /\ peer = "open" /\ shut # "rdwr" /\ arrived < MaxRx
  /\ rx' = rx + 1 /\ arrived' = arrived + 1
  /\ edge' = added
  /\ UNCHANGED <<started, closed, shutdown, doing, socketError, mtx, recvVars, sendVars,
                 txVars, shut, peer, added, armed, pollerVars, poolVars, pc, localVars, history>>

PeerRead ==
  /\ peer # "rst"
  /\ \E n \in room + 1 .. Capacity : room' = n
  /\ edge' = (edge \/ (added /\ armed))
  /\ UNCHANGED <<started, closed, shutdown, doing, socketError, mtx, recvVars, sendVars,
                 rxVars, wire, shut, peer, added, armed, pollerVars, poolVars, pc, localVars,
                 history>>

PeerBreak ==
  /\ peer # "rst"
  /\ peer' \in {b \in {"fin", "rst"} : b \in Breaks /\ b # peer}
  /\ edge' = added
  /\ UNCHANGED <<started, closed, shutdown, doing, socketError, mtx, recvVars, sendVars,
                 rxVars, txVars, shut, added, armed, pollerVars, poolVars, pc, localVars, history>>

-----------------------------------------------------------------------------
(* The methods users call, from any thread and from callbacks.                *)

\* Start: registered once, edge-triggered, for reading and writing.
Start ==
  /\ ~started
  /\ started' = TRUE /\ added' = TRUE
  /\ Rearm(TRUE)
  /\ UNCHANGED <<closed, shutdown, doing, socketError, mtx, recvVars, sendVars, rxVars, txVars,
                 shut, peer, pollerVars, poolVars, pc, localVars, history>>

\* The tail of Recv and Send: claim under mtx, PostTask after the unlock.
ClaimAndPost(work) ==
  /\ doing' = (doing \/ work)
  /\ posting' = IF Claims(work) THEN posting + 1 ELSE posting
  /\ UNCHANGED queued

\* Recv; a closed socket takes no buffer.
Recv ==
  /\ mtx = "free" /\ ~closed /\ offered < MaxRecv
  /\ offered' = offered + 1
  /\ recvList' = Append(recvList, offered + 1)
  /\ ClaimAndPost(readable)
  /\ UNCHANGED <<started, closed, shutdown, socketError, mtx, readable, rNew, sendVars, rxVars,
                 txVars, shut, peer, epollVars, pollerVars, pc, localVars, history>>

\* The bytes of a message of len bytes, one sendContext.
Message(len) == [i \in 1 .. len |-> [pos |-> accepted + i, last |-> i = len]]

\* Send (andClose = FALSE) and SendAndClose; after Shutdown, SendAndClose and Close
\* they return at once.
Send(len, andClose) ==
  /\ mtx = "free" /\ ~closed /\ ~shutdown /\ ~closedOnFlush /\ accepted + len <= MaxBytes
  /\ andClose => "SendAndClose" \in Methods
  /\ closedOnFlush' = andClose
  /\ sendList' = sendList \o Message(len)
  /\ bytes4Send' = bytes4Send + len
  /\ accepted' = accepted + len
  /\ ClaimAndPost(writeable \/ HighWater')
  /\ UNCHANGED <<started, closed, shutdown, socketError, mtx, recvVars, writeable, localList,
                 wNew, rxVars, txVars, shut, peer, epollVars, pollerVars, pc, localVars, history>>

\* ::shutdown(SHUT_WR), which also wakes the pollers of the descriptor.
ShutWr == shut' = (IF shut = "none" THEN "wr" ELSE shut) /\ edge' = added

\* Shutdown: SHUT_WR now if nothing is queued.
Shutdown ==
  /\ "Shutdown" \in Methods
  /\ mtx = "free" /\ ~closed /\ ~shutdown
  /\ shutdown' = TRUE
  /\ IF sendList = <<>> THEN ShutWr ELSE UNCHANGED <<shut, edge>>
  /\ UNCHANGED <<started, closed, doing, socketError, mtx, recvVars, sendVars, rxVars, txVars,
                 peer, added, armed, pollerVars, poolVars, pc, localVars, history>>

\* The thread between the unlock and the end of PostTask.
UserPost ==
  /\ posting > 0
  /\ posting' = posting - 1 /\ queued' = queued + 1
  /\ UNCHANGED <<started, closed, shutdown, doing, socketError, mtx, recvVars, sendVars, rxVars,
                 txVars, shut, peer, epollVars, pollerVars, pc, localVars, history>>

\* Where a worker goes on after recvInWorker, and after sendInWorker (wantW was cleared).
AfterStep(w) == IF wantW[w] THEN "send" ELSE "loop"
Goto(w, place) == pc' = [pc EXCEPT ![w] = place]

\* Close, with mtx held from CloseBegin to CloseEnd: the descriptor hangs up before it
\* leaves the epoll instance, and epoll_wait may see it in between.
CloseBegin(by) ==
  /\ mtx = "free" /\ ~closed
  /\ closed' = TRUE /\ mtx' = by
  /\ shut' = "rdwr" /\ edge' = added
  /\ UNCHANGED <<started, shutdown, doing, socketError, recvVars, sendVars, rxVars, txVars, peer,
                 added, armed, pollerVars, poolVars, localVars, history>>

\* [mutation] Close posts also when a worker is already in Do.
ClosePostsAlways == CloseCb

ClosePosts == CloseCb /\ ~doing

\* Poller::Remove, unlock; the task that will call the close callback is posted unless a
\* worker is in Do.  doing is not set.
CloseEnd(by) ==
  /\ mtx = by /\ mtx' = "free"
  /\ added' = FALSE /\ armed' = FALSE /\ edge' = FALSE
  /\ posting' = IF ClosePosts THEN posting + 1 ELSE posting
  /\ UNCHANGED <<started, closed, shutdown, doing, socketError, recvVars, sendVars, rxVars, txVars,
                 shut, peer, pollerVars, queued, localVars, history>>

UserCloseBegin == "Close" \in Methods /\ CloseBegin("user") /\ UNCHANGED pc
UserCloseEnd == CloseEnd("user") /\ UNCHANGED pc

-----------------------------------------------------------------------------
(* The poller thread: epoll_wait, then TCPSocket::OnActive.                   *)

\* An entry of the ready list is looked at, reported if an event of its interest is
\* there, and, being edge-triggered, taken off the list.
PollWait ==
  /\ ppc = "wait" /\ added /\ edge
  /\ edge' = FALSE
  /\ pev' = Ready \cap Interest(armed)
  /\ ppc' = IF pev' = {} THEN "wait" ELSE IF "out" \in pev' THEN "disable" ELSE "active"
  /\ UNCHANGED <<started, closed, shutdown, doing, socketError, mtx, recvVars, sendVars, rxVars,
                 txVars, shut, peer, added, armed, poolVars, pc, localVars, history>>

\* OnActive: Poller::Disable(Write), a no-op when the socket was removed meanwhile.
PollDisable ==
  /\ ppc = "disable" /\ ppc' = "active"
  /\ IF added THEN Rearm(FALSE) ELSE UNCHANGED <<armed, edge>>
  /\ UNCHANGED <<started, closed, shutdown, doing, socketError, mtx, recvVars, sendVars, rxVars,
                 txVars, shut, peer, added, pev, poolVars, pc, localVars, history>>

\* [mutation] OnActive does not count the event in readableVer.
ReadVersionKept == rNew

\* ++readableVer: every worker that read it before sees that it moved.
ReadVersion == IF "in" \in pev THEN Workers ELSE rNew

\* [mutation] OnActive posts without setting doing.
ClaimUnset(work) == doing' = doing /\ ppc' = IF Claims(work) THEN "post" ELSE "wait"

ClaimByPoller(work) == doing' = (doing \/ work) /\ ppc' = IF Claims(work) THEN "post" ELSE "wait"

\* OnActive under mtx: the flags and versions, and the claim.  It does not ask whether
\* the socket is closed.
OnActive ==
  /\ ppc = "active" /\ mtx = "free"
  /\ readable' = (readable \/ "in" \in pev) /\ rNew' = ReadVersion
  /\ writeable' = (writeable \/ "out" \in pev)
  /\ wNew' = IF "out" \in pev THEN Workers ELSE wNew
  /\ socketError' = (socketError \/ "err" \in pev)
  /\ UNCHANGED <<started, closed, shutdown, mtx, recvList, offered, sendList, localList, bytes4Send,
                 accepted, closedOnFlush, rxVars, txVars, shut, peer, epollVars, poolVars, pc,
                 localVars, history>>
  /\ ClaimByPoller(CanRead' \/ CanWrite')
  /\ pev' = {}

PollPost ==
  /\ ppc = "post" /\ ppc' = "wait"
  /\ queued' = queued + 1
  /\ UNCHANGED <<started, closed, shutdown, doing, socketError, mtx, recvVars, sendVars, rxVars,
                 txVars, shut, peer, epollVars, pev, posting, pc, localVars, history>>

Poller == PollWait \/ PollDisable \/ OnActive \/ PollPost

-----------------------------------------------------------------------------
(* TCPSocket::Do, run by the workers.                                         *)

\* A worker takes a Do task of this socket from the pool.
DoEnter(w) ==
  /\ pc[w] = "idle" /\ queued > 0
  /\ queued' = queued - 1
  /\ loops' = [loops EXCEPT ![w] = 0]
  /\ Goto(w, "loop")
  /\ UNCHANGED <<started, closed, shutdown, doing, socketError, mtx, recvVars, sendVars, rxVars,
                 txVars, shut, peer, epollVars, pollerVars, posting, wantW, buf, res, cof, history>>

\* [mutation] Do gives up doing when there is nothing to write.
NothingToWrite == ~CanWrite

NothingToDo == ~(CanRead \/ CanWrite)

\* Nothing to do: doing is given up under the same lock.
DoReturn(w) ==
  /\ pc[w] = "loop" /\ mtx = "free"
  /\ ~closed /\ NothingToDo
  /\ doing' = FALSE
  /\ Goto(w, "idle")
  /\ UNCHANGED <<started, closed, shutdown, socketError, mtx, recvVars, sendVars, rxVars, txVars,
                 shut, peer, epollVars, pollerVars, poolVars, localVars, history>>

\* A closed socket: on to doClose, with doing left as it is.
DoSeesClosed(w) ==
  /\ pc[w] = "loop" /\ mtx = "free" /\ closed
  /\ Goto(w, "doclose")
  /\ UNCHANGED <<started, closed, shutdown, doing, socketError, mtx, recvVars, sendVars, rxVars,
                 txVars, shut, peer, epollVars, pollerVars, poolVars, localVars, history>>

Exhausted(w) == loops[w] >= MaxLoop

\* Work: one round of reading and writing, or, after maxLoop rounds, the task is posted
\* again to let others run.
DoRound(w) ==
  /\ pc[w] = "loop" /\ mtx = "free" /\ ~closed
  /\ ~NothingToDo
  /\ IF Exhausted(w)
       THEN Goto(w, "repost") /\ UNCHANGED <<loops, wantW>>
       ELSE /\ loops' = [loops EXCEPT ![w] = @ + 1]
            /\ wantW' = [wantW EXCEPT ![w] = CanWrite]
            /\ Goto(w, IF CanRead THEN "recv" ELSE "send")
  /\ UNCHANGED <<started, closed, shutdown, doing, socketError, mtx, recvVars, sendVars, rxVars,
                 txVars, shut, peer, epollVars, pollerVars, poolVars, buf, res, cof, history>>

DoRepost(w) ==
  /\ pc[w] = "repost"
  /\ queued' = queued + 1
  /\ Goto(w, "idle")
  /\ UNCHANGED <<started, closed, shutdown, doing, socketError, mtx, recvVars, sendVars, rxVars,
                 txVars, shut, peer, epollVars, pollerVars, posting, localVars, history>>

-----------------------------------------------------------------------------
(* recvInWorker.                                                              *)

\* The first lock: nothing to read any more, an error to report, or a buffer to fill.
RecvLock(w) ==
  /\ pc[w] = "recv" /\ mtx = "free"
  /\ IF CanRead /\ ~socketError
       THEN /\ buf' = [buf EXCEPT ![w] = Head(recvList)]
            /\ recvList' = Tail(recvList)
            /\ rNew' = rNew \ {w}
            /\ Goto(w, "read")
       ELSE /\ Goto(w, IF socketError THEN "error" ELSE AfterStep(w))
            /\ UNCHANGED <<buf, recvList, rNew>>
  /\ UNCHANGED <<started, closed, shutdown, doing, socketError, mtx, readable, offered, sendVars,
                 rxVars, txVars, shut, peer, epollVars, pollerVars, poolVars, loops, wantW, res,
                 cof, history>>

\* ::read, outside mtx: what has arrived, then the end or the error, EAGAIN otherwise.
Read(w) ==
  /\ pc[w] = "read"
  /\ IF rx > 0
       THEN /\ rx' = IF rx > BufLen THEN rx - BufLen ELSE 0
            /\ res' = [res EXCEPT ![w] = rx - rx']
            /\ Goto(w, "recvcb")
       ELSE /\ res' = [res EXCEPT ![w] = IF Broken THEN Failed ELSE Again]
            /\ Goto(w, "recvfail")
            /\ UNCHANGED rx
  /\ UNCHANGED <<started, closed, shutdown, doing, socketError, mtx, recvVars, sendVars, arrived,
                 txVars, shut, peer, epollVars, pollerVars, poolVars, loops, wantW, buf, cof,
                 history>>

\* The receive callback gets the buffer.
RecvCallback(w) ==
  /\ pc[w] = "recvcb"
  /\ filled' = Append(filled, buf[w])
  /\ Goto(w, AfterStep(w))
  /\ UNCHANGED <<started, closed, shutdown, doing, socketError, mtx, recvVars, sendVars, rxVars,
                 txVars, shut, peer, epollVars, pollerVars, poolVars, localVars, closeCbs>>

\* [mutation] The buffer goes back to the end of the list.
ReturnBufferLast(w) == recvList' = Append(recvList, buf[w])

ReturnBuffer(w) == recvList' = <<buf[w]>> \o recvList

\* EAGAIN clears readable, unless an event was counted since the buffer was taken.
ReadableAfterAgain(w) == readable /\ w \in rNew

\* The second lock: EAGAIN gives the buffer back; anything else is an error and loses it.
RecvFail(w) ==
  /\ pc[w] = "recvfail" /\ mtx = "free"
  /\ IF res[w] = Again
       THEN /\ ReturnBuffer(w)
            /\ readable' = ReadableAfterAgain(w)
            /\ Goto(w, AfterStep(w))
            /\ UNCHANGED socketError
       ELSE /\ socketError' = TRUE
            /\ Goto(w, "error")
            /\ UNCHANGED <<recvList, readable>>
  /\ UNCHANGED <<started, closed, shutdown, doing, mtx, rNew, offered, sendVars, rxVars, txVars,
                 shut, peer, epollVars, pollerVars, poolVars, localVars, history>>

AfterError(w) == IF ErrorCb THEN AfterStep(w) ELSE "close"

\* The error callback, which may do anything a user may, or else Close.
ReportError(w) ==
  /\ pc[w] = "error"
  /\ Goto(w, AfterError(w))
  /\ UNCHANGED <<started, closed, shutdown, doing, socketError, mtx, recvVars, sendVars, rxVars,
                 txVars, shut, peer, epollVars, pollerVars, poolVars, localVars, history>>

-----------------------------------------------------------------------------
(* sendInWorker.                                                              *)

\* The first lock: nothing to write any more, the high water callback, or the two lists
\* are swapped and the queued one is written outside mtx.
SendLock(w) ==
  /\ pc[w] = "send" /\ mtx = "free"
  /\ wantW' = [wantW EXCEPT ![w] = FALSE]
  /\ IF CanWrite /\ writeable
       THEN /\ sendList' = localList /\ localList' = sendList
            /\ wNew' = wNew \ {w}
            /\ Goto(w, "writev")
       ELSE /\ Goto(w, IF CanWrite THEN "highwater" ELSE "loop")
            /\ UNCHANGED <<sendList, localList, wNew>>
  /\ UNCHANGED <<started, closed, shutdown, doing, socketError, mtx, recvVars, writeable,
                 bytes4Send, accepted, closedOnFlush, rxVars, txVars, shut, peer, epollVars,
                 pollerVars, poolVars, loops, buf, res, cof, history>>

\* The bytes one writev is offered: those of the first IovMax contexts of a list.
Ends(list) == {i \in 1 .. Len(list) : list[i].last}
InIov(list) ==
  IF list = <<>> THEN {0}
                 ELSE {i \in 1 .. Len(list) : Cardinality({j \in Ends(list) : j < i}) < IovMax}

\* ::writev, outside mtx: an error, EAGAIN, or some of the bytes, no more than fit.  The
\* list is cleared at once when all of it went.
Writev(w) ==
  /\ pc[w] = "writev"
  /\ \/ /\ shut # "none" \/ peer = "rst"
        /\ res' = [res EXCEPT ![w] = Failed]
        /\ UNCHANGED <<room, wire, localList>>
     \/ /\ shut = "none" /\ peer # "rst" /\ room = 0
        /\ res' = [res EXCEPT ![w] = Again]
        /\ UNCHANGED <<room, wire, localList>>
     \/ /\ shut = "none" /\ peer # "rst"
        /\ \E n \in InIov(localList) :
             /\ n <= room
             /\ res' = [res EXCEPT ![w] = n]
             /\ room' = room - n
             /\ wire' = wire \o SubSeq(localList, 1, n)
             /\ localList' = IF n = Len(localList) THEN <<>> ELSE localList
  /\ Goto(w, "senddone")
  /\ UNCHANGED <<started, closed, shutdown, doing, socketError, mtx, recvVars, writeable, sendList,
                 wNew, bytes4Send, accepted, closedOnFlush, rxVars, shut, peer, epollVars,
                 pollerVars, poolVars, loops, wantW, buf, cof, history>>

\* [mutation] What was written is not taken off the list that goes back.
AddFrontWhole(rest) == sendList' = localList \o sendList /\ localList' = <<>>

\* linklist::add_front of what was not written.
AddFront(rest) == sendList' = rest \o sendList /\ localList' = <<>>

\* EAGAIN clears writeable, unless an event was counted since the lists were swapped.
WriteableAfterAgain(w) == writeable /\ w \in wNew

\* [mutation] Poller::Enable is forgotten.
AfterAgainLoop(w) == "loop"

\* What follows EAGAIN: Poller::Enable if writeable was cleared.
AfterAgain(w) == IF w \in wNew THEN "loop" ELSE "enable"

UnsentAfter(n) == bytes4Send - n

\* What follows the flush callback: Close, for SendAndClose.
AfterFlush(w) == IF cof[w] THEN "close" ELSE "loop"

\* The second lock, after bytes were written; the flush callback is due when nothing is
\* queued, and so is SHUT_WR if Shutdown was called.
SendDone(w) ==
  /\ pc[w] = "senddone" /\ mtx = "free" /\ res[w] >= 0
  /\ cof' = [cof EXCEPT ![w] = closedOnFlush]
  /\ AddFront(SubSeq(localList, res[w] + 1, Len(localList)))
  /\ bytes4Send' = UnsentAfter(res[w])
  /\ IF sendList' = <<>>
       THEN /\ IF shutdown THEN ShutWr ELSE UNCHANGED <<shut, edge>>
            /\ Goto(w, IF FlushCb THEN "flushcb" ELSE "loop")
       ELSE Goto(w, "loop") /\ UNCHANGED <<shut, edge>>
  /\ UNCHANGED <<started, closed, shutdown, doing, socketError, mtx, recvVars, writeable, wNew,
                 accepted, closedOnFlush, rxVars, txVars, peer, added, armed, pollerVars, poolVars,
                 loops, wantW, buf, res, history>>

\* The second lock, after EAGAIN.
SendAgain(w) ==
  /\ pc[w] = "senddone" /\ mtx = "free" /\ res[w] = Again
  /\ AddFront(localList)
  /\ writeable' = WriteableAfterAgain(w)
  /\ Goto(w, AfterAgain(w))
  /\ UNCHANGED <<started, closed, shutdown, doing, socketError, mtx, recvVars, wNew, bytes4Send,
                 accepted, closedOnFlush, rxVars, txVars, shut, peer, epollVars, pollerVars,
                 poolVars, localVars, history>>

\* The second lock, after an error: what was not written stays where it is.
SendFail(w) ==
  /\ pc[w] = "senddone" /\ mtx = "free" /\ res[w] = Failed
  /\ IF closed
       THEN Goto(w, "loop") /\ UNCHANGED socketError
       ELSE Goto(w, "error") /\ socketError' = TRUE
  /\ UNCHANGED <<started, closed, shutdown, doing, mtx, recvVars, sendVars, rxVars, txVars, shut,
                 peer, epollVars, pollerVars, poolVars, localVars, history>>

\* Poller::Enable(Write), a no-op when the socket was removed meanwhile.
Enable(w) ==
  /\ pc[w] = "enable"
  /\ IF added THEN Rearm(TRUE) ELSE UNCHANGED <<armed, edge>>
  /\ Goto(w, "loop")
  /\ UNCHANGED <<started, closed, shutdown, doing, socketError, mtx, recvVars, sendVars, rxVars,
                 txVars, shut, peer, added, pollerVars, poolVars, localVars, history>>

\* The flush and the high water callback return.
SendCallback(w) ==
  /\ pc[w] \in {"flushcb", "highwater"}
  /\ Goto(w, IF pc[w] = "flushcb" THEN AfterFlush(w) ELSE "loop")
  /\ UNCHANGED <<started, closed, shutdown, doing, socketError, mtx, recvVars, sendVars, rxVars,
                 txVars, shut, peer, epollVars, pollerVars, poolVars, localVars, history>>

-----------------------------------------------------------------------------
(* Close called by a worker, and doClose.                                     *)

WorkerCloseBegin(w) == pc[w] = "close" /\ CloseBegin(w) /\ Goto(w, "closing")

WorkerCloseEnd(w) == pc[w] = "closing" /\ CloseEnd(w) /\ Goto(w, AfterStep(w))

WorkerCloseAgain(w) ==
  /\ pc[w] = "close" /\ mtx = "free" /\ closed
  /\ Goto(w, AfterStep(w))
  /\ UNCHANGED <<started, closed, shutdown, doing, socketError, mtx, recvVars, sendVars, rxVars,
                 txVars, shut, peer, epollVars, pollerVars, poolVars, localVars, history>>

\* doClose: both lists are cleared under mtx, then the close callback is called.
DoClose(w) ==
  /\ pc[w] = "doclose" /\ mtx = "free"
  /\ sendList' = <<>> /\ localList' = <<>>
  /\ Goto(w, IF CloseCb THEN "closecb" ELSE "idle")
  /\ UNCHANGED <<started, closed, shutdown, doing, socketError, mtx, recvVars, writeable, wNew,
                 bytes4Send, accepted, closedOnFlush, rxVars, txVars, shut, peer, epollVars,
                 pollerVars, poolVars, localVars, history>>

CloseCallback(w) ==
  /\ pc[w] = "closecb"
  /\ closeCbs' = closeCbs + 1
  /\ Goto(w, "idle")
  /\ UNCHANGED <<started, closed, shutdown, doing, socketError, mtx, recvVars, sendVars, rxVars,
                 txVars, shut, peer, epollVars, pollerVars, poolVars, localVars, filled>>

-----------------------------------------------------------------------------
Worker(w) ==
  \/ DoEnter(w) \/ DoReturn(w) \/ DoSeesClosed(w) \/ DoRound(w) \/ DoRepost(w)
  \/ RecvLock(w) \/ Read(w) \/ RecvCallback(w) \/ RecvFail(w) \/ ReportError(w)
  \/ SendLock(w) \/ Writev(w) \/ SendDone(w) \/ SendAgain(w) \/ SendFail(w)
  \/ Enable(w) \/ SendCallback(w)
  \/ WorkerCloseBegin(w) \/ WorkerCloseEnd(w) \/ WorkerCloseAgain(w)
  \/ DoClose(w) \/ CloseCallback(w)

User ==
  \/ Start \/ Recv \/ Shutdown \/ UserCloseBegin
  \/ \E len \in 1 .. MaxMsg, andClose \in BOOLEAN : Send(len, andClose)

Peer == PeerSend \/ PeerRead \/ PeerBreak

Next ==
  \/ User \/ UserPost \/ UserCloseEnd
  \/ Peer
  \/ Poller
  \/ \E w \in Workers : Worker(w)

Safety == Init /\ [][Next]_vars

\* Threads run: the poller loop, the workers, and a caller that is inside a method; the
\* peer reads.  Nobody has to call a method, and the peer has to send nothing.
Spec ==
  /\ Safety
  /\ WF_vars(Poller) /\ WF_vars(UserPost) /\ WF_vars(UserCloseEnd) /\ WF_vars(PeerRead)
  /\ \A w \in Workers : WF_vars(Worker(w))

-----------------------------------------------------------------------------
(* Properties.                                                                *)

\* The Do tasks of this socket: posted or about to be, and running.
Running == {w \in Workers : pc[w] # "idle"}
Tokens == posting + queued + (IF ppc = "post" THEN 1 ELSE 0) + Cardinality(Running)

\* doing is the ownership of Do: until Close there is one Do task, posted or running,
\* when it is set, and none when it is not (TCPSocket.cpp:319, 335, 375, 414, 518).
OneToken == ~closed => Tokens = IF doing THEN 1 ELSE 0

\* recvInWorker and sendInWorker are never entered by two workers at a time, although
\* Close may post a second task (TCPSocket.cpp:1053): the unlocked reads, writes and
\* callbacks in them rely on it.
DataPathExclusive ==
  \A w \in Workers : pc[w] \in DataPath => doing /\ Tokens = 1

\* doing stands for one worker: of an open socket, and in the data path of any.
OneWorkerAtATime == OneToken /\ DataPathExclusive

\* The close callback is the last one: nothing of the data path runs after it began
\* (TCPSocket.h:56, "before the connection is destroyed").
CloseIsLast ==
  (closeCbs > 0 \/ \E w \in Workers : pc[w] = "closecb")
    => \A w \in Workers : pc[w] \notin DataPath

\* An open socket nobody is doing has nothing to do: no event, Recv or Send that makes
\* work leaves it unposted, and Do does not return on work (TCPSocket.cpp:315-329).
IdleMeansNothingToDo == ~doing /\ ~closed => ~(CanRead \/ CanWrite)

\* The descriptor tells at its next epoll_wait, or the poller is about to tell.
Pending(e) == edge \/ e \in pev

\* No edge is lost on the reading side: bytes or an end that the socket does not know of
\* (readable is clear, or will be when a worker's EAGAIN is accounted for) are reported
\* by an event still to come (TCPSocket.cpp:497-500, 987-991).
ReadEventNotLost ==
  added /\ (rx > 0 \/ Broken) =>
    /\ ~readable => Pending("in")
    /\ \A w \in Workers :
         pc[w] = "recvfail" /\ res[w] = Again /\ w \notin rNew => Pending("in")

\* No edge is lost on the writing side: when writeable is clear, EPOLLOUT is armed or is
\* about to be, and if there is room already the event is on its way
\* (TCPSocket.cpp:492-494, 502-505, 776-781, 797-799).
WriteEventNotLost ==
  /\ added /\ ~writeable =>
       \/ armed /\ (room > 0 => Pending("out"))
       \/ "out" \in pev
       \/ \E w \in Workers : pc[w] = "enable"

\* The bytes go out in the order of the Sends, whole and once, whatever is sent while a
\* writev is under way: written, in flight and queued bytes are the stream, unless the
\* socket failed or was closed (TCPSocket.cpp:715-720, 747-764, 777; TCPSocket.h:169-180).
Unsent(w) ==
  IF pc[w] = "senddone" /\ res[w] > 0
    THEN SubSeq(localList, res[w] + 1, Len(localList)) ELSE localList
Stream(list) == \A i \in 1 .. Len(list) : list[i].pos = i
ByteOrder ==
  /\ Stream(wire)
  /\ ~closed /\ ~socketError =>
       LET rest == IF \E w \in Workers : pc[w] = "senddone"
                     THEN Unsent(CHOOSE w \in Workers : pc[w] = "senddone") ELSE localList
       IN  Stream(wire \o rest \o sendList) /\ Len(wire \o rest \o sendList) = accepted

\* Buffers are handed back in the order they were given to Recv, also those that met
\* EAGAIN (TCPSocket.cpp:956-959, 988).
BuffersInOrder == \A i \in 1 .. Len(filled) : filled[i] = i

\* Both sides keep the order, the bytes that are sent and the buffers that come back.
OrderKept == ByteOrder /\ BuffersInOrder

\* Bytes that arrived on a connection that holds are read as long as there are buffers
\* (TCPSocket.cpp:366-378, 489-527, 939-1010).
ArrivedIsRead ==
  added /\ rx > 0 /\ recvList # <<>> ~> rx = 0 \/ recvList = <<>> \/ closed \/ socketError

\* What Send took is written, if the peer reads and nobody shuts down or closes
\* (TCPSocket.cpp:400-420, 693-816).
SentIsWritten ==
  started /\ accepted > Len(wire) ~> accepted = Len(wire) \/ shutdown \/ closed \/ socketError

\* The close callback is not lost, whoever closes and whatever runs meanwhile: once Close
\* has unlocked, either it was called or a Do task is there that will call it
\* (TCPSocket.cpp:306, 1053).
CloseNotLost ==
  closed /\ mtx = "free" /\ CloseCb /\ closeCbs = 0 => Tokens > 0

\* SendAndClose cuts nothing off: when the worker that will close is in the flush callback,
\* outside the lock, everything accepted is on its way and nothing comes after it
\* (TCPSocket.cpp:401, 739, 769, 812).
FlushedFirst == \A w \in Workers : pc[w] = "flushcb" /\ cof[w] => Len(wire) = accepted

\* Nothing that happened is forgotten: neither an edge of either side, nor the close, nor
\* what SendAndClose took.
NothingLost == ReadEventNotLost /\ WriteEventNotLost /\ CloseNotLost /\ FlushedFirst

\* The sending side is a byte stream (TCPSocket.cpp:400-420, 693-816, 1014-1061): Send and
\* SendAndClose take messages until one of SendAndClose, Shutdown and Close ended it, and
\* sendInWorker gives what was taken, in order, from whichever list it is in.
Out == INSTANCE ByteStream WITH
         accepting <- ~closed /\ ~shutdown /\ ~closedOnFlush,
         taken <- accepted, out <- [i \in 1 .. Len(wire) |-> wire[i].pos]
SendsAsByteStream == Out!Spec

\* "The close callback [...] is called only once" (TCPSocket.h:56).
CloseOnce == closeCbs <= 1
=============================================================================
