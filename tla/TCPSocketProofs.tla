-------------------------- MODULE TCPSocketProofs --------------------------
(* Theorems about TCPSocket, for every set of workers and every bound.         *)
EXTENDS TCPSocket, SequenceTheorems, FiniteSetTheorems, TLAPS

-----------------------------------------------------------------------------
(* The tasks of a socket.                                                      *)

\* mtx is held across a system call only by Close, which has set closed; doClose is
\* entered on a closed socket.
EndMeansClosed ==
  /\ mtx # "free" => closed
  /\ \A w \in Workers : pc[w] \in {"doclose", "closecb"} => closed

Kinds ==
  /\ pc \in [Workers -> Places] /\ posting \in Nat /\ queued \in Nat
  /\ doing \in BOOLEAN /\ closed \in BOOLEAN

Tokened == Kinds /\ EndMeansClosed /\ OneToken /\ DataPathExclusive

\* The running workers are finitely many; one that runs is counted in Tokens.
LEMMA RunningCount ==
  ASSUME Kinds
  PROVE  /\ IsFiniteSet(Running) /\ Cardinality(Running) \in Nat
         /\ Tokens \in Nat
         /\ \A w \in Running : Cardinality(Running) >= 1
         /\ \A v, w \in Running : v # w => Cardinality(Running) >= 2
<1>1. IsFiniteSet(Running) /\ Cardinality(Running) \in Nat
  BY WorkersAssumption, FS_Subset, FS_CardinalityType DEF Running
<1>2. Tokens \in Nat
  BY <1>1 DEF Tokens, Kinds
<1>3. ASSUME NEW w \in Running PROVE Cardinality(Running) >= 1
  BY <1>1, FS_EmptySet
<1>4. ASSUME NEW v \in Running, NEW w \in Running, v # w PROVE Cardinality(Running) >= 2
  <2>1. /\ IsFiniteSet(Running \ {v}) /\ Cardinality(Running \ {v}) = Cardinality(Running) - 1
    BY <1>1, <1>4, FS_RemoveElement
  <2>2. Cardinality(Running \ {v}) \in Nat /\ Cardinality(Running \ {v}) # 0
    BY <2>1, <1>4, FS_EmptySet, FS_CardinalityType
  <2>3. QED BY <1>1, <2>1, <2>2
<1>5. QED BY <1>1, <1>2, <1>3, <1>4

\* At most one worker is in the data path, and no other worker is in Do then.
LEMMA DataPathAlone ==
  ASSUME Tokened, NEW v \in Workers, pc[v] \in DataPath
  PROVE  doing /\ Tokens = 1 /\ \A w \in Workers : w # v => pc[w] = "idle"
<1>1. doing /\ Tokens = 1
  BY DEF Tokened, DataPathExclusive
<1>2. v \in Running
  BY DEF DataPath, Running
<1>3. ASSUME NEW w \in Workers, w # v, pc[w] # "idle" PROVE FALSE
  <2>1. w \in Running
    BY <1>3 DEF Running
  <2>2. Cardinality(Running) >= 2 /\ Cardinality(Running) \in Nat
    BY <1>2, <1>3, <2>1, RunningCount DEF Tokened
  <2>3. QED BY <1>1, <2>2 DEF Tokens, Tokened, Kinds
<1>4. QED BY <1>1, <1>3

\* A worker in Do of an open socket holds doing, and nobody else is in Do.
LEMMA OpenAlone ==
  ASSUME Tokened, ~closed, NEW v \in Running
  PROVE  doing /\ Tokens = 1 /\ posting = 0 /\ queued = 0 /\ ppc # "post"
<1>1. Cardinality(Running) >= 1 /\ Cardinality(Running) \in Nat
  BY RunningCount DEF Tokened
<1>2. QED BY <1>1 DEF Tokens, Tokened, Kinds, OneToken

\* What a step of one worker does to the set of running workers.
LEMMA RunningMoves ==
  ASSUME Kinds, NEW w \in Workers, NEW p \in Places, Goto(w, p)
  PROVE  /\ pc' \in [Workers -> Places]
         /\ pc'[w] = p /\ \A v \in Workers : v # w => pc'[v] = pc[v]
         /\ pc[w] # "idle" /\ p # "idle" => Running' = Running
         /\ pc[w] # "idle" /\ p = "idle"
              => Cardinality(Running') = Cardinality(Running) - 1
         /\ pc[w] = "idle" /\ p # "idle"
              => Cardinality(Running') = Cardinality(Running) + 1
<1>1. /\ pc' \in [Workers -> Places]
      /\ pc'[w] = p /\ \A v \in Workers : v # w => pc'[v] = pc[v]
  BY DEF Goto, Kinds
<1>2. IsFiniteSet(Running) /\ Cardinality(Running) \in Nat
  BY RunningCount
<1>3. ASSUME pc[w] # "idle", p # "idle" PROVE Running' = Running
  BY <1>1, <1>3 DEF Running
<1>4. ASSUME pc[w] # "idle", p = "idle" PROVE Cardinality(Running') = Cardinality(Running) - 1
  <2>1. Running' = Running \ {w} /\ w \in Running
    BY <1>1, <1>4 DEF Running
  <2>2. QED BY <1>2, <2>1, FS_RemoveElement
<1>5. ASSUME pc[w] = "idle", p # "idle" PROVE Cardinality(Running') = Cardinality(Running) + 1
  <2>1. Running' = Running \cup {w} /\ w \notin Running
    BY <1>1, <1>5 DEF Running
  <2>2. QED BY <1>2, <2>1, FS_AddElement
<1>6. QED BY <1>1, <1>3, <1>4, <1>5

Same == UNCHANGED <<doing, closed, mtx, posting, queued>> /\ (ppc = "post" <=> ppc' = "post")

\* A step that touches neither the tasks nor the token.
LEMMA QuietStep == Tokened /\ Same /\ pc' = pc => Tokened'
<1> SUFFICES ASSUME Tokened, Same, pc' = pc PROVE Tokened'
  OBVIOUS
<1>1. Running' = Running
  BY DEF Running
<1>2. Tokens' = Tokens
  BY <1>1 DEF Tokens, Same
<1>3. QED
  BY <1>2 DEF Tokened, Same, Kinds, EndMeansClosed, OneToken, DataPathExclusive

\* A worker moves on inside Do, not into the data path from outside.
LEMMA MoveStep ==
  ASSUME Tokened, NEW w \in Workers, NEW p \in Places \ {"idle"},
         pc[w] # "idle", Goto(w, p), Same, p \in DataPath => pc[w] \in DataPath,
         p \in {"doclose", "closecb"} => closed
  PROVE  Tokened'
<1>1. /\ pc' \in [Workers -> Places] /\ Running' = Running
      /\ pc'[w] = p /\ \A v \in Workers : v # w => pc'[v] = pc[v]
  BY RunningMoves DEF Tokened
<1>2. Tokens' = Tokens
  BY <1>1 DEF Tokens, Same
<1>3. DataPathExclusive'
  BY <1>1, <1>2 DEF Tokened, DataPathExclusive, Same
<1>4. QED
  BY <1>1, <1>2, <1>3 DEF Tokened, Same, Kinds, EndMeansClosed, OneToken

\* A worker leaves Do from outside the data path.
LEMMA LeaveStep ==
  ASSUME Tokened, NEW w \in Workers, pc[w] # "idle", pc[w] \notin DataPath, Goto(w, "idle"),
         posting' = posting, ppc' = ppc, mtx' = mtx, closed' = closed,
         doing' \in BOOLEAN,
         \/ queued' = queued /\ (~closed => ~doing')
         \/ queued' = queued + 1 /\ (~closed => doing')
  PROVE  Tokened'
<1> PICK n \in {0, 1} : queued' = queued + n /\ (~closed => (doing' <=> n = 1))
  BY DEF Tokened, Kinds
<1>1. /\ pc' \in [Workers -> Places] /\ Cardinality(Running') = Cardinality(Running) - 1
      /\ pc'[w] = "idle" /\ \A v \in Workers : v # w => pc'[v] = pc[v]
  BY RunningMoves DEF Tokened, Places
<1>2. Cardinality(Running) \in Nat /\ w \in Running
  BY RunningCount DEF Tokened, Running
<1>3. \A v \in Workers : pc[v] \notin DataPath
  <2>1. ASSUME NEW v \in Workers, pc[v] \in DataPath PROVE FALSE
    BY <2>1, DataPathAlone
  <2>2. QED BY <2>1
<1>4. DataPathExclusive'
  BY <1>1, <1>3 DEF DataPathExclusive, DataPath
<1>5. Kinds'
  BY <1>1 DEF Tokened, Kinds
<1>6. OneToken'
  <2>1. CASE closed
    BY <2>1 DEF OneToken
  <2>2. CASE ~closed
    <3>1. doing /\ Tokens = 1 /\ posting = 0 /\ queued = 0 /\ ppc # "post"
      BY <1>2, <2>2, OpenAlone
    <3>2. Cardinality(Running) = 1
      BY <1>2, <3>1 DEF Tokens
    <3>3. Cardinality(Running') = 0 /\ posting' = 0 /\ ppc' # "post" /\ queued' = n
      BY <1>1, <3>1, <3>2
    <3>4. Tokens' = n
      BY <3>3 DEF Tokens
    <3>5. QED
      BY <2>2, <3>4 DEF OneToken
  <2>3. QED BY <2>1, <2>2
<1>7. QED BY <1>1, <1>4, <1>5, <1>6 DEF Tokened, EndMeansClosed

\* A claim made under mtx: doing is set with the one task that is posted for it.
LEMMA ClaimStep ==
  ASSUME Tokened, NEW work \in BOOLEAN, pc' = pc, closed' = closed, mtx' = mtx,
         queued' = queued, doing' = (doing \/ work),
         \/ ~closed /\ ppc' = ppc /\ posting' = IF Claims(work) THEN posting + 1 ELSE posting
         \/ posting' = posting /\ ppc # "post" /\ (ppc' = "post" <=> Claims(work))
  PROVE  Tokened'
<1>1. Running' = Running
  BY DEF Running
<1>2. Cardinality(Running) \in Nat /\ Kinds
  BY RunningCount DEF Tokened
<1>3. Kinds'
  BY <1>2 DEF Kinds
<1>4. CASE Claims(work)
  <2>1. Tokens' = Tokens + 1
    BY <1>1, <1>2, <1>4 DEF Tokens, Kinds
  <2>2. ~doing /\ doing'
    BY <1>4 DEF Claims
  <2>3. DataPathExclusive'
    BY <2>2 DEF Tokened, DataPathExclusive
  <2>4. OneToken'
    BY <2>1, <2>2 DEF Tokened, OneToken
  <2>5. QED BY <1>3, <2>3, <2>4 DEF Tokened, EndMeansClosed
<1>5. CASE ~Claims(work)
  <2>1. Tokens' = Tokens /\ doing' = doing
    BY <1>1, <1>2, <1>5 DEF Tokens, Kinds, Claims
  <2>2. QED
    BY <1>3, <2>1 DEF Tokened, EndMeansClosed, OneToken, DataPathExclusive
<1>6. QED BY <1>4, <1>5

LEMMA TokenedInit == Init => Tokened
<1> SUFFICES ASSUME Init PROVE Tokened
  OBVIOUS
<1>1. Running = {}
  BY DEF Init, Running
<1>2. Tokens = 0
  BY <1>1, FS_EmptySet DEF Init, Tokens
<1>3. QED
  BY <1>2 DEF Init, Tokened, Kinds, EndMeansClosed, OneToken, DataPathExclusive, Places, DataPath

LEMMA TokenedUser ==
  ASSUME Tokened, User \/ UserPost \/ UserCloseEnd \/ Peer \/ Poller,
         readable \in BOOLEAN, writeable \in BOOLEAN, socketError \in BOOLEAN
  PROVE  Tokened'
<1> USE DEF Same
<1>1. CASE Peer
  BY <1>1, QuietStep DEF Peer, PeerSend, PeerRead, PeerBreak, pollerVars, poolVars
<1>2. CASE Start \/ Shutdown \/ PollWait \/ PollDisable
  BY <1>2, QuietStep DEF Start, Shutdown, PollWait, PollDisable, pollerVars, poolVars
<1>3. CASE Recv
  BY <1>3, ClaimStep DEF Recv, ClaimAndPost, pollerVars
<1>4. ASSUME NEW len \in 1 .. MaxMsg, NEW andClose \in BOOLEAN, Send(len, andClose)
      PROVE  Tokened'
  <2>1. (writeable \/ HighWater') \in BOOLEAN
    OBVIOUS
  <2>2. QED BY <1>4, <2>1, ClaimStep DEF Send, ClaimAndPost, pollerVars
<1>5. CASE OnActive
  <2>1. (CanRead' \/ CanWrite') \in BOOLEAN
    OBVIOUS
  <2>2. QED BY <1>5, <2>1, ClaimStep DEF OnActive, ClaimByPoller, poolVars
<1>6. CASE UserPost \/ PollPost
  <2>1. Running' = Running /\ Cardinality(Running) \in Nat /\ Kinds
    BY <1>6, RunningCount DEF UserPost, PollPost, Running, Tokened
  <2>2. Tokens' = Tokens
    BY <1>6, <2>1 DEF UserPost, PollPost, pollerVars, Tokens, Kinds
  <2>3. Kinds'
    BY <1>6, <2>1 DEF UserPost, PollPost, Kinds
  <2>4. QED
    BY <1>6, <2>2, <2>3 DEF UserPost, PollPost, Tokened, EndMeansClosed, OneToken, DataPathExclusive
<1>7. CASE UserCloseBegin
  <2>1. Running' = Running /\ Tokens' = Tokens
    BY <1>7 DEF UserCloseBegin, CloseBegin, Running, Tokens, pollerVars, poolVars
  <2>2. QED
    BY <1>7, <2>1
    DEF UserCloseBegin, CloseBegin, poolVars, Tokened, Kinds, EndMeansClosed, OneToken, DataPathExclusive
<1>8. CASE UserCloseEnd
  <2>1. closed /\ closed' = closed /\ mtx' = "free" /\ pc' = pc /\ doing' = doing
    BY <1>8, WorkersAssumption DEF UserCloseEnd, CloseEnd, Tokened, EndMeansClosed
  <2>2. Kinds'
    BY <1>8, <2>1 DEF UserCloseEnd, CloseEnd, Tokened, Kinds
  <2>3. doing => Tokens' = Tokens
    <3>1. Running' = Running
      BY <2>1 DEF Running
    <3>2. QED BY <1>8, <3>1 DEF UserCloseEnd, CloseEnd, ClosePosts, Tokens, pollerVars
  <2>4. QED
    BY <2>1, <2>2, <2>3 DEF Tokened, EndMeansClosed, OneToken, DataPathExclusive
<1>9. QED
  BY <1>1, <1>2, <1>3, <1>4, <1>5, <1>6, <1>7, <1>8 DEF User, Poller

\* The steps of a worker inside Do that neither enter nor leave it.
Inside(w) ==
  \/ DoSeesClosed(w) \/ RecvLock(w) \/ Read(w) \/ RecvCallback(w) \/ RecvFail(w)
  \/ ReportError(w) \/ SendLock(w) \/ Writev(w) \/ SendDone(w) \/ SendAgain(w) \/ SendFail(w)
  \/ Enable(w) \/ SendCallback(w) \/ WorkerCloseAgain(w)

\* Each of them is a move, from the data path unless it goes to doClose.
LEMMA InsideMoves ==
  ASSUME NEW w \in Workers, Inside(w)
  PROVE  /\ \E p \in Places \ {"idle"} :
              /\ Goto(w, p)
              /\ p \in DataPath => pc[w] \in DataPath
              /\ p \in {"doclose", "closecb"} => closed
         /\ pc[w] # "idle" /\ Same
<1> USE DEF Same, Places, DataPath, AfterStep, pollerVars, poolVars
<1>1. CASE DoSeesClosed(w) \/ RecvLock(w) \/ Read(w) \/ RecvCallback(w)
  BY <1>1 DEF DoSeesClosed, RecvLock, Read, RecvCallback
<1>2. CASE RecvFail(w) \/ ReportError(w)
  BY <1>2 DEF RecvFail, ReportError, AfterError
<1>3. CASE SendLock(w)
  BY <1>3 DEF SendLock
<1>4. CASE Writev(w)
  <2>1. /\ Goto(w, "senddone") /\ pc[w] = "writev"
        /\ UNCHANGED <<doing, closed, mtx, pollerVars, poolVars>>
    BY <1>4, Zenon DEF Writev
  <2>2. QED BY <2>1
<1>5. CASE SendDone(w)
  <2>1. /\ pc[w] = "senddone"
        /\ Goto(w, IF FlushCb THEN "flushcb" ELSE "loop") \/ Goto(w, "loop")
        /\ UNCHANGED <<doing, closed, mtx, pollerVars, poolVars>>
    BY <1>5, Zenon DEF SendDone
  <2>2. QED BY <2>1
<1>6. CASE SendAgain(w)
  BY <1>6 DEF SendAgain, AfterAgain
<1>7. CASE SendFail(w) \/ Enable(w)
  <2>1. /\ pc[w] \in {"senddone", "enable"}
        /\ Goto(w, "loop") \/ Goto(w, "error")
        /\ UNCHANGED <<doing, closed, mtx, pollerVars, poolVars>>
    BY <1>7, Zenon DEF SendFail, Enable
  <2>2. QED BY <2>1
<1>8. CASE SendCallback(w) \/ WorkerCloseAgain(w)
  BY <1>8 DEF SendCallback, WorkerCloseAgain, AfterFlush
<1>9. QED BY <1>1, <1>2, <1>3, <1>4, <1>5, <1>6, <1>7, <1>8 DEF Inside

LEMMA TokenedWorker ==
  ASSUME Tokened, NEW w \in Workers, Worker(w)
  PROVE  Tokened'
<1>1. CASE Inside(w)
  BY <1>1, InsideMoves, MoveStep
<1>2. CASE DoEnter(w)
  <2>1. Goto(w, "loop") /\ pc[w] = "idle" /\ queued' = queued - 1 /\ queued > 0
        /\ UNCHANGED <<doing, closed, mtx, posting, ppc>>
    BY <1>2 DEF DoEnter, pollerVars
  <2>2. /\ pc' \in [Workers -> Places] /\ Cardinality(Running') = Cardinality(Running) + 1
        /\ pc'[w] = "loop" /\ \A v \in Workers : v # w => pc'[v] = pc[v]
    BY <2>1, RunningMoves DEF Tokened, Places
  <2>3. Kinds'
    BY <2>1, <2>2 DEF Tokened, Kinds
  <2>4. Tokens' = Tokens
    <3>1. Cardinality(Running) \in Nat
      BY RunningCount DEF Tokened
    <3>2. QED BY <2>1, <2>2, <3>1 DEF Tokens, Tokened, Kinds
  <2>5. QED
    BY <2>1, <2>2, <2>3, <2>4 DEF Tokened, EndMeansClosed, OneToken, DataPathExclusive, DataPath
<1>3. CASE DoReturn(w)
  BY <1>3, LeaveStep DEF DoReturn, poolVars, pollerVars, DataPath
<1>4. CASE DoRepost(w)
  <2>1. ~closed => doing
    BY <1>4, OpenAlone DEF DoRepost, Running
  <2>2. QED BY <1>4, <2>1, LeaveStep DEF DoRepost, pollerVars, DataPath, Tokened, Kinds
<1>5. CASE DoClose(w) \/ CloseCallback(w)
  <2>1. closed /\ pc[w] # "idle" /\ pc[w] \notin DataPath /\ doing \in BOOLEAN
    BY <1>5 DEF DoClose, CloseCallback, Tokened, Kinds, EndMeansClosed, DataPath
  <2>2. /\ mtx' = mtx /\ closed' = closed /\ doing' = doing /\ posting' = posting
        /\ queued' = queued /\ ppc' = ppc
    BY <1>5 DEF DoClose, CloseCallback, poolVars, pollerVars
  <2>3. CASE Goto(w, "idle")
    BY <2>1, <2>2, <2>3, LeaveStep
  <2>4. CASE Goto(w, "closecb")
    BY <2>1, <2>2, <2>4, MoveStep DEF Same, DataPath, Places
  <2>5. QED BY <1>5, <2>3, <2>4 DEF DoClose, CloseCallback
<1>6. CASE DoRound(w)
  <2>1. PICK p \in {"repost", "recv", "send"} : Goto(w, p)
    BY <1>6 DEF DoRound
  <2>2. /\ pc' \in [Workers -> Places] /\ Running' = Running
        /\ pc'[w] = p /\ \A v \in Workers : v # w => pc'[v] = pc[v]
    BY <1>6, <2>1, RunningMoves DEF Tokened, Places, DoRound
  <2>3. Tokens' = Tokens /\ UNCHANGED <<doing, closed, mtx, posting, queued>>
    BY <1>6, <2>2 DEF DoRound, poolVars, pollerVars, Tokens
  <2>4. doing /\ Tokens = 1
    BY <1>6, OpenAlone DEF DoRound, Running
  <2>5. QED
    BY <2>2, <2>3, <2>4 DEF Tokened, Kinds, EndMeansClosed, OneToken, DataPathExclusive
<1>7. CASE WorkerCloseBegin(w)
  <2>1. Goto(w, "closing") /\ pc[w] = "close" /\ closed' = TRUE /\ UNCHANGED <<doing, posting, queued, ppc>>
    BY <1>7 DEF WorkerCloseBegin, CloseBegin, poolVars, pollerVars
  <2>2. /\ pc' \in [Workers -> Places] /\ Running' = Running
        /\ pc'[w] = "closing" /\ \A v \in Workers : v # w => pc'[v] = pc[v]
    BY <2>1, RunningMoves DEF Tokened, Places
  <2>3. Tokens' = Tokens /\ pc[w] \in DataPath
    BY <2>1, <2>2 DEF Tokens, DataPath, Places
  <2>4. QED
    BY <2>1, <2>2, <2>3 DEF Tokened, Kinds, EndMeansClosed, OneToken, DataPathExclusive
<1>8. CASE WorkerCloseEnd(w)
  <2>1. pc[w] \in DataPath /\ doing
    BY <1>8 DEF WorkerCloseEnd, DataPath, Places, Tokened, DataPathExclusive
  <2>2. Goto(w, AfterStep(w)) /\ closed' = closed /\ mtx' = "free"
        /\ UNCHANGED <<doing, posting, queued, ppc>>
    BY <1>8, <2>1 DEF WorkerCloseEnd, CloseEnd, ClosePosts, pollerVars
  <2>3. AfterStep(w) \in Places \ {"idle"}
    BY DEF AfterStep, Places
  <2>4. /\ pc' \in [Workers -> Places] /\ Running' = Running /\ pc'[w] = AfterStep(w)
        /\ \A v \in Workers : v # w => pc'[v] = pc[v]
    BY <2>1, <2>2, <2>3, RunningMoves DEF Tokened, DataPath
  <2>5. Tokens' = Tokens
    BY <2>2, <2>4 DEF Tokens
  <2>6. QED
    BY <2>1, <2>2, <2>4, <2>5
    DEF Tokened, Kinds, EndMeansClosed, OneToken, DataPathExclusive, AfterStep
<1>9. QED
  BY <1>1, <1>2, <1>3, <1>4, <1>5, <1>6, <1>7, <1>8 DEF Worker, Inside

-----------------------------------------------------------------------------
(* Types.                                                                      *)

\* bytes4Send covers the bytes of both lists, and those of a writev that took all of
\* its list and is not accounted for yet: it never goes below zero.
SentCovered ==
  /\ Len(sendList) + Len(localList) <= bytes4Send
  /\ \A w \in Workers : pc[w] = "senddone" /\ res[w] >= 0 =>
       \/ localList = <<>> /\ Len(sendList) + res[w] <= bytes4Send
       \/ res[w] <= Len(localList)

Typed == TypeOK /\ Tokened /\ SentCovered

\* The steps that touch no list.
LEMMA TypePeer ==
  ASSUME TypeOK, Peer \/ Start \/ Shutdown \/ UserPost
  PROVE  TypeOK'
<1> USE SizesAssumption
    DEF TypeOK, recvVars, sendVars, rxVars, txVars, epollVars, pollerVars, poolVars, localVars, history
<1>1. CASE PeerSend BY <1>1 DEF PeerSend
<1>2. CASE PeerRead BY <1>2 DEF PeerRead
<1>3. CASE PeerBreak BY <1>3 DEF PeerBreak
<1>4. CASE Start BY <1>4 DEF Start, Rearm
<1>5. CASE Shutdown BY <1>5 DEF Shutdown, ShutWr
<1>6. CASE UserPost BY <1>6 DEF UserPost
<1>7. QED BY <1>1, <1>2, <1>3, <1>4, <1>5, <1>6 DEF Peer

\* What a Send appends.
LEMMA MessageType ==
  ASSUME TypeOK, NEW len \in 1 .. MaxMsg, accepted + len <= MaxBytes
  PROVE  Message(len) \in Seq(Byte) /\ Len(Message(len)) = len
<1>1. len \in Nat /\ accepted \in Nat
  BY SizesAssumption DEF TypeOK
<1>2. ASSUME NEW i \in 1 .. len
      PROVE  [pos |-> accepted + i, last |-> i = len] \in Byte
  <2>1. accepted + i \in 1 .. MaxBytes /\ (i = len) \in BOOLEAN
    BY <1>1, SizesAssumption DEF TypeOK
  <2>2. QED BY <2>1 DEF Byte
<1>3. Message(len) \in [1 .. len -> Byte]
  BY <1>2 DEF Message
<1>4. QED BY <1>1, <1>3, IsASeq, LenProperties

LEMMA TypeUser ==
  ASSUME TypeOK, Recv \/ UserCloseBegin \/ UserCloseEnd \/ Poller
  PROVE  TypeOK'
<1> USE SizesAssumption
    DEF TypeOK, recvVars, sendVars, rxVars, txVars, epollVars, pollerVars, poolVars, localVars, history
<1>1. CASE Recv
  <2>1. Append(recvList, offered + 1) \in Seq(Nat)
    BY <1>1, AppendProperties DEF Recv
  <2>2. QED BY <1>1, <2>1 DEF Recv, ClaimAndPost
<1>2. CASE UserCloseBegin BY <1>2 DEF UserCloseBegin, CloseBegin
<1>3. CASE UserCloseEnd
  <2>1. posting' \in Nat /\ mtx' = "free"
    BY <1>3 DEF UserCloseEnd, CloseEnd
  <2>2. added' \in BOOLEAN /\ armed' \in BOOLEAN /\ edge' \in BOOLEAN
    BY <1>3, Zenon DEF UserCloseEnd, CloseEnd
  <2>3. UNCHANGED <<started, closed, shutdown, doing, socketError, recvVars, sendVars, rxVars,
                    txVars, shut, peer, pollerVars, queued, pc, localVars, history>>
    BY <1>3, Zenon DEF UserCloseEnd, CloseEnd
  <2>4. QED BY <2>1, <2>2, <2>3
<1>4. CASE PollWait
  <2>1. /\ pev' \in SUBSET {"in", "out", "err"} /\ ppc' \in {"wait", "disable", "active"}
        /\ edge' \in BOOLEAN
    BY <1>4 DEF PollWait, Ready, Interest
  <2>2. UNCHANGED <<started, closed, shutdown, doing, socketError, mtx, recvVars, sendVars,
                    rxVars, txVars, shut, peer, added, armed, poolVars, pc, localVars, history>>
    BY <1>4, Zenon DEF PollWait
  <2>3. QED BY <2>1, <2>2
<1>5. CASE PollDisable
  <2>1. armed' \in BOOLEAN /\ edge' \in BOOLEAN
    BY <1>5 DEF PollDisable, Rearm
  <2>2. /\ ppc' = "active"
        /\ UNCHANGED <<started, closed, shutdown, doing, socketError, mtx, recvVars, sendVars,
                       rxVars, txVars, shut, peer, added, pev, poolVars, pc, localVars, history>>
    BY <1>5, Zenon DEF PollDisable
  <2>3. QED BY <2>1, <2>2
<1>6. CASE OnActive
  <2>1. /\ doing' \in BOOLEAN /\ ppc' \in {"wait", "post"}
        /\ readable' \in BOOLEAN /\ writeable' \in BOOLEAN /\ socketError' \in BOOLEAN
        /\ rNew' \in SUBSET Workers /\ wNew' \in SUBSET Workers
    BY <1>6 DEF OnActive, ClaimByPoller, ReadVersion
  <2>2. QED BY <1>6, <2>1 DEF OnActive
<1>7. CASE PollPost BY <1>7 DEF PollPost
<1>8. QED BY <1>1, <1>2, <1>3, <1>4, <1>5, <1>6, <1>7 DEF Poller

LEMMA TypeSend ==
  ASSUME TypeOK, NEW len \in 1 .. MaxMsg, NEW andClose \in BOOLEAN, Send(len, andClose)
  PROVE  /\ TypeOK' /\ localList' = localList
         /\ Len(sendList') = Len(sendList) + len /\ bytes4Send' = bytes4Send + len
<1>1. Message(len) \in Seq(Byte) /\ Len(Message(len)) = len
  BY MessageType DEF Send
<1>2. sendList \o Message(len) \in Seq(Byte)
      /\ Len(sendList \o Message(len)) = Len(sendList) + Len(Message(len))
  BY <1>1, ConcatProperties DEF TypeOK
<1>3. len \in Nat /\ accepted + len \in 0 .. MaxBytes
  BY SizesAssumption DEF TypeOK, Send
<1>4. /\ sendList' \in Seq(Byte) /\ bytes4Send' \in Nat /\ accepted' \in 0 .. MaxBytes
      /\ closedOnFlush' \in BOOLEAN /\ doing' \in BOOLEAN /\ posting' \in Nat
  BY <1>2, <1>3 DEF TypeOK, Send, ClaimAndPost
<1>5. TypeOK'
  BY <1>4, SMTT(30)
  DEF Send, ClaimAndPost, TypeOK, recvVars, rxVars, txVars, epollVars, pollerVars, localVars, history
<1>6. QED BY <1>1, <1>2, <1>5 DEF Send

\* Do, the read and the callbacks: no list changes hands.
LEMMA TypeDo ==
  ASSUME TypeOK, NEW w \in Workers,
         \/ DoEnter(w) \/ DoReturn(w) \/ DoSeesClosed(w) \/ DoRound(w) \/ DoRepost(w)
         \/ Read(w) \/ RecvCallback(w) \/ ReportError(w) \/ SendFail(w) \/ Enable(w)
         \/ SendCallback(w) \/ CloseCallback(w)
  PROVE  TypeOK'
<1> USE SizesAssumption
    DEF TypeOK, Places, Goto, AfterStep, recvVars, sendVars, rxVars, txVars, epollVars, pollerVars,
        poolVars, localVars, history
<1>1. CASE DoEnter(w) BY <1>1 DEF DoEnter
<1>2. CASE DoReturn(w)
  <2>1. pc' \in [Workers -> Places] /\ doing' \in BOOLEAN
    BY <1>2, Zenon DEF DoReturn
  <2>2. UNCHANGED <<started, closed, shutdown, socketError, mtx, recvVars, sendVars, rxVars, txVars,
                    shut, peer, epollVars, pollerVars, poolVars, localVars, history>>
    BY <1>2, Zenon DEF DoReturn
  <2>3. QED BY <2>1, <2>2
<1>3. CASE DoSeesClosed(w) BY <1>3 DEF DoSeesClosed
<1>4. CASE DoRound(w)
  <2>1. UNCHANGED <<started, closed, shutdown, doing, socketError, mtx, recvVars, sendVars, rxVars,
                    txVars, shut, peer, epollVars, pollerVars, poolVars, buf, res, cof, history>>
    BY <1>4, Zenon DEF DoRound
  <2>2. CASE Exhausted(w)
    <3>1. Goto(w, "repost") /\ loops' = loops /\ wantW' = wantW
      BY <1>4, <2>2, Zenon DEF DoRound
    <3>2. QED BY <2>1, <3>1
  <2>3. CASE ~Exhausted(w)
    <3>1. /\ loops' = [loops EXCEPT ![w] = @ + 1] /\ wantW' = [wantW EXCEPT ![w] = CanWrite]
          /\ Goto(w, IF CanRead THEN "recv" ELSE "send")
      BY <1>4, <2>3, Zenon DEF DoRound
    <3>2. pc' \in [Workers -> Places]
      BY <3>1
    <3>3. loops[w] + 1 \in 0 .. MaxLoop /\ CanWrite \in BOOLEAN
      BY <2>3 DEF Exhausted, CanWrite
    <3>4. loops' \in [Workers -> 0 .. MaxLoop] /\ wantW' \in [Workers -> BOOLEAN]
      BY <3>1, <3>3
    <3>5. QED BY <2>1, <3>2, <3>4
  <2>4. QED BY <2>2, <2>3
<1>5. CASE DoRepost(w) BY <1>5 DEF DoRepost
<1>6. CASE Read(w)
  <2>1. pc' \in [Workers -> Places]
    BY <1>6 DEF Read
  <2>2. rx' \in Nat
    BY <1>6 DEF Read
  <2>3. rx - rx' \in Int /\ Again \in Int /\ Failed \in Int
    BY <2>2 DEF Again, Failed
  <2>4. res' \in [Workers -> Int]
    BY <1>6, <2>3 DEF Read
  <2>5. UNCHANGED <<started, closed, shutdown, doing, socketError, mtx, recvVars, sendVars, arrived,
                    txVars, shut, peer, epollVars, pollerVars, poolVars, loops, wantW, buf, cof,
                    history>>
    BY <1>6, Zenon DEF Read
  <2>6. QED BY <2>1, <2>2, <2>4, <2>5
<1>7. CASE RecvCallback(w)
  <2>1. Append(filled, buf[w]) \in Seq(Nat)
    BY AppendProperties
  <2>2. QED BY <1>7, <2>1 DEF RecvCallback
<1>8. CASE ReportError(w) BY <1>8 DEF ReportError, AfterError
<1>9. CASE SendFail(w)
  <2>1. pc' \in [Workers -> Places] /\ socketError' \in BOOLEAN
    BY <1>9 DEF SendFail
  <2>2. UNCHANGED <<started, closed, shutdown, doing, mtx, recvVars, sendVars, rxVars, txVars, shut,
                    peer, epollVars, pollerVars, poolVars, localVars, history>>
    BY <1>9, Zenon DEF SendFail
  <2>3. QED BY <2>1, <2>2
<1>10. CASE Enable(w)
  <2>1. pc' \in [Workers -> Places] /\ armed' \in BOOLEAN /\ edge' \in BOOLEAN
    BY <1>10 DEF Enable, Rearm
  <2>2. UNCHANGED <<started, closed, shutdown, doing, socketError, mtx, recvVars, sendVars, rxVars,
                    txVars, shut, peer, added, pollerVars, poolVars, localVars, history>>
    BY <1>10, Zenon DEF Enable
  <2>3. QED BY <2>1, <2>2
<1>11. CASE SendCallback(w) BY <1>11 DEF SendCallback, AfterFlush
<1>12. CASE CloseCallback(w) BY <1>12 DEF CloseCallback
<1>13. QED
  BY <1>1, <1>2, <1>3, <1>4, <1>5, <1>6, <1>7, <1>8, <1>9, <1>10, <1>11, <1>12

\* Close by a worker, and the lists it leaves to doClose.
LEMMA TypeClose ==
  ASSUME TypeOK, NEW w \in Workers,
         WorkerCloseBegin(w) \/ WorkerCloseEnd(w) \/ WorkerCloseAgain(w) \/ DoClose(w)
  PROVE  TypeOK'
<1> USE SizesAssumption
    DEF TypeOK, Places, Goto, AfterStep, recvVars, sendVars, rxVars, txVars, epollVars, pollerVars,
        poolVars, localVars, history
<1>1. CASE WorkerCloseBegin(w) BY <1>1 DEF WorkerCloseBegin, CloseBegin
<1>2. CASE WorkerCloseEnd(w)
  <2>1. posting' \in Nat /\ mtx' = "free"
    BY <1>2 DEF WorkerCloseEnd, CloseEnd
  <2>2. pc' \in [Workers -> Places]
    BY <1>2 DEF WorkerCloseEnd
  <2>3. added' \in BOOLEAN /\ armed' \in BOOLEAN /\ edge' \in BOOLEAN
    BY <1>2, Zenon DEF WorkerCloseEnd, CloseEnd
  <2>4. UNCHANGED <<started, closed, shutdown, doing, socketError, recvVars, sendVars, rxVars,
                    txVars, shut, peer, pollerVars, queued, localVars, history>>
    BY <1>2, Zenon DEF WorkerCloseEnd, CloseEnd
  <2>5. QED BY <2>1, <2>2, <2>3, <2>4
<1>3. CASE WorkerCloseAgain(w) BY <1>3 DEF WorkerCloseAgain
<1>4. CASE DoClose(w)
  <2>1. sendList' \in Seq(Byte) /\ localList' \in Seq(Byte)
    BY <1>4, EmptySeq DEF DoClose
  <2>2. pc' \in [Workers -> Places]
    BY <1>4 DEF DoClose
  <2>3. UNCHANGED <<started, closed, shutdown, doing, socketError, mtx, recvVars, writeable, wNew,
                    bytes4Send, accepted, closedOnFlush, rxVars, txVars, shut, peer, epollVars,
                    pollerVars, poolVars, localVars, history>>
    BY <1>4, Zenon DEF DoClose
  <2>4. QED BY <2>1, <2>2, <2>3
<1>5. QED BY <1>1, <1>2, <1>3, <1>4

\* A buffer is taken from the receive list, or comes back to its head.
LEMMA TypeRecvList ==
  ASSUME TypeOK, NEW w \in Workers, RecvLock(w) \/ RecvFail(w)
  PROVE  TypeOK'
<1> USE SizesAssumption
    DEF TypeOK, Places, Goto, AfterStep, recvVars, sendVars, rxVars, txVars, epollVars, pollerVars,
        poolVars, localVars, history
<1>1. CASE RecvLock(w)
  <2>1. UNCHANGED <<started, closed, shutdown, doing, socketError, mtx, readable, offered, sendVars,
                    rxVars, txVars, shut, peer, epollVars, pollerVars, poolVars, loops, wantW, res,
                    cof, history>>
    BY <1>1, Zenon DEF RecvLock
  <2>2. CASE CanRead /\ ~socketError
    <3>1. /\ buf' = [buf EXCEPT ![w] = Head(recvList)] /\ recvList' = Tail(recvList)
          /\ rNew' = rNew \ {w} /\ Goto(w, "read")
      BY <1>1, <2>2, Zenon DEF RecvLock
    <3>2. recvList # <<>> /\ Head(recvList) \in Nat /\ Tail(recvList) \in Seq(Nat)
      BY <2>2, HeadTailProperties DEF CanRead
    <3>3. buf' \in [Workers -> Nat] /\ pc' \in [Workers -> Places] /\ rNew' \in SUBSET Workers
      BY <3>1, <3>2
    <3>4. recvList' \in Seq(Nat)
      BY <3>1, <3>2
    <3>5. QED BY <2>1, <3>3, <3>4
  <2>3. CASE ~(CanRead /\ ~socketError)
    <3>1. /\ Goto(w, IF socketError THEN "error" ELSE AfterStep(w))
          /\ UNCHANGED <<buf, recvList, rNew>>
      BY <1>1, <2>3, Zenon DEF RecvLock
    <3>2. QED BY <2>1, <3>1
  <2>4. QED BY <2>2, <2>3
<1>2. CASE RecvFail(w)
  <2>1. UNCHANGED <<started, closed, shutdown, doing, mtx, rNew, offered, sendVars, rxVars, txVars,
                    shut, peer, epollVars, pollerVars, poolVars, localVars, history>>
    BY <1>2, Zenon DEF RecvFail
  <2>2. CASE res[w] = Again
    <3>1. /\ recvList' = <<buf[w]>> \o recvList /\ readable' = (readable /\ w \in rNew)
          /\ Goto(w, AfterStep(w)) /\ socketError' = socketError
      BY <1>2, <2>2, Zenon DEF RecvFail, ReturnBuffer, ReadableAfterAgain
    <3>2. <<buf[w]>> \in Seq(Nat)
      OBVIOUS
    <3>3. recvList' \in Seq(Nat)
      BY <3>1, <3>2, ConcatProperties
    <3>4. pc' \in [Workers -> Places] /\ readable' \in BOOLEAN
      BY <3>1
    <3>5. QED BY <2>1, <3>1, <3>3, <3>4
  <2>3. CASE res[w] # Again
    <3>1. socketError' \in BOOLEAN /\ Goto(w, "error") /\ UNCHANGED <<recvList, readable>>
      BY <1>2, <2>3, Zenon DEF RecvFail
    <3>2. QED BY <2>1, <3>1
  <2>4. QED BY <2>2, <2>3
<1>3. QED BY <1>1, <1>2

\* The swap of the send lists, and the account of EAGAIN.
LEMMA TypeSwap ==
  ASSUME TypeOK, NEW w \in Workers, SendLock(w) \/ SendAgain(w)
  PROVE  /\ TypeOK' /\ bytes4Send' = bytes4Send
         /\ Len(sendList') + Len(localList') = Len(sendList) + Len(localList)
<1> USE SizesAssumption
    DEF TypeOK, Places, Goto, AfterStep, recvVars, sendVars, rxVars, txVars, epollVars, pollerVars,
        poolVars, localVars, history
<1>1. Len(sendList) \in Nat /\ Len(localList) \in Nat
  BY LenProperties
<1>2. CASE SendLock(w)
  <2>1. /\ wantW' = [wantW EXCEPT ![w] = FALSE]
        /\ UNCHANGED <<started, closed, shutdown, doing, socketError, mtx, recvVars, writeable,
                 bytes4Send, accepted, closedOnFlush, rxVars, txVars, shut, peer, epollVars,
                 pollerVars, poolVars, loops, buf, res, cof, history>>
    BY <1>2, Zenon DEF SendLock
  <2>2. wantW' \in [Workers -> BOOLEAN]
    BY <2>1
  <2>3. CASE CanWrite /\ writeable
    <3>1. /\ sendList' = localList /\ localList' = sendList /\ wNew' = wNew \ {w}
          /\ Goto(w, "writev")
      BY <1>2, <2>3, Zenon DEF SendLock
    <3>2. QED BY <1>1, <2>1, <2>2, <3>1
  <2>4. CASE ~(CanWrite /\ writeable)
    <3>1. /\ Goto(w, IF CanWrite THEN "highwater" ELSE "loop")
          /\ UNCHANGED <<sendList, localList, wNew>>
      BY <1>2, <2>4, Zenon DEF SendLock
    <3>2. QED BY <1>1, <2>1, <2>2, <3>1
  <2>5. QED BY <2>3, <2>4
<1>3. CASE SendAgain(w)
  <2>1. /\ sendList' = localList \o sendList /\ localList' = <<>>
        /\ writeable' = (writeable /\ w \in wNew) /\ Goto(w, AfterAgain(w))
        /\ UNCHANGED <<started, closed, shutdown, doing, socketError, mtx, recvVars, wNew, bytes4Send,
                 accepted, closedOnFlush, rxVars, txVars, shut, peer, epollVars, pollerVars,
                 poolVars, localVars, history>>
    BY <1>3, Zenon DEF SendAgain, AddFront, WriteableAfterAgain
  <2>2. /\ localList \o sendList \in Seq(Byte)
        /\ Len(localList \o sendList) = Len(localList) + Len(sendList)
        /\ <<>> \in Seq(Byte) /\ Len(<<>>) = 0
    BY ConcatProperties, EmptySeq
  <2>3. pc' \in [Workers -> Places] /\ writeable' \in BOOLEAN
    BY <2>1 DEF AfterAgain
  <2>4. sendList' \in Seq(Byte) /\ localList' \in Seq(Byte)
    BY <2>1, <2>2
  <2>5. TypeOK'
    BY <2>1, <2>3, <2>4
  <2>6. QED BY <1>1, <2>1, <2>2, <2>5
<1>4. QED BY <1>2, <1>3

\* What one writev is offered is a prefix of its list.
LEMMA IovBound == \A list \in Seq(Byte) : InIov(list) \subseteq 0 .. Len(list)
  BY LenProperties DEF InIov

LEMMA TypeWritev ==
  ASSUME TypeOK, NEW w \in Workers, Writev(w)
  PROVE  /\ TypeOK' /\ sendList' = sendList /\ bytes4Send' = bytes4Send
         /\ \/ res'[w] < 0 /\ localList' = localList
            \/ res'[w] = Len(localList) /\ localList' = <<>>
            \/ res'[w] \in 0 .. Len(localList) /\ localList' = localList
<1> USE SizesAssumption
    DEF TypeOK, Places, Goto, recvVars, sendVars, rxVars, txVars, epollVars, pollerVars, poolVars,
        localVars, history
<1>1. UNCHANGED <<started, closed, shutdown, doing, socketError, mtx, recvVars, writeable, sendList,
                  wNew, bytes4Send, accepted, closedOnFlush, rxVars, shut, peer, epollVars,
                  pollerVars, poolVars, loops, wantW, buf, cof, history>>
  BY Zenon DEF Writev
<1>2. pc' = [pc EXCEPT ![w] = "senddone"]
  BY Zenon DEF Writev, Goto
<1>3. pc' \in [Workers -> Places]
  BY <1>2
<1>4. CASE \/ /\ shut # "none" \/ peer = "rst"
              /\ res' = [res EXCEPT ![w] = Failed]
              /\ UNCHANGED <<room, wire, localList>>
           \/ /\ shut = "none" /\ peer # "rst" /\ room = 0
              /\ res' = [res EXCEPT ![w] = Again]
              /\ UNCHANGED <<room, wire, localList>>
  <2>1. res' \in [Workers -> Int] /\ res'[w] < 0 /\ UNCHANGED <<room, wire, localList>>
    BY <1>4, SMTT(30) DEF Failed, Again
  <2>2. TypeOK'
    BY <1>1, <1>3, <2>1
  <2>3. QED BY <1>1, <2>1, <2>2
<1>5. ASSUME NEW n \in InIov(localList), n <= room, res' = [res EXCEPT ![w] = n],
             room' = room - n, wire' = wire \o SubSeq(localList, 1, n),
             localList' = IF n = Len(localList) THEN <<>> ELSE localList
      PROVE  TypeOK' /\ (\/ res'[w] = Len(localList) /\ localList' = <<>>
                         \/ res'[w] \in 0 .. Len(localList) /\ localList' = localList)
  <2>1. n \in 0 .. Len(localList) /\ Len(localList) \in Nat
    BY IovBound, LenProperties
  <2>2. SubSeq(localList, 1, n) \in Seq(Byte)
    BY <2>1, SubSeqProperties
  <2>3. wire' \in Seq(Byte)
    BY <1>5, <2>2, ConcatProperties
  <2>4. room' \in 0 .. Capacity /\ res' \in [Workers -> Int] /\ res'[w] = n
    BY <1>5, <2>1
  <2>5. localList' \in Seq(Byte)
    BY <1>5, EmptySeq
  <2>6. TypeOK'
    BY <1>1, <1>3, <2>3, <2>4, <2>5, SMTT(30)
  <2>7. QED BY <1>5, <2>1, <2>4, <2>6
<1>6. CASE \E n \in InIov(localList) :
             /\ n <= room
             /\ res' = [res EXCEPT ![w] = n]
             /\ room' = room - n
             /\ wire' = wire \o SubSeq(localList, 1, n)
             /\ localList' = IF n = Len(localList) THEN <<>> ELSE localList
  <2>1. sendList' = sendList /\ bytes4Send' = bytes4Send
    BY <1>1
  <2>2. QED BY <1>5, <1>6, <2>1, Zenon
<1>7. QED BY <1>4, <1>6, Zenon DEF Writev

\* The account of a writev that took n bytes of a list of length l, with q bytes queued.
LEMMA WrittenCovered ==
  ASSUME NEW n \in Nat, NEW l \in Nat, NEW q \in Nat, NEW b \in Nat,
         (l = 0 /\ q + n <= b) \/ (n <= l /\ q + l <= b)
  PROVE  (IF n + 1 <= l THEN l - n ELSE 0) + q <= b - n
  OBVIOUS

\* SendDone, where bytes4Send is lowered.
LEMMA TypeSendDone ==
  ASSUME Typed, NEW w \in Workers, SendDone(w)
  PROVE  TypeOK' /\ Len(sendList') + Len(localList') <= bytes4Send'
<1> USE SizesAssumption
    DEF Typed, TypeOK, Places, Goto, recvVars, sendVars, rxVars, txVars, epollVars, pollerVars,
        poolVars, localVars, history
<1>1. UNCHANGED <<started, closed, shutdown, doing, socketError, mtx, recvVars, writeable, wNew,
                  accepted, closedOnFlush, rxVars, txVars, peer, added, armed, pollerVars, poolVars,
                  loops, wantW, buf, res, history>>
  BY Zenon DEF SendDone
<1>2. /\ sendList' = SubSeq(localList, res[w] + 1, Len(localList)) \o sendList
      /\ localList' = <<>> /\ bytes4Send' = bytes4Send - res[w]
      /\ cof' = [cof EXCEPT ![w] = closedOnFlush]
      /\ pc[w] = "senddone" /\ res[w] >= 0
  BY Zenon DEF SendDone, AddFront, UnsentAfter
<1>3. shut' \in {"none", "wr", "rdwr"} /\ edge' \in BOOLEAN
  BY Zenon DEF SendDone, ShutWr
<1>4. pc' \in [Workers -> Places]
  <2>1. \E p \in {"flushcb", "loop"} : pc' = [pc EXCEPT ![w] = p]
    BY Zenon DEF SendDone
  <2>2. QED BY <2>1
<1>5. res[w] \in Nat /\ Len(localList) \in Nat /\ Len(sendList) \in Nat
  BY <1>2, LenProperties
<1>6. PICK rest \in Seq(Byte) : /\ rest = SubSeq(localList, res[w] + 1, Len(localList))
                                /\ Len(rest) = IF res[w] + 1 <= Len(localList)
                                                 THEN Len(localList) - res[w] ELSE 0
  <2>1. \A i \in res[w] + 1 .. Len(localList) : localList[i] \in Byte
    BY <1>5, LenProperties
  <2>2. res[w] + 1 \in Int /\ Len(localList) \in Int
    BY <1>5
  <2>3. /\ SubSeq(localList, res[w] + 1, Len(localList)) \in Seq(Byte)
        /\ Len(SubSeq(localList, res[w] + 1, Len(localList)))
             = IF res[w] + 1 <= Len(localList) THEN Len(localList) - (res[w] + 1) + 1 ELSE 0
    BY <2>1, <2>2, SubSeqProperties
  <2>4. Len(localList) - (res[w] + 1) + 1 = Len(localList) - res[w]
    BY <1>5
  <2>5. QED BY <2>3, <2>4
<1>7. sendList' \in Seq(Byte) /\ Len(sendList') = Len(rest) + Len(sendList)
  BY <1>2, <1>6, ConcatProperties
<1>8. localList' \in Seq(Byte) /\ Len(localList') = 0
  BY <1>2, EmptySeq
<1>9. \/ Len(localList) = 0 /\ Len(sendList) + res[w] <= bytes4Send
      \/ res[w] <= Len(localList) /\ Len(sendList) + Len(localList) <= bytes4Send
  BY <1>2, EmptySeq DEF SentCovered
<1>10. bytes4Send' \in Nat /\ Len(sendList') + Len(localList') <= bytes4Send'
  <2>1. bytes4Send \in Nat /\ bytes4Send' = bytes4Send - res[w]
    BY <1>2
  <2>2. Len(rest) = IF res[w] + 1 <= Len(localList) THEN Len(localList) - res[w] ELSE 0
    BY <1>6
  <2>3. Len(sendList') + Len(localList') = Len(rest) + Len(sendList)
    BY <1>5, <1>7, <1>8, <2>2
  <2>4. Len(rest) + Len(sendList) <= bytes4Send - res[w]
    BY <1>5, <1>9, <2>1, <2>2, WrittenCovered
  <2>5. Len(rest) \in Nat
    BY LenProperties
  <2>6. bytes4Send - res[w] \in Nat
    <3> HIDE DEF Typed, TypeOK
    <3>1. QED BY <1>5, <2>1, <2>4, <2>5
  <2>7. QED BY <2>1, <2>3, <2>4, <2>6, Zenon
<1>11. cof' \in [Workers -> BOOLEAN]
  BY <1>2
<1>12. TypeOK'
  BY <1>1, <1>3, <1>4, <1>7, <1>8, <1>10, <1>11, SMTT(30)
<1>13. QED BY <1>10, <1>12

\* A step that touches neither the lists nor the worker in "senddone".
LEMMA CoveredQuiet ==
  ASSUME SentCovered, UNCHANGED <<sendList, localList, bytes4Send>>,
         \A v \in Workers : pc'[v] = "senddone" => pc[v] = "senddone" /\ res'[v] = res[v]
  PROVE  SentCovered'
  BY DEF SentCovered

\* A step of a worker that goes anywhere else.
LEMMA CoveredMove ==
  ASSUME Typed, NEW w \in Workers, NEW p \in Places \ {"senddone"}, Goto(w, p),
         UNCHANGED <<sendList, localList, bytes4Send>>,
         \A v \in Workers : v # w => res'[v] = res[v]
  PROVE  SentCovered'
<1>1. \A v \in Workers : pc'[v] = "senddone" => v # w /\ pc[v] = "senddone"
  BY DEF Typed, TypeOK, Goto
<1>2. QED BY <1>1, CoveredQuiet DEF Typed

\* While a worker runs outside "senddone", in the data path or with the lists to clear,
\* no worker is there.
LEMMA NobodyElseInSendDone ==
  ASSUME Tokened, NEW w \in Workers, pc[w] # "idle", pc[w] # "senddone"
  PROVE  \A v \in Workers : pc[v] # "senddone"
  BY DataPathAlone DEF DataPath, Places

LEMMA CoveredUser ==
  ASSUME Typed, User \/ UserPost \/ UserCloseEnd \/ Peer \/ Poller
  PROVE  SentCovered'
<1>1. ASSUME NEW len \in 1 .. MaxMsg, NEW andClose \in BOOLEAN, Send(len, andClose)
      PROVE  SentCovered'
  <2>1. /\ localList' = localList /\ Len(sendList') = Len(sendList) + len
        /\ bytes4Send' = bytes4Send + len
    BY <1>1, TypeSend DEF Typed
  <2>2. pc' = pc /\ res' = res
    BY <1>1, Zenon DEF Send, localVars
  <2>3. /\ Len(sendList) \in Nat /\ Len(localList) \in Nat /\ bytes4Send \in Nat /\ len \in Nat
        /\ \A w \in Workers : res[w] \in Int
    BY LenProperties, SizesAssumption DEF Typed, TypeOK
  <2>4. QED BY <2>1, <2>2, <2>3 DEF Typed, SentCovered
<1>2. CASE ~\E len \in 1 .. MaxMsg, andClose \in BOOLEAN : Send(len, andClose)
  <2>1. UNCHANGED <<sendList, localList, bytes4Send, pc, res>>
    BY <1>2
    DEF User, Peer, Poller, Start, Recv, Shutdown, UserCloseBegin, CloseBegin, UserPost,
        UserCloseEnd, CloseEnd, PeerSend, PeerRead, PeerBreak, PollWait, PollDisable, OnActive,
        PollPost, sendVars, localVars
  <2>2. QED BY <2>1, CoveredQuiet DEF Typed
<1>3. QED BY <1>1, <1>2

\* The steps of a worker that leave the lists alone.
LEMMA CoveredStep ==
  ASSUME Typed, NEW w \in Workers,
         \/ DoEnter(w) \/ DoReturn(w) \/ DoSeesClosed(w) \/ DoRound(w) \/ DoRepost(w)
         \/ RecvLock(w) \/ Read(w) \/ RecvCallback(w) \/ RecvFail(w) \/ ReportError(w)
         \/ SendFail(w) \/ Enable(w) \/ SendCallback(w) \/ CloseCallback(w)
         \/ WorkerCloseBegin(w) \/ WorkerCloseEnd(w) \/ WorkerCloseAgain(w)
  PROVE  SentCovered'
<1> USE DEF AfterStep, Places, sendVars, localVars
<1>1. UNCHANGED <<sendList, localList, bytes4Send>>
  BY Zenon
  DEF DoEnter, DoReturn, DoSeesClosed, DoRound, DoRepost, RecvLock, Read, RecvCallback, RecvFail,
      ReportError, SendFail, Enable, SendCallback, CloseCallback, WorkerCloseBegin, CloseBegin,
      WorkerCloseEnd, CloseEnd, WorkerCloseAgain
<1>2. \A v \in Workers : v # w => res'[v] = res[v]
  <2>1. CASE Read(w)
    <3>1. \E n : res' = [res EXCEPT ![w] = n]
      BY <2>1, Zenon DEF Read
    <3>2. QED BY <3>1 DEF Typed, TypeOK
  <2>2. CASE ~Read(w)
    <3>1. res' = res
      BY <2>2, Zenon
      DEF DoEnter, DoReturn, DoSeesClosed, DoRound, DoRepost, RecvLock, RecvCallback, RecvFail,
          ReportError, SendFail, Enable, SendCallback, CloseCallback, WorkerCloseBegin, CloseBegin,
          WorkerCloseEnd, CloseEnd, WorkerCloseAgain
    <3>2. QED BY <3>1
  <2>3. QED BY <2>1, <2>2
<1>3. \E p \in Places \ {"senddone"} : Goto(w, p)
  <2>1. CASE \/ DoEnter(w) \/ DoReturn(w) \/ DoSeesClosed(w) \/ DoRound(w) \/ DoRepost(w)
             \/ RecvLock(w) \/ Read(w) \/ RecvCallback(w)
    BY <2>1
    DEF DoEnter, DoReturn, DoSeesClosed, DoRound, DoRepost, RecvLock, Read, RecvCallback
  <2>2. CASE RecvFail(w) \/ ReportError(w)
    BY <2>2 DEF RecvFail, ReportError, AfterError
  <2>3. CASE SendFail(w) \/ Enable(w)
    <3>1. Goto(w, "loop") \/ Goto(w, "error")
      BY <2>3, Zenon DEF SendFail, Enable
    <3>2. QED BY <3>1
  <2>4. CASE SendCallback(w) \/ CloseCallback(w) \/ WorkerCloseBegin(w) \/ WorkerCloseAgain(w)
    BY <2>4 DEF SendCallback, AfterFlush, CloseCallback, WorkerCloseBegin, WorkerCloseAgain
  <2>5. CASE WorkerCloseEnd(w)
    BY <2>5 DEF WorkerCloseEnd
  <2>6. QED BY <2>1, <2>2, <2>3, <2>4, <2>5
<1>4. QED BY <1>1, <1>2, <1>3, CoveredMove

\* The steps on the lists.
LEMMA CoveredLists ==
  ASSUME Typed, NEW w \in Workers,
         SendLock(w) \/ Writev(w) \/ SendDone(w) \/ SendAgain(w) \/ DoClose(w)
  PROVE  SentCovered'
<1>1. /\ Len(sendList) \in Nat /\ Len(localList) \in Nat /\ bytes4Send \in Nat
      /\ Len(sendList) + Len(localList) <= bytes4Send
  BY LenProperties DEF Typed, TypeOK, SentCovered
<1>2. \A v \in Workers : v # w => pc[v] # "senddone"
  BY DataPathAlone, NobodyElseInSendDone
  DEF Typed, SendLock, Writev, SendDone, SendAgain, DoClose, DataPath, Places
<1>3. CASE SendLock(w) \/ SendAgain(w)
  <2>1. bytes4Send' = bytes4Send /\ Len(sendList') + Len(localList') = Len(sendList) + Len(localList)
    BY <1>3, TypeSwap DEF Typed
  <2>2. \E p \in Places \ {"senddone"} : Goto(w, p)
    BY <1>3 DEF SendLock, SendAgain, AfterAgain, Places
  <2>3. \A v \in Workers : pc'[v] # "senddone"
    BY <1>2, <2>2 DEF Goto, Typed, TypeOK
  <2>4. QED BY <1>1, <2>1, <2>3 DEF SentCovered
<1>4. CASE SendDone(w)
  <2>1. Len(sendList') + Len(localList') <= bytes4Send'
    BY <1>4, TypeSendDone
  <2>2. \E p \in {"flushcb", "loop"} : Goto(w, p)
    BY <1>4, Zenon DEF SendDone
  <2>3. \A v \in Workers : pc'[v] # "senddone"
    BY <1>2, <2>2 DEF Goto, Typed, TypeOK
  <2>4. QED BY <2>1, <2>3 DEF SentCovered
<1>5. CASE DoClose(w)
  <2>1. sendList' = <<>> /\ localList' = <<>> /\ bytes4Send' = bytes4Send
    BY <1>5, Zenon DEF DoClose
  <2>2. \E p \in Places \ {"senddone"} : Goto(w, p)
    BY <1>5 DEF DoClose, Places
  <2>3. \A v \in Workers : pc'[v] # "senddone"
    BY <1>2, <2>2 DEF Goto, Typed, TypeOK
  <2>4. QED BY <1>1, <2>1, <2>3, EmptySeq DEF SentCovered
<1>6. CASE Writev(w)
  <2>1. /\ sendList' = sendList /\ bytes4Send' = bytes4Send
        /\ \/ res'[w] < 0 /\ localList' = localList
           \/ res'[w] = Len(localList) /\ localList' = <<>>
           \/ res'[w] \in 0 .. Len(localList) /\ localList' = localList
    BY <1>6, TypeWritev DEF Typed
  <2>2. Goto(w, "senddone")
    BY <1>6, Zenon DEF Writev
  <2>3. \A v \in Workers : v # w => pc'[v] # "senddone"
    BY <1>2, <2>2 DEF Goto, Typed, TypeOK
  <2>4. CASE localList' = localList /\ (res'[w] < 0 \/ res'[w] \in 0 .. Len(localList))
    <3>1. res'[w] \in Int
      BY <1>6, TypeWritev DEF Typed, TypeOK
    <3>2. res'[w] >= 0 => res'[w] <= Len(localList')
      BY <1>1, <2>4, <3>1
    <3>3. Len(sendList') + Len(localList') <= bytes4Send'
      BY <1>1, <2>1, <2>4
    <3>4. QED BY <2>3, <3>2, <3>3 DEF SentCovered
  <2>5. CASE localList' = <<>> /\ res'[w] = Len(localList)
    BY <1>1, <2>1, <2>3, <2>5, EmptySeq DEF SentCovered
  <2>6. QED BY <2>1, <2>4, <2>5
<1>7. QED BY <1>3, <1>4, <1>5, <1>6

-----------------------------------------------------------------------------
(* The inductive invariant.                                                    *)

LEMMA TypedInit == Init => Typed
<1> SUFFICES ASSUME Init PROVE Typed
  OBVIOUS
<1>1. TypeOK
  <2>1. <<>> \in Seq(Nat) /\ <<>> \in Seq(Byte)
    BY EmptySeq
  <2>2. /\ pc \in [Workers -> Places] /\ loops \in [Workers -> 0 .. MaxLoop]
        /\ wantW \in [Workers -> BOOLEAN] /\ buf \in [Workers -> Nat]
        /\ res \in [Workers -> Int] /\ cof \in [Workers -> BOOLEAN]
    BY SizesAssumption DEF Init, Places
  <2>3. room \in 0 .. Capacity /\ offered \in 0 .. MaxRecv /\ arrived \in 0 .. MaxRx
        /\ accepted \in 0 .. MaxBytes
    BY SizesAssumption DEF Init
  <2>4. QED BY <2>1, <2>2, <2>3 DEF Init, TypeOK
<1>2. SentCovered
  BY EmptySeq DEF Init, SentCovered
<1>3. QED BY <1>1, <1>2, TokenedInit DEF Typed

LEMMA TypedStep == Typed /\ [Next]_vars => Typed'
<1> SUFFICES ASSUME Typed, [Next]_vars PROVE Typed'
  OBVIOUS
<1>1. CASE UNCHANGED vars
  <2>1. UNCHANGED <<sendList, localList, bytes4Send, pc, res>> /\ Same
    BY <1>1 DEF vars, sendVars, localVars, pollerVars, poolVars, Same
  <2>2. Tokened' /\ SentCovered'
    BY <2>1, QuietStep, CoveredQuiet DEF Typed
  <2>3. TypeOK'
    BY <1>1
    DEF Typed, TypeOK, vars, recvVars, sendVars, rxVars, txVars, epollVars, pollerVars, poolVars,
        localVars, history
  <2>4. QED BY <2>2, <2>3 DEF Typed
<1>2. CASE User \/ UserPost \/ UserCloseEnd \/ Peer \/ Poller
  <2>1. TypeOK'
    BY <1>2, TypePeer, TypeUser, TypeSend DEF User, Typed
  <2>2. Tokened'
    BY <1>2, TokenedUser DEF Typed, TypeOK
  <2>3. QED BY <1>2, <2>1, <2>2, CoveredUser DEF Typed
<1>3. ASSUME NEW w \in Workers, Worker(w) PROVE Typed'
  <2>1. TypeOK'
    BY <1>3, TypeDo, TypeClose, TypeRecvList, TypeSwap, TypeWritev, TypeSendDone DEF Worker, Typed
  <2>2. Tokened'
    BY <1>3, TokenedWorker DEF Typed
  <2>3. SentCovered'
    BY <1>3, CoveredStep, CoveredLists DEF Worker
  <2>4. QED BY <2>1, <2>2, <2>3 DEF Typed
<1>4. QED BY <1>1, <1>2, <1>3 DEF Next

LEMMA TypedAlways == Safety => []Typed
  BY TypedInit, TypedStep, PTL DEF Safety

\* Every variable keeps its type; bytes4Send, a size_t in the code, never wraps below 0
\* (TCPSocket.cpp:764).
THEOREM TypeCorrect == Safety => []TypeOK
  BY TypedAlways, PTL DEF Typed

\* doing is the ownership of Do: until Close, a Do task is posted or running when doing is
\* set and none when it is not, and there is never a second one.
THEOREM OneTaskPerOpenSocket == Safety => []OneToken
  BY TypedAlways, PTL DEF Typed, Tokened

\* However many tasks Close adds, two workers are never inside recvInWorker and
\* sendInWorker of one socket at a time.
THEOREM OneWorkerInTheDataPath == Safety => []DataPathExclusive
  BY TypedAlways, PTL DEF Typed, Tokened

\* One worker at a time: the two together (TCPSocket.cpp:319-335, 518, 1053).
THEOREM OneWorker == Safety => []OneWorkerAtATime
  BY OneTaskPerOpenSocket, OneWorkerInTheDataPath, PTL DEF OneWorkerAtATime

-----------------------------------------------------------------------------
(* The close callback is the last one.                                         *)

\* With what keeps it: the callback is called on a closed socket only, and Do, which
\* alone enters the data path, does so on an open one.
ClosedLast == CloseIsLast /\ (closeCbs > 0 => closed)

\* Every step of a worker but a round of Do stays out of the data path if it was outside.
LEMMA WorkerMoves ==
  ASSUME Tokened, NEW w \in Workers, Worker(w), ~DoRound(w)
  PROVE  /\ \E p \in Places : Goto(w, p) /\ (p \in DataPath => pc[w] \in DataPath)
                              /\ (p = "closecb" => pc[w] = "doclose")
         /\ closed => closed'
         /\ closeCbs' = closeCbs \/ pc[w] = "closecb"
<1> USE DEF Places, DataPath, AfterStep
<1>1. CASE Inside(w)
  <2>1. PICK p \in Places \ {"idle"} : Goto(w, p) /\ (p \in DataPath => pc[w] \in DataPath)
    BY <1>1, InsideMoves
  <2>2. closed' = closed /\ closeCbs' = closeCbs
    BY <1>1, Zenon
    DEF Inside, DoSeesClosed, RecvLock, Read, RecvCallback, RecvFail, ReportError, SendLock, Writev,
        SendDone, SendAgain, SendFail, Enable, SendCallback, WorkerCloseAgain, history
  <2>3. p # "closecb"
    <3>1. ASSUME Goto(w, "closecb") PROVE FALSE
      <4>1. pc'[w] = "closecb"
        BY <3>1 DEF Goto, Tokened, Kinds
      <4>2. \E q \in Places \ {"closecb"} : Goto(w, q)
        <5>1. CASE DoSeesClosed(w) \/ RecvLock(w) \/ Read(w) \/ RecvCallback(w)
          BY <5>1 DEF DoSeesClosed, RecvLock, Read, RecvCallback
        <5>2. CASE RecvFail(w) \/ ReportError(w) \/ SendAgain(w) \/ WorkerCloseAgain(w)
          BY <5>2 DEF RecvFail, ReportError, AfterError, SendAgain, AfterAgain, WorkerCloseAgain
        <5>3. CASE SendLock(w) BY <5>3 DEF SendLock
        <5>4. CASE Writev(w) \/ SendDone(w) \/ SendFail(w) \/ Enable(w)
          <6>1. \E q \in {"senddone", "flushcb", "loop", "error"} : Goto(w, q)
            BY <5>4, Zenon DEF Writev, SendDone, SendFail, Enable
          <6>2. QED BY <6>1
        <5>5. CASE SendCallback(w)
          BY <5>5 DEF SendCallback, AfterFlush
        <5>6. QED BY <1>1, <5>1, <5>2, <5>3, <5>4, <5>5 DEF Inside
      <4>3. QED BY <4>1, <4>2 DEF Goto, Tokened, Kinds
    <3>2. QED BY <2>1, <3>1
  <2>4. QED BY <2>1, <2>2, <2>3
<1>2. CASE DoEnter(w) \/ DoReturn(w) \/ DoRepost(w)
  BY <1>2 DEF DoEnter, DoReturn, DoRepost, history
<1>3. CASE WorkerCloseBegin(w) \/ WorkerCloseEnd(w)
  BY <1>3 DEF WorkerCloseBegin, CloseBegin, WorkerCloseEnd, CloseEnd, history
<1>4. CASE DoClose(w) \/ CloseCallback(w)
  BY <1>4 DEF DoClose, CloseCallback, history
<1>5. QED BY <1>1, <1>2, <1>3, <1>4 DEF Worker, Inside

LEMMA ClosedLastStep == Typed /\ ClosedLast /\ [Next]_vars => ClosedLast'
<1> SUFFICES ASSUME Typed, ClosedLast, [Next]_vars PROVE ClosedLast'
  OBVIOUS
<1> USE DEF ClosedLast, CloseIsLast
<1>1. CASE UNCHANGED vars
  BY <1>1 DEF vars, history
<1>2. CASE User \/ UserPost \/ UserCloseEnd \/ Peer \/ Poller
  <2>1. pc' = pc /\ closeCbs' = closeCbs /\ (closed => closed')
    BY <1>2
    DEF User, Peer, Poller, Start, Recv, Send, Shutdown, UserCloseBegin, CloseBegin, UserPost,
        UserCloseEnd, CloseEnd, PeerSend, PeerRead, PeerBreak, PollWait, PollDisable, OnActive,
        PollPost, history
  <2>2. QED BY <2>1
<1>3. ASSUME NEW w \in Workers, Worker(w) PROVE ClosedLast'
  <2>1. pc \in [Workers -> Places] /\ closeCbs \in Nat
    BY DEF Typed, TypeOK
  <2>2. \A v \in Workers : pc[v] \in {"doclose", "closecb"} =>
           closed /\ \A u \in Workers : pc[u] \notin DataPath
    BY DataPathAlone DEF Typed, Tokened, EndMeansClosed, DataPath
  <2>3. CASE DoRound(w)
    <3>1. ~closed /\ closed' = closed /\ closeCbs' = closeCbs
      BY <2>3, Zenon DEF DoRound, history
    <3>2. \E p \in {"repost", "recv", "send"} : Goto(w, p)
      BY <2>3 DEF DoRound
    <3>3. \A v \in Workers : pc[v] # "closecb"
      BY <2>2, <3>1
    <3>4. \A v \in Workers : pc'[v] # "closecb"
      BY <2>1, <3>2, <3>3 DEF Goto
    <3>5. ~(closeCbs' > 0) /\ ~\E v \in Workers : pc'[v] = "closecb"
      BY <3>1, <3>4
    <3>6. QED BY <3>5
  <2>4. CASE ~DoRound(w)
    <3>1. /\ \E p \in Places : Goto(w, p) /\ (p \in DataPath => pc[w] \in DataPath)
                               /\ (p = "closecb" => pc[w] = "doclose")
          /\ closed => closed'
          /\ closeCbs' = closeCbs \/ pc[w] = "closecb"
      BY <1>3, <2>4, WorkerMoves DEF Typed
    <3>2. \A v \in Workers : /\ pc'[v] \in DataPath => pc[v] \in DataPath
                             /\ pc'[v] = "closecb" => pc[v] \in {"doclose", "closecb"}
      BY <2>1, <3>1 DEF Goto
    <3>3. QED BY <2>2, <3>1, <3>2
  <2>5. QED BY <2>3, <2>4
<1>4. QED BY <1>1, <1>2, <1>3 DEF Next

\* Once the close callback began, no callback of the data path runs and none will, also
\* when Close is called while a worker is in Do.
THEOREM CloseCallbackIsLast == Safety => []CloseIsLast
<1>1. Init => ClosedLast
  BY DEF Init, ClosedLast, CloseIsLast, DataPath
<1>2. QED BY <1>1, TypedAlways, ClosedLastStep, PTL DEF Safety, ClosedLast

-----------------------------------------------------------------------------
(* No work is left without a task.                                             *)

LEMMA IdleStep == Typed /\ IdleMeansNothingToDo /\ [Next]_vars => IdleMeansNothingToDo'
<1> SUFFICES ASSUME Typed, IdleMeansNothingToDo, [Next]_vars, ~doing', ~closed'
             PROVE  ~(CanRead' \/ CanWrite')
  BY DEF IdleMeansNothingToDo
<1> DEFINE Flags == <<readable, recvList, socketError, shutdown, closed, writeable, sendList,
                      bytes4Send>>
<1>1. doing' = doing /\ Flags' = Flags => ~(CanRead' \/ CanWrite')
  BY DEF IdleMeansNothingToDo, CanRead, CanWrite, HighWater
<1>2. CASE UNCHANGED vars \/ UserPost \/ UserCloseEnd \/ Peer \/ Start \/ PollWait \/ PollDisable
           \/ PollPost
  BY <1>1, <1>2
  DEF vars, recvVars, sendVars, UserPost, UserCloseEnd, CloseEnd, Peer, PeerSend, PeerRead, PeerBreak,
      Start, PollWait, PollDisable, PollPost
<1>3. CASE Recv
  <2>1. ~doing /\ ~readable /\ readable' = readable /\ UNCHANGED <<socketError, shutdown, closed, sendVars>>
    BY <1>3 DEF Recv, ClaimAndPost
  <2>2. QED BY <2>1 DEF IdleMeansNothingToDo, CanRead, CanWrite, HighWater, sendVars
<1>4. ASSUME NEW len \in 1 .. MaxMsg, NEW andClose \in BOOLEAN, Send(len, andClose)
      PROVE  ~(CanRead' \/ CanWrite')
  <2>1. ~doing /\ ~writeable /\ writeable' = writeable /\ ~HighWater'
        /\ UNCHANGED <<socketError, closed, recvVars>>
    BY <1>4, Zenon DEF Send, ClaimAndPost
  <2>2. QED BY <2>1 DEF IdleMeansNothingToDo, CanRead, CanWrite, recvVars
<1>5. CASE Shutdown
  <2>1. shutdown' /\ UNCHANGED <<doing, socketError, closed, recvVars>>
    BY <1>5, Zenon DEF Shutdown
  <2>2. QED BY <2>1 DEF IdleMeansNothingToDo, CanRead, CanWrite, recvVars
<1>6. CASE UserCloseBegin
  BY <1>6 DEF UserCloseBegin, CloseBegin
<1>7. CASE OnActive
  <2>1. doing' = (doing \/ CanRead' \/ CanWrite')
    BY <1>7, Zenon DEF OnActive, ClaimByPoller
  <2>2. QED BY <2>1
<1>8. ASSUME NEW w \in Workers, Worker(w) PROVE ~(CanRead' \/ CanWrite')
  <2>1. CASE DoReturn(w)
    <3>1. Flags' = Flags /\ ~(CanRead \/ CanWrite)
      BY <2>1, Zenon DEF DoReturn, NothingToDo, recvVars, sendVars
    <3>2. QED BY <3>1 DEF CanRead, CanWrite, HighWater
  <2>2. CASE ~DoReturn(w)
    <3>1. doing' = doing /\ (closed' = closed \/ closed')
      <4>1. CASE WorkerCloseBegin(w)
        BY <4>1 DEF WorkerCloseBegin, CloseBegin
      <4>2. CASE \/ DoEnter(w) \/ DoSeesClosed(w) \/ DoRound(w) \/ DoRepost(w)
                 \/ RecvLock(w) \/ Read(w) \/ RecvCallback(w) \/ RecvFail(w) \/ ReportError(w)
        BY <4>2, Zenon
        DEF DoEnter, DoSeesClosed, DoRound, DoRepost, RecvLock, Read, RecvCallback, RecvFail,
            ReportError
      <4>3. CASE \/ SendLock(w) \/ Writev(w) \/ SendDone(w) \/ SendAgain(w) \/ SendFail(w)
                 \/ Enable(w) \/ SendCallback(w)
        BY <4>3, Zenon DEF SendLock, Writev, SendDone, SendAgain, SendFail, Enable, SendCallback
      <4>4. CASE WorkerCloseEnd(w) \/ WorkerCloseAgain(w) \/ DoClose(w) \/ CloseCallback(w)
        BY <4>4, Zenon DEF WorkerCloseEnd, CloseEnd, WorkerCloseAgain, DoClose, CloseCallback
      <4>5. QED BY <1>8, <2>2, <4>1, <4>2, <4>3, <4>4 DEF Worker
    <3>2. doing
      <4>1. CASE pc[w] = "idle"
        <5>1. queued > 0
          BY <1>8, <4>1
          DEF Worker, DoEnter, DoReturn, DoSeesClosed, DoRound, DoRepost, RecvLock, Read, RecvCallback,
              RecvFail, ReportError, SendLock, Writev, SendDone, SendAgain, SendFail, Enable,
              SendCallback, WorkerCloseBegin, WorkerCloseEnd, WorkerCloseAgain, DoClose, CloseCallback
        <5>2. Tokens >= 1
          BY <5>1, RunningCount DEF Typed, Tokened, Kinds, Tokens
        <5>3. QED BY <3>1, <5>2 DEF Typed, Tokened, OneToken
      <4>2. CASE pc[w] # "idle"
        BY <3>1, <4>2, OpenAlone DEF Typed, Running
      <4>3. QED BY <4>1, <4>2
    <3>3. QED BY <3>1, <3>2
  <2>3. QED BY <2>1, <2>2
<1>9. QED
  BY <1>2, <1>3, <1>4, <1>5, <1>6, <1>7, <1>8 DEF Next, User, Poller

\* An open socket that no Do task is posted or running for has nothing to read, nothing to
\* write and no error to report: no handler leaves work behind that nobody was told of.
THEOREM NoWorkIsLeftIdle == Safety => []IdleMeansNothingToDo
<1>1. Init => IdleMeansNothingToDo
  BY SizesAssumption DEF Init, IdleMeansNothingToDo, CanRead, CanWrite, HighWater
<1>2. QED BY <1>1, TypedAlways, IdleStep, PTL DEF Safety

-----------------------------------------------------------------------------
(* Buffers come back in the order they were given.                             *)

\* A worker has a buffer that is neither filled nor in the list.
Holding(w) == pc[w] \in {"read", "recvcb", "recvfail"}

\* The list continues the buffers up to number n.
Follows(n) ==
  n + Len(recvList) = offered /\ \A i \in 1 .. Len(recvList) : recvList[i] = n + i

\* Filled, in hand, queued: the buffers in the order of the Recvs.  An error loses the one
\* in hand, and none is taken after it.
InOrder ==
  /\ BuffersInOrder
  /\ \A w \in Workers : Holding(w) => buf[w] = Len(filled) + 1
  /\ ~socketError =>
       /\ (\E w \in Workers : Holding(w)) => Follows(Len(filled) + 1)
       /\ (\A w \in Workers : ~Holding(w)) => Follows(Len(filled))

LEMMA InOrderQuiet ==
  ASSUME InOrder, UNCHANGED <<recvList, offered, filled, buf>>, socketError => socketError',
         \A w \in Workers : Holding(w)' <=> Holding(w)
  PROVE  InOrder'
  BY DEF InOrder, BuffersInOrder, Follows

LEMMA InOrderRecv == TypeOK /\ InOrder /\ Recv => InOrder'
<1> SUFFICES ASSUME TypeOK, InOrder, Recv PROVE InOrder'
  OBVIOUS
<1>1. UNCHANGED <<socketError, filled, buf, pc>>
  BY DEF Recv, localVars, history
<1>2. /\ recvList \in Seq(Nat) /\ offered' = offered + 1 /\ offered \in Nat
      /\ recvList' = Append(recvList, offered + 1)
  BY SizesAssumption DEF Recv, TypeOK
<1>3. /\ Len(recvList') = Len(recvList) + 1 /\ Len(recvList) \in Nat
      /\ \A i \in 1 .. Len(recvList) : recvList'[i] = recvList[i]
      /\ recvList'[Len(recvList) + 1] = offered + 1
  BY <1>2, AppendProperties, LenProperties
<1>4. ASSUME NEW n \in Nat, Follows(n) PROVE Follows(n)'
  BY <1>2, <1>3, <1>4, SMTT(30) DEF Follows
<1>5. Len(filled) \in Nat /\ Len(filled) + 1 \in Nat
  BY LenProperties DEF TypeOK
<1>6. QED BY <1>1, <1>4, <1>5 DEF InOrder, BuffersInOrder, Holding, Follows

\* The steps of the worker that has, takes or gives up a buffer.
LEMMA InOrderHolder ==
  ASSUME Typed, InOrder, NEW w \in Workers,
         RecvLock(w) \/ Read(w) \/ RecvCallback(w) \/ RecvFail(w)
  PROVE  InOrder'
<1>1. /\ recvList \in Seq(Nat) /\ filled \in Seq(Nat) /\ pc \in [Workers -> Places]
      /\ buf \in [Workers -> Nat] /\ offered \in Nat
      /\ Len(recvList) \in Nat /\ Len(filled) \in Nat
  BY LenProperties, SizesAssumption DEF Typed, TypeOK
<1>2. \A v \in Workers : v # w => pc[v] = "idle"
  BY DataPathAlone DEF Typed, RecvLock, Read, RecvCallback, RecvFail, DataPath, Places
<1>3. CASE RecvLock(w)
  <2>1. UNCHANGED <<filled, offered, socketError>> /\ pc[w] = "recv"
    BY <1>3, Zenon DEF RecvLock, history
  <2>2. \A v \in Workers : ~Holding(v)
    BY <1>2, <2>1 DEF Holding
  <2>3. CASE CanRead /\ ~socketError
    <3>1. /\ buf' = [buf EXCEPT ![w] = Head(recvList)] /\ recvList' = Tail(recvList)
          /\ Goto(w, "read")
      BY <1>3, <2>3, Zenon DEF RecvLock
    <3>2. recvList # <<>> /\ Follows(Len(filled))
      BY <2>2, <2>3 DEF CanRead, InOrder
    <3>3. /\ Head(recvList) = recvList[1] /\ Len(recvList) >= 1
          /\ Len(recvList') = Len(recvList) - 1
          /\ \A i \in 1 .. Len(recvList') : recvList'[i] = recvList[i + 1]
      BY <1>1, <3>1, <3>2, HeadTailProperties, EmptySeq
    <3>4. Head(recvList) = Len(filled) + 1 /\ Follows(Len(filled) + 1)'
      <4>1. Len(filled) + Len(recvList) = offered
            /\ \A i \in 1 .. Len(recvList) : recvList[i] = Len(filled) + i
        BY <3>2 DEF Follows
      <4>2. ASSUME NEW i \in 1 .. Len(recvList')
            PROVE  recvList'[i] = Len(filled) + 1 + i
        <5>1. i + 1 \in 1 .. Len(recvList) /\ recvList'[i] = recvList[i + 1]
          BY <1>1, <3>3
        <5>2. recvList[i + 1] = Len(filled) + (i + 1)
          BY <4>1, <5>1
        <5>3. QED BY <1>1, <5>1, <5>2
      <4>3. Head(recvList) = Len(filled) + 1
        BY <1>1, <3>3, <4>1
      <4>4. Len(filled) + 1 + Len(recvList') = offered
        <5>1. Len(filled) + Len(recvList) = offered /\ Len(recvList') = Len(recvList) - 1
          BY <3>3, <4>1, Zenon
        <5>2. Len(filled) \in Nat /\ Len(recvList) \in Nat
          BY <1>1
        <5>3. QED BY <5>1, <5>2
      <4>5. QED BY <2>1, <4>2, <4>3, <4>4 DEF Follows
    <3>5. /\ Holding(w)' /\ buf'[w] = Len(filled) + 1
          /\ \A v \in Workers : v # w => ~Holding(v)'
      BY <1>1, <2>2, <3>1, <3>4 DEF Holding, Goto
    <3>6. QED BY <2>1, <3>4, <3>5 DEF InOrder, BuffersInOrder, Follows
  <2>4. CASE ~(CanRead /\ ~socketError)
    <3>1. UNCHANGED <<buf, recvList>> /\ Goto(w, IF socketError THEN "error" ELSE AfterStep(w))
      BY <1>3, <2>4, Zenon DEF RecvLock
    <3>2. \A v \in Workers : ~Holding(v)'
      BY <1>1, <2>2, <3>1 DEF Goto, Holding, AfterStep
    <3>3. QED BY <2>1, <2>2, <3>1, <3>2, InOrderQuiet
  <2>5. QED BY <2>3, <2>4
<1>4. CASE Read(w)
  <2>1. UNCHANGED <<recvList, offered, filled, buf, socketError>> /\ pc[w] = "read"
    BY <1>4, Zenon DEF Read, recvVars, history
  <2>2. \E p \in {"recvcb", "recvfail"} : Goto(w, p)
    BY <1>4 DEF Read
  <2>3. \A v \in Workers : Holding(v)' <=> Holding(v)
    BY <1>1, <2>1, <2>2 DEF Goto, Holding
  <2>4. QED BY <2>1, <2>3, InOrderQuiet
<1>5. CASE RecvCallback(w)
  <2>1. /\ UNCHANGED <<recvList, offered, buf, socketError>> /\ pc[w] = "recvcb"
        /\ filled' = Append(filled, buf[w]) /\ Goto(w, AfterStep(w))
    BY <1>5, Zenon DEF RecvCallback, recvVars, localVars
  <2>2. Holding(w) /\ buf[w] = Len(filled) + 1
    BY <2>1 DEF Holding, InOrder
  <2>3. \A v \in Workers : ~Holding(v)'
    BY <1>1, <1>2, <2>1 DEF Goto, Holding, AfterStep
  <2>4. /\ Len(filled') = Len(filled) + 1
        /\ \A i \in 1 .. Len(filled) : filled'[i] = filled[i]
        /\ filled'[Len(filled) + 1] = Len(filled) + 1
    BY <1>1, <2>1, <2>2, AppendProperties
  <2>5. BuffersInOrder'
    <3>1. ASSUME NEW i \in 1 .. Len(filled') PROVE filled'[i] = i
      <4>1. i \in 1 .. Len(filled) \/ i = Len(filled) + 1
        BY <1>1, <2>4
      <4>2. QED BY <2>4, <4>1 DEF InOrder, BuffersInOrder
    <3>2. QED BY <3>1 DEF BuffersInOrder
  <2>6. ~socketError => Follows(Len(filled))'
    BY <2>1, <2>2, <2>4 DEF InOrder, Follows
  <2>7. QED BY <2>1, <2>3, <2>5, <2>6 DEF InOrder
<1>6. CASE RecvFail(w)
  <2>1. UNCHANGED <<offered, filled, buf>> /\ pc[w] = "recvfail"
    BY <1>6, Zenon DEF RecvFail, localVars, history
  <2>2. Holding(w) /\ buf[w] = Len(filled) + 1
    BY <2>1 DEF Holding, InOrder
  <2>3. CASE res[w] = Again
    <3>1. /\ recvList' = <<buf[w]>> \o recvList /\ socketError' = socketError
          /\ Goto(w, AfterStep(w))
      BY <1>6, <2>3, Zenon DEF RecvFail, ReturnBuffer
    <3>2. \A v \in Workers : ~Holding(v)'
      BY <1>1, <1>2, <3>1 DEF Goto, Holding, AfterStep
    <3>3. <<buf[w]>> \in Seq(Nat) /\ Len(<<buf[w]>>) = 1 /\ <<buf[w]>>[1] = buf[w]
      BY <1>1
    <3>4. /\ Len(recvList') = 1 + Len(recvList) /\ recvList'[1] = buf[w]
          /\ \A i \in 1 .. 1 + Len(recvList) : i > 1 => recvList'[i] = recvList[i - 1]
      BY <1>1, <3>1, <3>3, ConcatProperties
    <3>5. ~socketError => Follows(Len(filled))'
      <4> SUFFICES ASSUME ~socketError PROVE Follows(Len(filled))'
        OBVIOUS
      <4>1. Len(filled) + 1 + Len(recvList) = offered
            /\ \A i \in 1 .. Len(recvList) : recvList[i] = Len(filled) + 1 + i
        BY <2>2 DEF InOrder, Follows
      <4>2. ASSUME NEW i \in 1 .. Len(recvList') PROVE recvList'[i] = Len(filled) + i
        <5>1. CASE i = 1
          BY <2>2, <3>4, <5>1
        <5>2. CASE i > 1
          <6>1. i - 1 \in 1 .. Len(recvList) /\ recvList'[i] = recvList[i - 1]
            BY <1>1, <3>4, <5>2
          <6>2. recvList[i - 1] = Len(filled) + 1 + (i - 1)
            BY <4>1, <6>1
          <6>3. QED BY <1>1, <6>1, <6>2
        <5>3. QED BY <5>1, <5>2
      <4>3. Len(filled) + Len(recvList') = offered
        BY <1>1, <3>4, <4>1
      <4>4. QED BY <2>1, <4>2, <4>3 DEF Follows
    <3>6. QED BY <2>1, <3>1, <3>2, <3>5 DEF InOrder, BuffersInOrder
  <2>4. CASE res[w] # Again
    <3>1. socketError' /\ Goto(w, "error")
      BY <1>6, <2>4, Zenon DEF RecvFail
    <3>2. \A v \in Workers : ~Holding(v)'
      BY <1>1, <1>2, <3>1 DEF Goto, Holding
    <3>3. QED BY <2>1, <3>1, <3>2 DEF InOrder, BuffersInOrder
  <2>5. QED BY <2>3, <2>4
<1>7. QED BY <1>3, <1>4, <1>5, <1>6

\* The other steps of a worker.
LEMMA InOrderWorker ==
  ASSUME Typed, InOrder, NEW w \in Workers, Worker(w),
         ~(RecvLock(w) \/ Read(w) \/ RecvCallback(w) \/ RecvFail(w))
  PROVE  InOrder'
<1> USE DEF recvVars, localVars, history
<1>1. CASE DoEnter(w) \/ DoReturn(w) \/ DoSeesClosed(w) \/ DoRound(w) \/ DoRepost(w)
  <2>1. UNCHANGED <<recvList, offered, filled, buf, socketError>>
    BY <1>1, Zenon DEF DoEnter, DoReturn, DoSeesClosed, DoRound, DoRepost
  <2>2. ~Holding(w) /\ \E p \in {"idle", "loop", "doclose", "repost", "recv", "send"} : Goto(w, p)
    BY <1>1 DEF DoEnter, DoReturn, DoSeesClosed, DoRound, DoRepost, Holding
  <2>3. \A v \in Workers : Holding(v)' <=> Holding(v)
    BY <2>2 DEF Goto, Holding, Typed, TypeOK
  <2>4. QED BY <2>1, <2>3, InOrderQuiet
<1>2. CASE SendLock(w) \/ Writev(w) \/ SendDone(w) \/ SendAgain(w) \/ Enable(w)
  <2>1. UNCHANGED <<recvList, offered, filled, buf, socketError>>
    BY <1>2, Zenon DEF SendLock, Writev, SendDone, SendAgain, Enable
  <2>2. /\ ~Holding(w)
        /\ \E p \in {"writev", "highwater", "loop", "senddone", "flushcb", "enable"} : Goto(w, p)
    <3>1. pc[w] \in {"send", "writev", "senddone", "enable"}
      BY <1>2, Zenon DEF SendLock, Writev, SendDone, SendAgain, Enable
    <3>2. \/ Goto(w, "writev") \/ Goto(w, IF CanWrite THEN "highwater" ELSE "loop")
          \/ Goto(w, "senddone") \/ Goto(w, IF FlushCb THEN "flushcb" ELSE "loop")
          \/ Goto(w, "loop") \/ Goto(w, IF w \in wNew THEN "loop" ELSE "enable")
      BY <1>2, Zenon DEF SendLock, Writev, SendDone, SendAgain, AfterAgain, Enable
    <3>3. QED BY <3>1, <3>2 DEF Holding
  <2>3. \A v \in Workers : Holding(v)' <=> Holding(v)
    BY <2>2 DEF Goto, Holding, Typed, TypeOK
  <2>4. QED BY <2>1, <2>3, InOrderQuiet
<1>3. CASE SendFail(w)
  <2>1. UNCHANGED <<recvList, offered, filled, buf>> /\ pc[w] = "senddone"
    BY <1>3, Zenon DEF SendFail
  <2>2. socketError => socketError'
    BY <1>3 DEF SendFail
  <2>3. \E p \in {"loop", "error"} : Goto(w, p)
    BY <1>3, Zenon DEF SendFail
  <2>4. \A v \in Workers : Holding(v)' <=> Holding(v)
    BY <2>1, <2>3 DEF Goto, Holding, Typed, TypeOK
  <2>5. QED BY <2>1, <2>2, <2>4, InOrderQuiet
<1>4. CASE ReportError(w) \/ SendCallback(w) \/ WorkerCloseBegin(w) \/ WorkerCloseAgain(w)
           \/ WorkerCloseEnd(w) \/ DoClose(w) \/ CloseCallback(w)
  <2>1. UNCHANGED <<recvList, offered, filled, buf, socketError>>
    BY <1>4, Zenon
    DEF ReportError, SendCallback, WorkerCloseBegin, CloseBegin, WorkerCloseAgain, WorkerCloseEnd,
        CloseEnd, DoClose, CloseCallback
  <2>2. ~Holding(w) /\ \E p \in {"loop", "send", "close", "closing", "closecb", "idle"} : Goto(w, p)
    BY <1>4
    DEF ReportError, AfterError, SendCallback, AfterFlush, WorkerCloseBegin, WorkerCloseAgain,
        WorkerCloseEnd, DoClose, CloseCallback, AfterStep, Holding
  <2>3. \A v \in Workers : Holding(v)' <=> Holding(v)
    BY <2>2 DEF Goto, Holding, Typed, TypeOK
  <2>4. QED BY <2>1, <2>3, InOrderQuiet
<1>5. QED BY <1>1, <1>2, <1>3, <1>4 DEF Worker

LEMMA InOrderStep == Typed /\ InOrder /\ [Next]_vars => InOrder'
<1> SUFFICES ASSUME Typed, InOrder, [Next]_vars PROVE InOrder'
  OBVIOUS
<1> USE DEF recvVars, localVars, history
<1>1. CASE UNCHANGED vars
  BY <1>1, InOrderQuiet DEF vars, Holding
<1>2. CASE Recv
  BY <1>2, InOrderRecv DEF Typed
<1>3. CASE Start \/ Shutdown \/ UserCloseBegin \/ UserPost \/ UserCloseEnd \/ Peer \/ Poller
  <2>1. UNCHANGED <<recvList, offered, filled, buf, pc>>
    BY <1>3
    DEF Start, Shutdown, UserCloseBegin, CloseBegin, UserPost, UserCloseEnd, CloseEnd, Peer,
        PeerSend, PeerRead, PeerBreak, Poller, PollWait, PollDisable, OnActive, PollPost
  <2>2. socketError => socketError'
    BY <1>3
    DEF Start, Shutdown, UserCloseBegin, CloseBegin, UserPost, UserCloseEnd, CloseEnd, Peer,
        PeerSend, PeerRead, PeerBreak, Poller, PollWait, PollDisable, OnActive, PollPost
  <2>3. QED BY <2>1, <2>2, InOrderQuiet DEF Holding
<1>4. ASSUME NEW len \in 1 .. MaxMsg, NEW andClose \in BOOLEAN, Send(len, andClose)
      PROVE  InOrder'
  <2>1. UNCHANGED <<recvList, offered, filled, buf, pc, socketError>>
    BY <1>4, Zenon DEF Send
  <2>2. QED BY <2>1, InOrderQuiet DEF Holding
<1>5. ASSUME NEW w \in Workers, Worker(w) PROVE InOrder'
  BY <1>5, InOrderHolder, InOrderWorker
<1>6. QED BY <1>1, <1>2, <1>3, <1>4, <1>5 DEF Next, User

\* The receive callback gets the buffers in the order they were given to Recv, whatever
\* EAGAIN, errors and calls of Recv meanwhile do to the list.
THEOREM BuffersComeBackInOrder == Safety => []BuffersInOrder
<1>1. Init => InOrder
  BY EmptySeq DEF Init, InOrder, BuffersInOrder, Holding, Follows
<1>2. QED BY <1>1, TypedAlways, InOrderStep, PTL DEF Safety, InOrder

-----------------------------------------------------------------------------
(* The close is not forgotten.                                                 *)

\* From closed on, until the callback was called, a Do task is posted or runs; only while
\* a Close that will post one holds mtx may there be none.
CloseCovered ==
  closed /\ CloseCb /\ closeCbs = 0 => Tokens > 0 \/ (mtx # "free" /\ ~doing)

\* Tokens counts a worker inside Do.
Counted == Tokens \in Nat /\ \A w \in Workers : pc[w] # "idle" => Tokens > 0

LEMMA RunningCounted == Kinds => Counted
<1> SUFFICES ASSUME Kinds PROVE Counted
  OBVIOUS
<1>1. ASSUME NEW w \in Workers, pc[w] # "idle" PROVE Tokens > 0
  <2>1. Cardinality(Running) >= 1 /\ Cardinality(Running) \in Nat
    BY <1>1, RunningCount DEF Running
  <2>2. QED BY <2>1 DEF Tokens, Kinds
<1>2. QED BY <1>1, RunningCount DEF Counted

LEMMA RunningCountedNext == Kinds' => Counted'
  BY RunningCounted, PTL

LEMMA CloseCoveredStep == Typed /\ CloseCovered /\ [Next]_vars => CloseCovered'
<1> SUFFICES ASSUME Typed, CloseCovered, [Next]_vars, closed', CloseCb, closeCbs' = 0
             PROVE  Tokens' > 0 \/ (mtx' # "free" /\ ~doing')
  BY DEF CloseCovered
<1>1. Kinds /\ Counted /\ Kinds' /\ Counted'
  BY TypedStep, RunningCounted, RunningCountedNext DEF Typed, Tokened
\* A step that keeps the tasks.
<1>2. ASSUME closed, closeCbs = 0, doing' = doing, mtx' = mtx, Tokens' >= Tokens
      PROVE  Tokens' > 0 \/ (mtx' # "free" /\ ~doing')
  BY <1>1, <1>2 DEF CloseCovered, Counted
<1>3. CASE UNCHANGED vars \/ Start \/ Shutdown \/ Peer \/ PollWait \/ PollDisable
  <2>1. /\ Same /\ pc' = pc /\ closeCbs' = closeCbs
    BY <1>3
    DEF vars, Start, Shutdown, Peer, PeerSend, PeerRead, PeerBreak, PollWait, PollDisable, Same,
        pollerVars, poolVars, history
  <2>2. Tokens' = Tokens
    BY <2>1 DEF Same, Tokens, Running
  <2>3. QED BY <1>1, <1>2, <2>1, <2>2 DEF Same, Counted
<1>4. CASE Recv \/ \E len \in 1 .. MaxMsg, andClose \in BOOLEAN : Send(len, andClose)
  BY <1>4 DEF Recv, Send
<1>5. CASE UserPost \/ PollPost
  <2>1. Running' = Running /\ Cardinality(Running) \in Nat /\ Kinds
    BY <1>1, <1>5, RunningCount DEF UserPost, PollPost, Running
  <2>2. Tokens' = Tokens
    <3>1. CASE UserPost
      BY <2>1, <3>1 DEF UserPost, pollerVars, Tokens, Kinds
    <3>2. CASE PollPost
      BY <2>1, <3>2 DEF PollPost, Tokens, Kinds
    <3>3. QED BY <1>5, <3>1, <3>2
  <2>3. UNCHANGED <<closed, closeCbs, doing, mtx>>
    BY <1>5 DEF UserPost, PollPost, history
  <2>4. QED BY <1>1, <1>2, <2>2, <2>3 DEF Counted
<1>6. CASE OnActive
  <2>1. Running' = Running /\ Cardinality(Running) \in Nat
    BY <1>1, <1>6, RunningCount DEF OnActive, Running
  <2>2. Tokens' >= Tokens
    BY <1>1, <1>6, <2>1 DEF OnActive, ClaimByPoller, poolVars, Tokens, Kinds
  <2>3. UNCHANGED <<closed, closeCbs, mtx>> /\ mtx = "free"
    BY <1>6 DEF OnActive, history
  <2>4. QED BY <1>1, <2>2, <2>3 DEF CloseCovered, Counted
<1>7. CASE UserCloseBegin
  <2>1. ~closed /\ mtx' = "user" /\ doing' = doing
    BY <1>7 DEF UserCloseBegin, CloseBegin
  <2>2. mtx' # "free" /\ Tokens' = Tokens
    BY <1>7 DEF UserCloseBegin, CloseBegin, Tokens, Running, pollerVars, poolVars
  <2>3. doing => Tokens = 1
    BY <2>1 DEF Typed, Tokened, OneToken
  <2>4. QED BY <2>1, <2>2, <2>3
<1>8. CASE UserCloseEnd
  <2>1. /\ UNCHANGED <<pc, ppc, queued, doing, closed, closeCbs>>
        /\ posting' = IF CloseCb /\ ~doing THEN posting + 1 ELSE posting
    BY <1>8, Zenon DEF UserCloseEnd, CloseEnd, ClosePosts, pollerVars, history
  <2>2. Running' = Running /\ Cardinality(Running) \in Nat
    BY <1>1, <2>1, RunningCount DEF Running
  <2>3. closed /\ Tokens \in Nat
    BY <1>1, <2>1 DEF Counted
  <2>4. CASE doing
    BY <2>1, <2>2, <2>3, <2>4 DEF Tokens, CloseCovered
  <2>5. CASE ~doing
    BY <1>1, <2>1, <2>2, <2>5 DEF Tokens, Kinds
  <2>6. QED BY <2>4, <2>5
<1>9. ASSUME NEW w \in Workers, Worker(w) PROVE Tokens' > 0 \/ (mtx' # "free" /\ ~doing')
  <2>1. ASSUME NEW p \in Places, p # "idle", Goto(w, p) PROVE Tokens' > 0
    BY <1>1, <2>1 DEF Goto, Counted, Kinds
  <2>2. CASE Inside(w) \/ DoEnter(w) \/ DoRound(w) \/ WorkerCloseBegin(w) \/ WorkerCloseEnd(w)
    <3>1. \E p \in Places : p # "idle" /\ Goto(w, p)
      BY <2>2, InsideMoves DEF DoEnter, DoRound, WorkerCloseBegin, WorkerCloseEnd, AfterStep, Places
    <3>2. QED BY <2>1, <3>1
  <2>3. CASE DoReturn(w)
    BY <2>3 DEF DoReturn
  <2>4. CASE DoRepost(w)
    <3>1. posting' \in Nat /\ queued' = queued + 1 /\ queued \in Nat
      BY <1>1, <2>4 DEF DoRepost, Kinds
    <3>2. Cardinality(Running') \in Nat
      <4>1. Running' = Running \ {w} /\ IsFiniteSet(Running)
        BY <1>1, <2>4, RunningCount DEF DoRepost, Goto, Running, Kinds
      <4>2. QED BY <4>1, FS_Subset, FS_CardinalityType
    <3>3. QED BY <3>1, <3>2 DEF Tokens
  <2>5. CASE DoClose(w)
    <3>1. Goto(w, "closecb")
      BY <2>5 DEF DoClose
    <3>2. QED BY <2>1, <3>1 DEF Places
  <2>6. CASE CloseCallback(w)
    <3>1. closeCbs' = closeCbs + 1 /\ closeCbs \in Nat
      BY <2>6 DEF CloseCallback, Typed, TypeOK
    <3>2. QED BY <3>1
  <2>7. QED BY <1>9, <2>2, <2>3, <2>4, <2>5, <2>6 DEF Worker, Inside
<1>10. QED
  BY <1>3, <1>4, <1>5, <1>6, <1>7, <1>8, <1>9 DEF Next, User, Poller

-----------------------------------------------------------------------------
(* No edge is lost on the reading side.                                        *)

\* A worker that met EAGAIN is about to clear readable.
MissesRead(w) == pc[w] = "recvfail" /\ res[w] = Again /\ w \notin rNew

\* A step that brings nothing to read, consumes no event and clears no flag.
LEMMA ReadQuiet ==
  ASSUME ReadEventNotLost, added' => added, rx' > 0 \/ Broken' => rx > 0 \/ Broken,
         Pending("in") => Pending("in")', readable => readable',
         \A w \in Workers : MissesRead(w)' => MissesRead(w)
  PROVE  ReadEventNotLost'
  BY DEF ReadEventNotLost, MissesRead

\* A step that leaves the descriptor on the ready list, or out of the epoll instance.
LEMMA ReadEdge == (added' => edge') => ReadEventNotLost'
  BY DEF ReadEventNotLost, Pending

\* epoll_ctl puts a descriptor that has something to read on the ready list.
LEMMA ReadRearm ==
  ASSUME NEW out \in BOOLEAN, Rearm(out), UNCHANGED <<rx, peer, shut>>
  PROVE  ReadEventNotLost'
<1>1. rx > 0 \/ Broken => "in" \in Ready \cap Interest(out)
  BY DEF Ready, Interest
<1>2. rx' > 0 \/ Broken' => edge'
  BY <1>1 DEF Rearm, Broken
<1>3. QED BY <1>2 DEF ReadEventNotLost, Pending

LEMMA ReadUser ==
  ASSUME TypeOK, ReadEventNotLost, User \/ UserPost \/ UserCloseEnd \/ Peer \/ Poller
  PROVE  ReadEventNotLost'
<1> USE DEF recvVars, rxVars, epollVars, pollerVars, localVars
<1>1. CASE Recv \/ UserPost \/ PollPost
  BY <1>1, ReadQuiet DEF Recv, UserPost, PollPost, Broken, Pending, MissesRead
<1>2. ASSUME NEW len \in 1 .. MaxMsg, NEW andClose \in BOOLEAN, Send(len, andClose)
      PROVE  ReadEventNotLost'
  <2>1. UNCHANGED <<added, rx, peer, shut, edge, pev, readable, rNew, pc, res>>
    BY <1>2, Zenon DEF Send
  <2>2. QED BY <2>1, ReadQuiet DEF Broken, Pending, MissesRead
<1>3. CASE Start
  BY <1>3, ReadRearm DEF Start
<1>4. CASE PeerSend \/ PeerBreak \/ UserCloseBegin
  BY <1>4, ReadEdge DEF PeerSend, PeerBreak, UserCloseBegin, CloseBegin
<1>5. CASE UserCloseEnd
  <2>1. added' = FALSE
    BY <1>5, Zenon DEF UserCloseEnd, CloseEnd
  <2>2. QED BY <2>1, ReadEdge
<1>6. CASE Shutdown
  <2>1. UNCHANGED <<added, rx, peer, pev, readable, rNew, pc, res>>
    BY <1>6, Zenon DEF Shutdown
  <2>2. (edge' = added) \/ UNCHANGED <<shut, edge>>
    BY <1>6, Zenon DEF Shutdown, ShutWr
  <2>3. QED BY <2>1, <2>2, ReadEdge, ReadQuiet DEF Broken, Pending, MissesRead
<1>7. CASE PeerRead
  <2>1. UNCHANGED <<added, rx, peer, shut, pev, readable, rNew, pc, res>> /\ (edge => edge')
    BY <1>7, Zenon DEF PeerRead
  <2>2. QED BY <2>1, ReadQuiet DEF Broken, Pending, MissesRead
<1>8. CASE PollWait
  <2>1. pev' = Ready \cap Interest(armed) /\ UNCHANGED <<rx, peer, shut>>
    BY <1>8, Zenon DEF PollWait
  <2>2. rx > 0 \/ Broken => "in" \in pev'
    BY <2>1 DEF Ready, Interest
  <2>3. QED BY <2>1, <2>2 DEF ReadEventNotLost, Pending, Broken
<1>9. CASE PollDisable
  <2>1. UNCHANGED <<added, rx, peer, shut, pev, readable, rNew, pc, res>>
    BY <1>9, Zenon DEF PollDisable
  <2>2. Rearm(FALSE) \/ ~added
    BY <1>9, Zenon DEF PollDisable
  <2>3. QED BY <2>1, <2>2, ReadEdge, ReadRearm
<1>10. CASE OnActive
  <2>1. UNCHANGED <<added, rx, peer, shut, edge, pc, res>> /\ readable' = (readable \/ "in" \in pev)
        /\ rNew' = IF "in" \in pev THEN Workers ELSE rNew
    BY <1>10, Zenon DEF OnActive, ReadVersion
  <2>2. CASE "in" \in pev
    BY <2>1, <2>2 DEF ReadEventNotLost
  <2>3. CASE "in" \notin pev
    BY <2>1, <2>3, ReadQuiet DEF Broken, Pending, MissesRead
  <2>4. QED BY <2>2, <2>3
<1>11. QED
  BY <1>1, <1>2, <1>3, <1>4, <1>5, <1>6, <1>7, <1>8, <1>9, <1>10 DEF User, Peer, Poller

\* A step of a worker that goes anywhere but to the account of a failed read, with the
\* other variables as in ReadQuiet.
LEMMA ReadMove ==
  ASSUME TypeOK, ReadEventNotLost, NEW w \in Workers, NEW p \in Places \ {"recvfail"}, Goto(w, p),
         UNCHANGED <<added, edge, pev, readable, shut, peer>>, rx' <= rx, rx' \in Nat,
         \A v \in Workers : v # w => res'[v] = res[v] /\ (v \in rNew => v \in rNew')
  PROVE  ReadEventNotLost'
<1>1. \A v \in Workers : MissesRead(v)' => MissesRead(v)
  BY DEF TypeOK, Goto, MissesRead
<1>2. rx' > 0 \/ Broken' => rx > 0 \/ Broken
  BY DEF TypeOK, Broken
<1>3. QED BY <1>1, <1>2, ReadQuiet DEF Pending

LEMMA ReadWorker ==
  ASSUME TypeOK, ReadEventNotLost, NEW w \in Workers, Worker(w)
  PROVE  ReadEventNotLost'
<1> USE DEF recvVars, rxVars, epollVars, pollerVars, localVars, AfterStep, Places
<1>0. rx \in Nat /\ rx <= rx
  BY DEF TypeOK
<1>1. CASE \/ DoEnter(w) \/ DoReturn(w) \/ DoSeesClosed(w) \/ DoRound(w) \/ DoRepost(w)
           \/ RecvCallback(w) \/ ReportError(w) \/ SendCallback(w) \/ WorkerCloseAgain(w)
           \/ DoClose(w) \/ CloseCallback(w)
  <2>1. UNCHANGED <<added, edge, pev, readable, shut, peer, rx, res, rNew>>
    BY <1>1, Zenon
    DEF DoEnter, DoReturn, DoSeesClosed, DoRound, DoRepost, RecvCallback, ReportError, SendCallback,
        WorkerCloseAgain, DoClose, CloseCallback
  <2>2. \E p \in Places \ {"recvfail"} : Goto(w, p)
    BY <1>1
    DEF DoEnter, DoReturn, DoSeesClosed, DoRound, DoRepost, RecvCallback, ReportError, AfterError,
        SendCallback, AfterFlush, WorkerCloseAgain, DoClose, CloseCallback
  <2>3. QED BY <1>0, <2>1, <2>2, ReadMove
<1>2. CASE SendLock(w) \/ Writev(w) \/ SendAgain(w) \/ SendFail(w)
  <2>1. UNCHANGED <<added, edge, pev, readable, shut, peer, rx, rNew>>
    BY <1>2, Zenon DEF SendLock, Writev, SendAgain, SendFail
  <2>2. \A v \in Workers : v # w => res'[v] = res[v]
    <3>1. res' = res \/ \E n : res' = [res EXCEPT ![w] = n]
      BY <1>2, Zenon DEF SendLock, Writev, SendAgain, SendFail
    <3>2. QED BY <3>1 DEF TypeOK
  <2>3. \E p \in Places \ {"recvfail"} : Goto(w, p)
    <3>1. \/ Goto(w, "writev") \/ Goto(w, IF CanWrite THEN "highwater" ELSE "loop")
          \/ Goto(w, "senddone") \/ Goto(w, IF w \in wNew THEN "loop" ELSE "enable")
          \/ Goto(w, "loop") \/ Goto(w, "error")
      BY <1>2, Zenon DEF SendLock, Writev, SendAgain, AfterAgain, SendFail
    <3>2. QED BY <3>1
  <2>4. QED BY <1>0, <2>1, <2>2, <2>3, ReadMove
<1>3. CASE RecvLock(w)
  <2>1. UNCHANGED <<added, edge, pev, readable, shut, peer, rx, res>>
    BY <1>3, Zenon DEF RecvLock
  <2>2. rNew' = rNew \/ rNew' = rNew \ {w}
    BY <1>3, Zenon DEF RecvLock
  <2>3. \E p \in Places \ {"recvfail"} : Goto(w, p)
    BY <1>3 DEF RecvLock
  <2>4. QED BY <1>0, <2>1, <2>2, <2>3, ReadMove
<1>4. CASE Read(w)
  <2>1. UNCHANGED <<added, edge, pev, readable, shut, peer, rNew>>
    BY <1>4, Zenon DEF Read
  <2>2. CASE rx > 0
    <3>1. Goto(w, "recvcb") /\ rx' \in Nat /\ rx' <= rx
      BY <1>4, <2>2, SizesAssumption DEF Read, TypeOK
    <3>2. \A v \in Workers : v # w => res'[v] = res[v]
      BY <1>4, <2>2 DEF Read, TypeOK
    <3>3. QED BY <2>1, <3>1, <3>2, ReadMove
  <2>3. CASE ~(rx > 0)
    <3>1. /\ rx' = rx /\ Goto(w, "recvfail")
          /\ res' = [res EXCEPT ![w] = IF Broken THEN Failed ELSE Again]
      BY <1>4, <2>3, Zenon DEF Read
    <3>2. CASE ~Broken
      BY <2>1, <2>3, <3>1, <3>2 DEF ReadEventNotLost, Broken
    <3>3. CASE Broken
      <4>1. \A v \in Workers : MissesRead(v)' => MissesRead(v)
        BY <2>1, <3>1, <3>3 DEF TypeOK, Goto, MissesRead, Failed, Again
      <4>2. QED BY <2>1, <3>1, <4>1, ReadQuiet DEF Broken, Pending
    <3>4. QED BY <3>2, <3>3
  <2>4. QED BY <2>2, <2>3
<1>5. CASE RecvFail(w)
  <2>1. UNCHANGED <<added, edge, pev, shut, peer, rx, rNew, res>> /\ pc[w] = "recvfail"
    BY <1>5, Zenon DEF RecvFail
  <2>2. \E p \in Places \ {"recvfail"} : Goto(w, p)
    BY <1>5 DEF RecvFail
  <2>3. CASE readable' = readable
    BY <1>0, <2>1, <2>2, <2>3, ReadMove
  <2>4. CASE readable' # readable
    <3>1. res[w] = Again /\ w \notin rNew
      BY <1>5, <2>4 DEF RecvFail, ReadableAfterAgain, TypeOK
    <3>2. added /\ (rx > 0 \/ Broken) => Pending("in")
      BY <2>1, <3>1 DEF ReadEventNotLost
    <3>3. QED BY <2>1, <3>2 DEF ReadEventNotLost, Pending, Broken
  <2>5. QED BY <2>3, <2>4
<1>6. CASE SendDone(w)
  <2>1. UNCHANGED <<added, pev, readable, peer, rx, rNew, res>>
    BY <1>6, Zenon DEF SendDone
  <2>2. (edge' = added) \/ UNCHANGED <<shut, edge>>
    BY <1>6, Zenon DEF SendDone, ShutWr
  <2>3. \E p \in Places \ {"recvfail"} : Goto(w, p)
    <3>1. Goto(w, IF FlushCb THEN "flushcb" ELSE "loop") \/ Goto(w, "loop")
      BY <1>6, Zenon DEF SendDone
    <3>2. QED BY <3>1
  <2>4. QED BY <1>0, <2>1, <2>2, <2>3, ReadEdge, ReadMove
<1>7. CASE Enable(w)
  <2>1. UNCHANGED <<added, pev, readable, peer, shut, rx, rNew, res>> /\ Goto(w, "loop")
    BY <1>7, Zenon DEF Enable
  <2>2. Rearm(TRUE) \/ ~added
    BY <1>7, Zenon DEF Enable
  <2>3. QED BY <2>1, <2>2, ReadEdge, ReadRearm
<1>8. CASE WorkerCloseBegin(w) \/ WorkerCloseEnd(w)
  <2>1. (edge' = added /\ added' = added) \/ added' = FALSE
    BY <1>8, Zenon DEF WorkerCloseBegin, CloseBegin, WorkerCloseEnd, CloseEnd
  <2>2. QED BY <2>1, ReadEdge
<1>9. QED
  BY <1>1, <1>2, <1>3, <1>4, <1>5, <1>6, <1>7, <1>8 DEF Worker

LEMMA ReadEventStep == TypeOK /\ ReadEventNotLost /\ [Next]_vars => ReadEventNotLost'
<1> SUFFICES ASSUME TypeOK, ReadEventNotLost, [Next]_vars PROVE ReadEventNotLost'
  OBVIOUS
<1>1. CASE UNCHANGED vars
  BY <1>1, ReadQuiet
  DEF vars, recvVars, rxVars, epollVars, pollerVars, localVars, Broken, Pending, MissesRead
<1>2. QED BY <1>1, ReadUser, ReadWorker DEF Next

-----------------------------------------------------------------------------
(* No edge is lost on the writing side.                                        *)

\* The poller holds no events but between epoll_wait and OnActive, and disables EPOLLOUT
\* only on account of an event it will hand on.
PevKnown == (ppc \in {"wait", "post"} => pev = {}) /\ (ppc = "disable" => "out" \in pev)

LEMMA PevStep == TypeOK /\ PevKnown /\ [Next]_vars => PevKnown'
<1> SUFFICES ASSUME TypeOK, PevKnown, [Next]_vars PROVE PevKnown'
  OBVIOUS
<1>1. CASE Poller
  BY <1>1 DEF Poller, PollWait, PollDisable, OnActive, ClaimByPoller, PollPost, PevKnown, TypeOK
<1>2. CASE ~Poller
  <2>1. pev' = pev /\ ppc' = ppc
    <3>1. ASSUME NEW w \in Workers, Worker(w) PROVE pollerVars' = pollerVars
      BY <3>1, Zenon
      DEF Worker, DoEnter, DoReturn, DoSeesClosed, DoRound, DoRepost, RecvLock, Read, RecvCallback,
          RecvFail, ReportError, SendLock, Writev, SendDone, SendAgain, SendFail, Enable,
          SendCallback, WorkerCloseBegin, CloseBegin, WorkerCloseEnd, CloseEnd, WorkerCloseAgain,
          DoClose, CloseCallback
    <3>2. CASE User \/ UserPost \/ UserCloseEnd \/ Peer \/ UNCHANGED vars
      BY <3>2, Zenon
      DEF User, Peer, Start, Recv, Send, Shutdown, UserCloseBegin, CloseBegin, UserPost, UserCloseEnd,
          CloseEnd, PeerSend, PeerRead, PeerBreak, vars, pollerVars
    <3>3. QED BY <1>2, <3>1, <3>2 DEF Next, pollerVars
  <2>2. QED BY <2>1 DEF PevKnown
<1>3. QED BY <1>1, <1>2

\* A step that makes no room, takes no event and leaves "enable" alone.
LEMMA WriteQuiet ==
  ASSUME WriteEventNotLost, added' => added, writeable => writeable', armed => armed',
         room' > 0 => room > 0, Pending("out") => Pending("out")',
         "out" \in pev => "out" \in pev',
         \A w \in Workers : pc[w] = "enable" => pc'[w] = "enable"
  PROVE  WriteEventNotLost'
  BY DEF WriteEventNotLost

\* A step that leaves the descriptor on the ready list, armed if it was.
LEMMA WriteEdge ==
  ASSUME WriteEventNotLost, added' => added /\ edge', writeable => writeable', armed => armed',
         "out" \in pev => "out" \in pev',
         \A w \in Workers : pc[w] = "enable" => pc'[w] = "enable"
  PROVE  WriteEventNotLost'
  BY DEF WriteEventNotLost, Pending

\* EPOLLOUT is asked for: the event is there at once if there is room.
LEMMA WriteRearm ==
  ASSUME Rearm(TRUE), room' = room
  PROVE  WriteEventNotLost'
<1>1. room > 0 => "out" \in Ready \cap Interest(TRUE)
  BY DEF Ready, Interest
<1>2. armed' /\ (room' > 0 => edge')
  BY <1>1 DEF Rearm
<1>3. QED BY <1>2 DEF WriteEventNotLost, Pending

LEMMA WriteUser ==
  ASSUME TypeOK, PevKnown, WriteEventNotLost, User \/ UserPost \/ UserCloseEnd \/ Peer \/ Poller
  PROVE  WriteEventNotLost'
<1> USE DEF sendVars, txVars, epollVars, pollerVars
<1>1. CASE Recv \/ UserPost \/ PollPost \/ PeerSend \/ PeerBreak
  <2>1. UNCHANGED <<added, writeable, armed, room, pev, pc>> /\ (edge' = edge \/ edge' = added)
    BY <1>1, Zenon DEF Recv, UserPost, PollPost, PeerSend, PeerBreak
  <2>2. QED BY <2>1, WriteQuiet, WriteEdge DEF Pending, TypeOK
<1>2. ASSUME NEW len \in 1 .. MaxMsg, NEW andClose \in BOOLEAN, Send(len, andClose)
      PROVE  WriteEventNotLost'
  <2>1. UNCHANGED <<added, writeable, armed, room, edge, pev, pc>>
    BY <1>2, Zenon DEF Send
  <2>2. QED BY <2>1, WriteQuiet DEF Pending
<1>3. CASE Start
  <2>1. Rearm(TRUE) /\ room' = room
    BY <1>3, Zenon DEF Start
  <2>2. QED BY <2>1, WriteRearm
<1>4. CASE UserCloseBegin
  BY <1>4, WriteEdge DEF UserCloseBegin, CloseBegin
<1>5. CASE UserCloseEnd
  <2>1. added' = FALSE
    BY <1>5, Zenon DEF UserCloseEnd, CloseEnd
  <2>2. QED BY <2>1 DEF WriteEventNotLost
<1>6. CASE Shutdown
  <2>1. UNCHANGED <<added, writeable, armed, room, pev, pc>> /\ (edge' = edge \/ edge' = added)
    BY <1>6, Zenon DEF Shutdown, ShutWr
  <2>2. QED BY <2>1, WriteQuiet, WriteEdge DEF Pending
<1>7. CASE PeerRead
  <2>1. /\ UNCHANGED <<added, writeable, armed, pev, pc>>
        /\ edge' = (edge \/ (added /\ armed))
    BY <1>7, Zenon DEF PeerRead
  <2>2. QED BY <2>1 DEF WriteEventNotLost, Pending
<1>8. CASE PollWait
  <2>1. /\ pev' = Ready \cap Interest(armed) /\ pev = {}
        /\ UNCHANGED <<added, writeable, armed, room, pc>>
    BY <1>8 DEF PollWait, PevKnown
  <2>2. armed /\ room > 0 => "out" \in pev'
    BY <2>1 DEF Ready, Interest
  <2>3. QED BY <2>1, <2>2 DEF WriteEventNotLost, Pending
<1>9. CASE PollDisable
  <2>1. pev' = pev /\ "out" \in pev
    BY <1>9, Zenon DEF PollDisable, PevKnown
  <2>2. QED BY <2>1 DEF WriteEventNotLost
<1>10. CASE OnActive
  <2>1. /\ UNCHANGED <<added, armed, room, edge, pc>> /\ pev' = {}
        /\ writeable' = (writeable \/ "out" \in pev)
    BY <1>10, Zenon DEF OnActive
  <2>2. QED BY <2>1 DEF WriteEventNotLost, Pending
<1>11. QED
  BY <1>1, <1>2, <1>3, <1>4, <1>5, <1>6, <1>7, <1>8, <1>9, <1>10 DEF User, Peer, Poller

\* A worker that is not at "enable" moves, with the other variables as in WriteQuiet.
LEMMA WriteMove ==
  ASSUME TypeOK, WriteEventNotLost, NEW w \in Workers, pc[w] # "enable", NEW p \in Places, Goto(w, p),
         UNCHANGED <<added, armed, pev, writeable>>, room' \in 0 .. room,
         edge' = edge \/ edge' = added
  PROVE  WriteEventNotLost'
<1>1. \A v \in Workers : pc[v] = "enable" => pc'[v] = "enable"
  BY DEF TypeOK, Goto
<1>2. room' > 0 => room > 0
  BY SizesAssumption DEF TypeOK
<1>3. QED BY <1>1, <1>2, WriteQuiet, WriteEdge DEF Pending

LEMMA WriteWorker ==
  ASSUME TypeOK, WriteEventNotLost, NEW w \in Workers, Worker(w)
  PROVE  WriteEventNotLost'
<1> USE DEF sendVars, txVars, epollVars, pollerVars, AfterStep, Places
<1>0. room \in 0 .. room
  BY SizesAssumption DEF TypeOK
<1>1. CASE \/ DoEnter(w) \/ DoReturn(w) \/ DoSeesClosed(w) \/ DoRound(w) \/ DoRepost(w)
           \/ RecvLock(w) \/ Read(w) \/ RecvCallback(w)
  <2>1. UNCHANGED <<added, armed, edge, pev, writeable, room>>
    BY <1>1, Zenon
    DEF DoEnter, DoReturn, DoSeesClosed, DoRound, DoRepost, RecvLock, Read, RecvCallback
  <2>2. pc[w] # "enable" /\ \E p \in Places : Goto(w, p)
    BY <1>1
    DEF DoEnter, DoReturn, DoSeesClosed, DoRound, DoRepost, RecvLock, Read, RecvCallback
  <2>3. QED BY <1>0, <2>1, <2>2, WriteMove
<1>2. CASE \/ RecvFail(w) \/ ReportError(w) \/ SendCallback(w) \/ WorkerCloseBegin(w)
           \/ WorkerCloseAgain(w) \/ DoClose(w) \/ CloseCallback(w)
  <2>1. UNCHANGED <<added, armed, pev, writeable, room>> /\ (edge' = edge \/ edge' = added)
    BY <1>2, Zenon
    DEF RecvFail, ReportError, SendCallback, WorkerCloseBegin, CloseBegin, WorkerCloseAgain, DoClose,
        CloseCallback
  <2>2. pc[w] # "enable" /\ \E p \in Places : Goto(w, p)
    BY <1>2
    DEF RecvFail, ReportError, AfterError, SendCallback, AfterFlush, WorkerCloseBegin,
        WorkerCloseAgain, DoClose, CloseCallback
  <2>3. QED BY <1>0, <2>1, <2>2, WriteMove
<1>3. CASE SendLock(w) \/ SendDone(w) \/ SendFail(w)
  <2>1. UNCHANGED <<added, armed, pev, writeable, room>> /\ (edge' = edge \/ edge' = added)
    BY <1>3, Zenon DEF SendLock, SendDone, ShutWr, SendFail
  <2>2. pc[w] # "enable"
    BY <1>3 DEF SendLock, SendDone, SendFail
  <2>3. \E p \in Places : Goto(w, p)
    <3>1. \/ Goto(w, "writev") \/ Goto(w, IF CanWrite THEN "highwater" ELSE "loop")
          \/ Goto(w, IF FlushCb THEN "flushcb" ELSE "loop") \/ Goto(w, "loop") \/ Goto(w, "error")
      BY <1>3, Zenon DEF SendLock, SendDone, SendFail
    <3>2. QED BY <3>1
  <2>4. QED BY <1>0, <2>1, <2>2, <2>3, WriteMove
<1>4. CASE Writev(w)
  <2>1. UNCHANGED <<added, armed, edge, pev, writeable>> /\ pc[w] = "writev" /\ Goto(w, "senddone")
    BY <1>4, Zenon DEF Writev
  <2>2. room' = room \/ \E n \in InIov(localList) : n <= room /\ room' = room - n
    BY <1>4, Zenon DEF Writev
  <2>3. room' \in 0 .. room
    BY <1>0, <2>2, IovBound, LenProperties, SizesAssumption DEF TypeOK
  <2>4. QED BY <2>1, <2>3, WriteMove
<1>5. CASE SendAgain(w)
  <2>1. /\ UNCHANGED <<added, armed, edge, pev, room>> /\ pc[w] = "senddone"
        /\ writeable' = (writeable /\ w \in wNew) /\ Goto(w, IF w \in wNew THEN "loop" ELSE "enable")
    BY <1>5, Zenon DEF SendAgain, WriteableAfterAgain, AfterAgain
  <2>2. CASE w \in wNew
    BY <1>0, <2>1, <2>2, WriteMove DEF TypeOK
  <2>3. CASE w \notin wNew
    BY <2>1, <2>3 DEF Goto, TypeOK, WriteEventNotLost
  <2>4. QED BY <2>2, <2>3
<1>6. CASE Enable(w)
  <2>1. Rearm(TRUE) \/ ~added
    BY <1>6, Zenon DEF Enable
  <2>2. UNCHANGED <<added, room>>
    BY <1>6, Zenon DEF Enable
  <2>3. QED BY <2>1, <2>2, WriteRearm DEF WriteEventNotLost
<1>7. CASE WorkerCloseEnd(w)
  <2>1. added' = FALSE
    BY <1>7, Zenon DEF WorkerCloseEnd, CloseEnd
  <2>2. QED BY <2>1 DEF WriteEventNotLost
<1>8. QED
  BY <1>1, <1>2, <1>3, <1>4, <1>5, <1>6, <1>7 DEF Worker

LEMMA WriteEventStep == TypeOK /\ PevKnown /\ WriteEventNotLost /\ [Next]_vars => WriteEventNotLost'
<1> SUFFICES ASSUME TypeOK, PevKnown, WriteEventNotLost, [Next]_vars PROVE WriteEventNotLost'
  OBVIOUS
<1>1. CASE UNCHANGED vars
  BY <1>1, WriteQuiet DEF vars, sendVars, txVars, epollVars, pollerVars, Pending
<1>2. QED BY <1>1, WriteUser, WriteWorker DEF Next

-----------------------------------------------------------------------------
(* The bytes go out in the order of the Sends.                                 *)

\* The list goes on with the stream after its first n bytes.
Run(list, n) == \A i \in 1 .. Len(list) : list[i].pos = n + i

\* The queued list takes the stream from its first n bytes to the last one accepted.
Queued(n) == n + Len(sendList) = accepted /\ Run(sendList, n)

\* Between the swap of the lists and the account of the writev.
InFlight(w) == pc[w] \in {"writev", "senddone"}

\* Then the list in flight comes between what was written and what is queued, also when the
\* socket fails or is closed meanwhile; otherwise it is empty.  A list that failed is left
\* where it is, but after socketError and Close no list is swapped.
Ordered ==
  /\ Stream(wire)
  /\ \A w \in Workers : InFlight(w) => /\ Run(Unsent(w), Len(wire))
                                       /\ Queued(Len(wire) + Len(Unsent(w)))
  /\ ~closed /\ ~socketError /\ (\A w \in Workers : ~InFlight(w)) =>
       localList = <<>> /\ Queued(Len(wire))

\* Two pieces of the stream, one after the other, are one.
LEMMA RunConcat ==
  ASSUME NEW a \in Seq(Byte), NEW b \in Seq(Byte), NEW n \in Nat,
         Run(a, n), Run(b, n + Len(a))
  PROVE  a \o b \in Seq(Byte) /\ Len(a \o b) = Len(a) + Len(b) /\ Run(a \o b, n)
<1>1. /\ a \o b \in Seq(Byte) /\ Len(a \o b) = Len(a) + Len(b)
      /\ \A i \in 1 .. Len(a) + Len(b) :
           (a \o b)[i] = IF i <= Len(a) THEN a[i] ELSE b[i - Len(a)]
  BY ConcatProperties
<1>2. Len(a) \in Nat /\ Len(b) \in Nat
  BY LenProperties
<1>3. ASSUME NEW i \in 1 .. Len(a) + Len(b) PROVE (a \o b)[i].pos = n + i
  <2>1. CASE i <= Len(a)
    BY <1>1, <1>2, <2>1 DEF Run
  <2>2. CASE ~(i <= Len(a))
    <3>1. i - Len(a) \in 1 .. Len(b)
      BY <1>2, <2>2
    <3>2. b[i - Len(a)].pos = n + Len(a) + (i - Len(a))
      BY <3>1 DEF Run
    <3>3. QED BY <1>1, <1>2, <2>2, <3>2
  <2>3. QED BY <2>1, <2>2
<1>4. QED BY <1>1, <1>3 DEF Run

\* A piece of the stream cut after its first k bytes.
LEMMA RunCut ==
  ASSUME NEW a \in Seq(Byte), NEW n \in Nat, NEW k \in 0 .. Len(a), Run(a, n)
  PROVE  /\ SubSeq(a, 1, k) \in Seq(Byte) /\ Len(SubSeq(a, 1, k)) = k /\ Run(SubSeq(a, 1, k), n)
         /\ SubSeq(a, k + 1, Len(a)) \in Seq(Byte)
         /\ Len(SubSeq(a, k + 1, Len(a))) = Len(a) - k
         /\ Run(SubSeq(a, k + 1, Len(a)), n + k)
<1>1. Len(a) \in Nat /\ k \in Nat /\ k <= Len(a)
  BY LenProperties
<1>2. /\ \A i \in 1 .. k : a[i] \in Byte
      /\ \A i \in k + 1 .. Len(a) : a[i] \in Byte
  BY <1>1, LenProperties
<1>3. /\ SubSeq(a, 1, k) \in Seq(Byte)
      /\ Len(SubSeq(a, 1, k)) = IF 1 <= k THEN k - 1 + 1 ELSE 0
      /\ \A i \in 1 .. k - 1 + 1 : SubSeq(a, 1, k)[i] = a[1 + i - 1]
  BY <1>1, <1>2, SubSeqProperties
<1>4. /\ SubSeq(a, k + 1, Len(a)) \in Seq(Byte)
      /\ Len(SubSeq(a, k + 1, Len(a))) = IF k + 1 <= Len(a) THEN Len(a) - (k + 1) + 1 ELSE 0
      /\ \A i \in 1 .. Len(a) - (k + 1) + 1 : SubSeq(a, k + 1, Len(a))[i] = a[k + 1 + i - 1]
  BY <1>1, <1>2, SubSeqProperties
<1>5. Len(SubSeq(a, 1, k)) = k /\ Len(SubSeq(a, k + 1, Len(a))) = Len(a) - k
  BY <1>1, <1>3, <1>4
<1>6. ASSUME NEW i \in 1 .. k PROVE SubSeq(a, 1, k)[i].pos = n + i
  <2>1. i \in 1 .. Len(a) /\ SubSeq(a, 1, k)[i] = a[i]
    BY <1>1, <1>3
  <2>2. QED BY <2>1 DEF Run
<1>7. ASSUME NEW i \in 1 .. Len(a) - k PROVE SubSeq(a, k + 1, Len(a))[i].pos = n + k + i
  <2>1. k + i \in 1 .. Len(a) /\ SubSeq(a, k + 1, Len(a))[i] = a[k + i]
    BY <1>1, <1>4
  <2>2. QED BY <1>1, <2>1 DEF Run
<1>8. QED BY <1>3, <1>4, <1>5, <1>6, <1>7 DEF Run

\* What a writev left of its list is a list.
LEMMA UnsentType ==
  ASSUME TypeOK, NEW w \in Workers
  PROVE  Unsent(w) \in Seq(Byte) /\ Len(Unsent(w)) \in Nat
<1>1. localList \in Seq(Byte) /\ Len(localList) \in Nat /\ res[w] \in Int
  BY LenProperties DEF TypeOK
<1>2. CASE res[w] > 0
  <2>1. res[w] + 1 \in Int /\ \A i \in res[w] + 1 .. Len(localList) : localList[i] \in Byte
    BY <1>1, <1>2, LenProperties
  <2>2. SubSeq(localList, res[w] + 1, Len(localList)) \in Seq(Byte)
    BY <1>1, <2>1, SubSeqProperties
  <2>3. QED BY <1>1, <2>2, LenProperties DEF Unsent
<1>3. CASE ~(res[w] > 0)
  BY <1>1, <1>3 DEF Unsent
<1>4. QED BY <1>2, <1>3

\* A step that moves no byte.
LEMMA OrderedQuiet ==
  ASSUME Ordered, UNCHANGED <<wire, localList, sendList, accepted>>,
         closed => closed', socketError => socketError',
         \A v \in Workers : /\ pc'[v] = "writev" <=> pc[v] = "writev"
                            /\ pc'[v] = "senddone" <=> pc[v] = "senddone"
                            /\ pc[v] = "senddone" => res'[v] = res[v]
  PROVE  Ordered'
<1>1. \A v \in Workers : /\ InFlight(v)' <=> InFlight(v)
                         /\ InFlight(v)' => Unsent(v)' = Unsent(v)
  BY DEF InFlight, Unsent
<1>2. QED BY <1>1 DEF Ordered, Queued, Stream

LEMMA OrderedSend ==
  ASSUME TypeOK, Ordered, NEW len \in 1 .. MaxMsg, NEW andClose \in BOOLEAN, Send(len, andClose)
  PROVE  Ordered'
<1>1. UNCHANGED <<wire, localList, closed, socketError, pc, res>>
      /\ sendList' = sendList \o Message(len) /\ accepted' = accepted + len
  BY Zenon DEF Send, txVars, localVars
<1>2. Message(len) \in Seq(Byte) /\ Len(Message(len)) = len
  BY MessageType DEF Send
<1>3. sendList \in Seq(Byte) /\ accepted \in Nat /\ len \in Nat /\ Len(sendList) \in Nat
  BY SizesAssumption, LenProperties DEF TypeOK
<1>4. Run(Message(len), accepted)
  BY <1>2 DEF Run, Message
<1>5. ASSUME NEW n \in Nat, Queued(n) PROVE Queued(n)'
  <2>1. n + Len(sendList) = accepted /\ Run(sendList, n)
    BY <1>5 DEF Queued
  <2>2. Len(sendList') = Len(sendList) + len /\ Run(sendList', n)
    <3>1. \A a, b \in Seq(Byte) : Run(a, n) /\ Run(b, n + Len(a)) =>
            Len(a \o b) = Len(a) + Len(b) /\ Run(a \o b, n)
      BY RunConcat
    <3>2. Run(Message(len), n + Len(sendList))
      BY <1>4, <2>1
    <3>3. /\ Len(sendList \o Message(len)) = Len(sendList) + Len(Message(len))
          /\ Run(sendList \o Message(len), n)
      BY <1>2, <1>3, <2>1, <3>1, <3>2, Zenon
    <3>4. QED BY <1>1, <1>2, <3>3 DEF Run
  <2>3. n + Len(sendList') = accepted'
    BY <1>1, <1>3, <2>1, <2>2
  <2>4. QED BY <2>2, <2>3 DEF Queued, Run
<1>6. Len(wire) \in Nat /\ Len(localList) \in Nat
  BY LenProperties DEF TypeOK
<1>7. \A v \in Workers : /\ Unsent(v)' = Unsent(v) /\ InFlight(v)' = InFlight(v)
                         /\ Len(Unsent(v)) \in Nat
  BY <1>1, UnsentType DEF Unsent, InFlight
<1>8. QED BY <1>1, <1>5, <1>6, <1>7, SMTT(30) DEF Ordered, Stream

\* The lists are swapped.
LEMMA OrderedSwap ==
  ASSUME Typed, Ordered, NEW w \in Workers, SendLock(w)
  PROVE  Ordered'
<1>1. UNCHANGED <<wire, closed, socketError, res, accepted>> /\ pc[w] = "send"
  BY Zenon DEF SendLock, txVars
<1>2. pc \in [Workers -> Places] /\ Len(wire) \in Nat /\ Len(sendList) \in Nat
  BY LenProperties DEF Typed, TypeOK
<1>3. \A v \in Workers : ~InFlight(v)
  BY <1>1, DataPathAlone DEF Typed, DataPath, Places, InFlight
<1>4. CASE CanWrite /\ writeable
  <2>1. sendList' = localList /\ localList' = sendList /\ Goto(w, "writev")
    BY <1>4, Zenon DEF SendLock
  <2>2. localList = <<>> /\ Queued(Len(wire))
    BY <1>3, <1>4 DEF CanWrite, Ordered
  <2>3. pc'[w] = "writev" /\ \A v \in Workers : v # w => ~InFlight(v)'
    BY <1>2, <1>3, <2>1 DEF Goto, InFlight
  <2>4. Run(localList', Len(wire')) /\ Unsent(w)' = localList'
    BY <1>1, <2>1, <2>2, <2>3 DEF Queued, Unsent
  <2>5. Queued(Len(wire) + Len(localList))'
    BY <1>1, <1>2, <2>1, <2>2, EmptySeq DEF Queued, Run
  <2>6. QED BY <1>1, <2>3, <2>4, <2>5 DEF Ordered, Stream, InFlight
<1>5. CASE ~(CanWrite /\ writeable)
  <2>1. UNCHANGED <<sendList, localList>> /\ Goto(w, IF CanWrite THEN "highwater" ELSE "loop")
    BY <1>5, Zenon DEF SendLock
  <2>2. \A v \in Workers : pc'[v] \notin {"writev", "senddone"}
    BY <1>2, <1>3, <2>1 DEF Goto, InFlight
  <2>3. QED BY <1>1, <1>3, <2>1, <2>2, OrderedQuiet DEF InFlight
<1>6. QED BY <1>4, <1>5

\* writev takes the first bytes of the list in flight.
LEMMA OrderedWritev ==
  ASSUME Typed, Ordered, NEW w \in Workers, Writev(w)
  PROVE  Ordered'
<1>1. UNCHANGED <<sendList, closed, socketError, accepted>> /\ pc[w] = "writev" /\ Goto(w, "senddone")
  BY Zenon DEF Writev
<1>2. /\ pc \in [Workers -> Places] /\ wire \in Seq(Byte) /\ localList \in Seq(Byte)
      /\ sendList \in Seq(Byte) /\ res \in [Workers -> Int]
      /\ Len(wire) \in Nat /\ Len(localList) \in Nat
  BY LenProperties DEF Typed, TypeOK
<1>3. \A v \in Workers : v # w => pc[v] = "idle"
  BY <1>1, DataPathAlone DEF Typed, DataPath, Places
<1>4. pc'[w] = "senddone" /\ \A v \in Workers : v # w => pc'[v] = "idle"
  BY <1>1, <1>2, <1>3 DEF Goto
<1>5. Stream(wire) /\ Run(localList, Len(wire)) /\ Queued(Len(wire) + Len(localList))
  BY <1>1 DEF Ordered, InFlight, Unsent
<1>6. \* It is enough that what was written and what is left are the list.
      ASSUME Stream(wire'), Run(Unsent(w)', Len(wire')),
             Len(wire') + Len(Unsent(w)') = Len(wire) + Len(localList)
      PROVE  Ordered'
  BY <1>1, <1>4, <1>5, <1>6 DEF Ordered, Queued, InFlight
<1>7. CASE UNCHANGED <<wire, localList>> /\ res'[w] \in {Failed, Again}
  <2>1. Unsent(w)' = localList
    BY <1>7 DEF Unsent, Failed, Again
  <2>2. QED BY <1>5, <1>6, <1>7, <2>1
<1>8. ASSUME NEW n \in InIov(localList), res' = [res EXCEPT ![w] = n],
             wire' = wire \o SubSeq(localList, 1, n),
             localList' = IF n = Len(localList) THEN <<>> ELSE localList
      PROVE  Ordered'
  <2>1. n \in 0 .. Len(localList) /\ res'[w] = n
    BY <1>2, <1>8, IovBound
  <2>2. /\ SubSeq(localList, 1, n) \in Seq(Byte) /\ Len(SubSeq(localList, 1, n)) = n
        /\ Run(SubSeq(localList, 1, n), Len(wire))
        /\ Len(SubSeq(localList, n + 1, Len(localList))) = Len(localList) - n
        /\ Run(SubSeq(localList, n + 1, Len(localList)), Len(wire) + n)
    BY <1>2, <1>5, <2>1, RunCut
  <2>3. Len(wire') = Len(wire) + n /\ Stream(wire')
    <3>1. Run(wire, 0)
      BY <1>5 DEF Run, Stream
    <3>2. Run(SubSeq(localList, 1, n), 0 + Len(wire))
      BY <1>2, <2>2
    <3>3. Len(wire') = Len(wire) + n /\ Run(wire', 0)
      <4>1. \A a, b \in Seq(Byte) : Run(a, 0) /\ Run(b, 0 + Len(a)) =>
              Len(a \o b) = Len(a) + Len(b) /\ Run(a \o b, 0)
        BY RunConcat
      <4>2. wire \in Seq(Byte)
        BY <1>2
      <4>3. /\ Len(wire \o SubSeq(localList, 1, n)) = Len(wire) + Len(SubSeq(localList, 1, n))
            /\ Run(wire \o SubSeq(localList, 1, n), 0)
        BY <2>2, <3>1, <3>2, <4>1, <4>2, Zenon
      <4>4. QED BY <1>8, <2>2, <4>3 DEF Run
    <3>4. QED BY <3>3 DEF Run, Stream
  <2>4. CASE n = Len(localList)
    <3>1. Unsent(w)' = <<>>
      <4>1. localList' = <<>> /\ Len(localList') = 0
        BY <1>8, <2>4
      <4>2. n > 0 => SubSeq(localList', n + 1, Len(localList')) = <<>>
        BY <1>2, <2>1, <4>1
      <4>3. QED BY <1>4, <2>1, <4>1, <4>2 DEF Unsent
    <3>2. Run(Unsent(w)', Len(wire')) /\ Len(Unsent(w)') = 0
      BY <3>1 DEF Run
    <3>3. QED BY <1>2, <1>6, <2>3, <2>4, <3>2
  <2>5. CASE n # Len(localList) /\ n > 0
    <3>1. Unsent(w)' = SubSeq(localList, n + 1, Len(localList))
      BY <1>4, <1>8, <2>1, <2>5 DEF Unsent
    <3>2. Run(Unsent(w)', Len(wire'))
      BY <2>2, <2>3, <3>1
    <3>3. Len(wire') + Len(Unsent(w)') = Len(wire) + Len(localList)
      <4>1. Len(Unsent(w)') = Len(localList) - n
        BY <2>2, <3>1
      <4>2. QED BY <1>2, <2>1, <2>3, <4>1
    <3>4. QED BY <1>6, <2>3, <3>2, <3>3
  <2>6. CASE n # Len(localList) /\ ~(n > 0)
    <3>1. Unsent(w)' = localList /\ n = 0
      BY <1>8, <2>1, <2>6 DEF Unsent
    <3>2. QED BY <1>2, <1>5, <1>6, <2>3, <3>1
  <2>7. QED BY <2>4, <2>5, <2>6
<1>9. QED
  <2>1. \/ UNCHANGED <<wire, localList>> /\ (\E n \in {Failed, Again} : res' = [res EXCEPT ![w] = n])
        \/ \E n \in InIov(localList) :
             /\ res' = [res EXCEPT ![w] = n]
             /\ wire' = wire \o SubSeq(localList, 1, n)
             /\ localList' = IF n = Len(localList) THEN <<>> ELSE localList
    BY Zenon DEF Writev
  <2>2. CASE UNCHANGED <<wire, localList>> /\ (\E n \in {Failed, Again} : res' = [res EXCEPT ![w] = n])
    BY <1>2, <1>7, <2>2
  <2>3. QED BY <1>8, <2>1, <2>2, Zenon

\* What was not written goes back to the front.
LEMMA OrderedAddFront ==
  ASSUME Typed, Ordered, NEW w \in Workers, SendDone(w) \/ SendAgain(w)
  PROVE  Ordered' /\ Queued(Len(wire))'
<1>1. /\ UNCHANGED <<wire, closed, socketError, accepted>> /\ pc[w] = "senddone"
      /\ localList' = <<>>
  BY Zenon DEF SendDone, SendAgain, AddFront, txVars
<1>2. /\ pc \in [Workers -> Places] /\ wire \in Seq(Byte) /\ localList \in Seq(Byte)
      /\ sendList \in Seq(Byte) /\ res[w] \in Int
      /\ Len(wire) \in Nat /\ Len(localList) \in Nat /\ Len(sendList) \in Nat
  BY LenProperties DEF Typed, TypeOK
<1>3. \A v \in Workers : v # w => pc[v] = "idle"
  BY <1>1, DataPathAlone DEF Typed, DataPath, Places
<1>4. \A v \in Workers : pc'[v] \notin {"writev", "senddone"}
  <2>1. \E p \in Places \ {"writev", "senddone"} : Goto(w, p)
    <3>1. \/ Goto(w, IF FlushCb THEN "flushcb" ELSE "loop") \/ Goto(w, "loop")
          \/ Goto(w, IF w \in wNew THEN "loop" ELSE "enable")
      BY Zenon DEF SendDone, SendAgain, AfterAgain
    <3>2. QED BY <3>1 DEF Places
  <2>2. QED BY <1>2, <1>3, <2>1 DEF Goto
<1>5. Run(Unsent(w), Len(wire)) /\ Queued(Len(wire) + Len(Unsent(w)))
  BY <1>1 DEF Ordered, InFlight
<1>6. SUFFICES Queued(Len(wire))'
  BY <1>1, <1>4 DEF Ordered, Stream, InFlight
<1>7. ASSUME NEW rest \in Seq(Byte), sendList' = rest \o sendList,
             Len(rest) = Len(Unsent(w)), Run(rest, Len(wire))
      PROVE  Queued(Len(wire))'
  <2>1. Len(wire) + Len(rest) + Len(sendList) = accepted /\ Run(sendList, Len(wire) + Len(rest))
    BY <1>5, <1>7 DEF Queued
  <2>2. Len(sendList') = Len(rest) + Len(sendList) /\ Run(sendList', Len(wire))
    BY <1>2, <1>7, <2>1, RunConcat
  <2>3. Len(wire) + Len(sendList') = accepted
    <3>1. Len(rest) \in Nat
      BY LenProperties
    <3>2. QED BY <1>2, <2>1, <2>2, <3>1
  <2>4. QED BY <1>1, <2>2, <2>3 DEF Queued
<1>8. CASE SendAgain(w)
  <2>1. sendList' = localList \o sendList /\ res[w] = Again
    BY <1>8, Zenon DEF SendAgain, AddFront
  <2>2. Unsent(w) = localList
    BY <2>1 DEF Unsent, Again
  <2>3. QED BY <1>2, <1>5, <1>7, <2>1, <2>2
<1>9. CASE SendDone(w)
  <2>1. sendList' = SubSeq(localList, res[w] + 1, Len(localList)) \o sendList /\ res[w] >= 0
    BY <1>9, Zenon DEF SendDone, AddFront
  <2>2. CASE res[w] > 0
    <3>1. Unsent(w) = SubSeq(localList, res[w] + 1, Len(localList))
      BY <1>1, <2>2 DEF Unsent
    <3>2. Unsent(w) \in Seq(Byte)
      BY UnsentType DEF Typed
    <3>3. QED BY <1>5, <1>7, <2>1, <3>1, <3>2
  <2>3. CASE ~(res[w] > 0)
    <3>1. Unsent(w) = localList /\ res[w] = 0
      BY <1>2, <2>1, <2>3 DEF Unsent
    <3>2. /\ SubSeq(localList, 0 + 1, Len(localList)) \in Seq(Byte)
          /\ Len(SubSeq(localList, 0 + 1, Len(localList))) = Len(localList)
          /\ Run(SubSeq(localList, 0 + 1, Len(localList)), Len(wire))
      <4>1. Run(localList, Len(wire)) /\ 0 \in 0 .. Len(localList)
        BY <1>2, <1>5, <3>1
      <4>2. /\ SubSeq(localList, 0 + 1, Len(localList)) \in Seq(Byte)
            /\ Len(SubSeq(localList, 0 + 1, Len(localList))) = Len(localList) - 0
            /\ Run(SubSeq(localList, 0 + 1, Len(localList)), Len(wire) + 0)
        BY <1>2, <4>1, RunCut
      <4>3. QED BY <1>2, <4>2
    <3>3. QED BY <1>7, <2>1, <3>1, <3>2
  <2>4. QED BY <2>2, <2>3
<1>10. QED BY <1>8, <1>9

\* The other steps of a worker.
LEMMA OrderedWorker ==
  ASSUME Typed, Ordered, NEW w \in Workers, Worker(w),
         ~(SendLock(w) \/ Writev(w) \/ SendDone(w) \/ SendAgain(w))
  PROVE  Ordered'
<1> USE DEF sendVars, txVars, localVars, AfterStep, Places
<1>0. pc \in [Workers -> Places]
  BY DEF Typed, TypeOK
<1>1. CASE DoClose(w)
  <2>1. closed' /\ wire' = wire /\ pc[w] = "doclose"
    BY <1>1 DEF DoClose, Typed, Tokened, EndMeansClosed
  <2>2. \A v \in Workers : pc[v] \notin {"writev", "senddone"}
    BY <2>1, DataPathAlone DEF Typed, DataPath
  <2>3. \A v \in Workers : pc'[v] \notin {"writev", "senddone"}
    BY <1>0, <1>1, <2>2 DEF DoClose, Goto
  <2>4. QED BY <2>1, <2>3 DEF Ordered, Stream, InFlight
<1>2. CASE SendFail(w)
  <2>1. /\ UNCHANGED <<wire, localList, closed>> /\ pc[w] = "senddone" /\ (closed \/ socketError')
        /\ (Goto(w, "loop") \/ Goto(w, "error"))
    BY <1>2, Zenon DEF SendFail
  <2>2. \A v \in Workers : v # w => pc[v] = "idle"
    BY <2>1, DataPathAlone DEF Typed, DataPath
  <2>3. \A v \in Workers : pc'[v] \notin {"writev", "senddone"}
    BY <1>0, <2>1, <2>2 DEF Goto
  <2>4. (closed \/ socketError)'
    BY <2>1
  <2>5. QED BY <2>1, <2>3, <2>4 DEF Ordered, Stream, InFlight
<1>3. CASE \/ DoEnter(w) \/ DoReturn(w) \/ DoSeesClosed(w) \/ DoRound(w) \/ DoRepost(w)
           \/ RecvLock(w) \/ Read(w) \/ RecvCallback(w) \/ RecvFail(w) \/ ReportError(w)
           \/ Enable(w) \/ SendCallback(w) \/ WorkerCloseBegin(w) \/ WorkerCloseEnd(w)
           \/ WorkerCloseAgain(w) \/ CloseCallback(w)
  <2>1. UNCHANGED <<wire, localList, sendList, accepted>>
    BY <1>3, Zenon
    DEF DoEnter, DoReturn, DoSeesClosed, DoRound, DoRepost, RecvLock, Read, RecvCallback, RecvFail,
        ReportError, Enable, SendCallback, WorkerCloseBegin, CloseBegin, WorkerCloseEnd, CloseEnd,
        WorkerCloseAgain, CloseCallback
  <2>2. (closed => closed') /\ (socketError => socketError')
    <3>1. CASE Enable(w) \/ WorkerCloseEnd(w)
      <4>1. UNCHANGED <<closed, socketError>>
        BY <3>1, Zenon DEF Enable, WorkerCloseEnd, CloseEnd
      <4>2. QED BY <4>1
    <3>2. CASE ~(Enable(w) \/ WorkerCloseEnd(w))
      BY <1>3, <3>2
      DEF DoEnter, DoReturn, DoSeesClosed, DoRound, DoRepost, RecvLock, Read, RecvCallback, RecvFail,
          ReportError, SendCallback, WorkerCloseBegin, CloseBegin, WorkerCloseAgain, CloseCallback
    <3>3. QED BY <3>1, <3>2
  <2>3. pc[w] \notin {"writev", "senddone"}
    BY <1>3
    DEF DoEnter, DoReturn, DoSeesClosed, DoRound, DoRepost, RecvLock, Read, RecvCallback, RecvFail,
        ReportError, Enable, SendCallback, WorkerCloseBegin, WorkerCloseEnd, WorkerCloseAgain,
        CloseCallback
  <2>4. \E p \in Places \ {"writev", "senddone"} : Goto(w, p)
    <3>1. CASE Enable(w)
      BY <3>1, Zenon DEF Enable
    <3>2. CASE ~Enable(w)
      BY <1>3, <3>2
      DEF DoEnter, DoReturn, DoSeesClosed, DoRound, DoRepost, RecvLock, Read, RecvCallback, RecvFail,
          ReportError, AfterError, SendCallback, AfterFlush, WorkerCloseBegin, WorkerCloseEnd,
          WorkerCloseAgain, CloseCallback
    <3>3. QED BY <3>1, <3>2
  <2>5. \A v \in Workers : v # w => res'[v] = res[v]
    <3>1. res' = res \/ \E n : res' = [res EXCEPT ![w] = n]
      BY <1>3, Zenon
      DEF DoEnter, DoReturn, DoSeesClosed, DoRound, DoRepost, RecvLock, Read, RecvCallback, RecvFail,
          ReportError, Enable, SendCallback, WorkerCloseBegin, CloseBegin, WorkerCloseEnd, CloseEnd,
          WorkerCloseAgain, CloseCallback
    <3>2. QED BY <3>1 DEF Typed, TypeOK
  <2>6. \A v \in Workers : /\ pc'[v] = "writev" <=> pc[v] = "writev"
                           /\ pc'[v] = "senddone" <=> pc[v] = "senddone"
                           /\ pc[v] = "senddone" => res'[v] = res[v]
    BY <1>0, <2>3, <2>4, <2>5 DEF Goto
  <2>7. QED BY <2>1, <2>2, <2>6, OrderedQuiet
<1>4. QED BY <1>1, <1>2, <1>3 DEF Worker

LEMMA OrderedStep == Typed /\ Ordered /\ [Next]_vars => Ordered'
<1> SUFFICES ASSUME Typed, Ordered, [Next]_vars PROVE Ordered'
  OBVIOUS
<1>1. ASSUME NEW len \in 1 .. MaxMsg, NEW andClose \in BOOLEAN, Send(len, andClose)
      PROVE  Ordered'
  BY <1>1, OrderedSend DEF Typed
<1>2. CASE UNCHANGED vars \/ Start \/ Recv \/ Shutdown \/ UserCloseBegin \/ UserPost \/ UserCloseEnd
           \/ Peer \/ Poller
  <2>1. UNCHANGED <<wire, localList, sendList, accepted, pc, res>>
    BY <1>2, Zenon
    DEF vars, Start, Recv, Shutdown, UserCloseBegin, CloseBegin, UserPost, UserCloseEnd, CloseEnd,
        Peer, PeerSend, PeerRead, PeerBreak, Poller, PollWait, PollDisable, OnActive, PollPost,
        sendVars, txVars, localVars
  <2>2. (closed => closed') /\ (socketError => socketError')
    <3>1. CASE UserCloseBegin \/ OnActive
      <4>1. /\ closed' = closed \/ closed' = TRUE
            /\ socketError' = socketError \/ socketError' = (socketError \/ "err" \in pev)
        BY <3>1, Zenon DEF UserCloseBegin, CloseBegin, OnActive
      <4>2. QED BY <4>1 DEF Typed, TypeOK
    <3>2. CASE ~(UserCloseBegin \/ OnActive)
      <4>1. UNCHANGED <<closed, socketError>>
        BY <1>2, <3>2, Zenon
        DEF vars, Start, Recv, Shutdown, UserPost, UserCloseEnd, CloseEnd, Peer, PeerSend, PeerRead,
            PeerBreak, Poller, PollWait, PollDisable, PollPost
      <4>2. QED BY <4>1
    <3>3. QED BY <3>1, <3>2
  <2>3. QED BY <2>1, <2>2, OrderedQuiet
<1>3. ASSUME NEW w \in Workers, Worker(w) PROVE Ordered'
  BY <1>3, OrderedSwap, OrderedWritev, OrderedAddFront, OrderedWorker
<1>4. QED BY <1>1, <1>2, <1>3 DEF Next, User

LEMMA OrderedIsByteOrder == Typed /\ Ordered => ByteOrder
<1> SUFFICES ASSUME Typed, Ordered, ~closed, ~socketError
             PROVE  LET rest == IF \E w \in Workers : pc[w] = "senddone"
                                  THEN Unsent(CHOOSE w \in Workers : pc[w] = "senddone")
                                  ELSE localList
                    IN  /\ Stream(wire \o rest \o sendList)
                        /\ Len(wire \o rest \o sendList) = accepted
  BY DEF ByteOrder, Ordered
<1> DEFINE c == CHOOSE w \in Workers : pc[w] = "senddone"
<1>1. /\ wire \in Seq(Byte) /\ localList \in Seq(Byte) /\ sendList \in Seq(Byte)
      /\ Len(wire) \in Nat /\ Len(localList) \in Nat /\ Len(sendList) \in Nat
  BY LenProperties DEF Typed, TypeOK
<1>2. ASSUME NEW rest \in Seq(Byte), Run(rest, Len(wire)), Queued(Len(wire) + Len(rest))
      PROVE  Stream(wire \o rest \o sendList) /\ Len(wire \o rest \o sendList) = accepted
  <2>1. Run(wire, 0)
    BY DEF Ordered, Run, Stream
  <2>2. wire \o rest \in Seq(Byte) /\ Len(wire \o rest) = Len(wire) + Len(rest) /\ Run(wire \o rest, 0)
    BY <1>1, <1>2, <2>1, RunConcat
  <2>3. Len(wire) + Len(rest) + Len(sendList) = accepted /\ Run(sendList, Len(wire) + Len(rest))
    BY <1>2 DEF Queued
  <2>4. Len(wire) + Len(rest) \in Nat /\ 0 + (Len(wire) + Len(rest)) = Len(wire) + Len(rest)
    BY <1>1, LenProperties
  <2>5. /\ Len((wire \o rest) \o sendList) = Len(wire \o rest) + Len(sendList)
        /\ Run((wire \o rest) \o sendList, 0)
    BY <1>1, <2>2, <2>3, <2>4, RunConcat
  <2>6. QED BY <2>2, <2>3, <2>5 DEF Run, Stream
<1>3. CASE \E w \in Workers : pc[w] = "senddone"
  <2>1. c \in Workers /\ pc[c] = "senddone"
    BY <1>3
  <2>2. Run(Unsent(c), Len(wire)) /\ Queued(Len(wire) + Len(Unsent(c)))
    BY <2>1 DEF Ordered, InFlight
  <2>3. Unsent(c) \in Seq(Byte)
    BY <2>1, UnsentType DEF Typed
  <2>4. QED BY <1>2, <1>3, <2>2, <2>3
<1>4. CASE ~\E w \in Workers : pc[w] = "senddone"
  <2>1. Run(localList, Len(wire)) /\ Queued(Len(wire) + Len(localList))
    <3>1. CASE \E w \in Workers : pc[w] = "writev"
      BY <3>1 DEF Ordered, InFlight, Unsent
    <3>2. CASE ~\E w \in Workers : pc[w] = "writev"
      <4>1. localList = <<>> /\ Queued(Len(wire))
        BY <1>4, <3>2 DEF Ordered, InFlight
      <4>2. Len(wire) + Len(localList) = Len(wire)
        BY <1>1, <4>1
      <4>3. QED BY <4>1, <4>2 DEF Run
    <3>3. QED BY <3>1, <3>2
  <2>2. QED BY <1>1, <1>2, <1>4, <2>1
<1>5. QED BY <1>3, <1>4

LEMMA OrderedInit == Init => Ordered
  BY EmptySeq DEF Init, Ordered, InFlight, Queued, Run, Stream

\* What Send took goes out in the order of the calls, whole and once, whatever is sent
\* while a writev is under way and however much of its list each writev takes
\* (TCPSocket.cpp:715-720, 747-764, 777; TCPSocket.h:169-180).
THEOREM BytesGoOutInOrder == Safety => []ByteOrder
  BY OrderedInit, TypedAlways, OrderedStep, OrderedIsByteOrder, PTL DEF Safety

-----------------------------------------------------------------------------
(* SendAndClose cuts nothing off.                                              *)

\* Once the worker has read that the list is empty and closedOnFlush set, no Send is
\* accepted, and nobody else writes.
Flushed ==
  \A w \in Workers : pc[w] = "flushcb" /\ cof[w] => closedOnFlush /\ Len(wire) = accepted

LEMMA FlushedQuiet ==
  ASSUME TypeOK, Flushed, UNCHANGED <<wire, accepted>>, closedOnFlush => closedOnFlush',
         \A v \in Workers : pc'[v] = "flushcb" => pc[v] = "flushcb" /\ cof'[v] = cof[v]
  PROVE  Flushed'
  BY DEF Flushed

LEMMA FlushedUser ==
  ASSUME TypeOK, Flushed, User \/ UserPost \/ UserCloseEnd \/ Peer \/ Poller \/ UNCHANGED vars
  PROVE  Flushed'
<1>1. ASSUME NEW len \in 1 .. MaxMsg, NEW andClose \in BOOLEAN, Send(len, andClose)
      PROVE  Flushed'
  <2>1. ~closedOnFlush /\ pc' = pc /\ cof' = cof
    BY <1>1, Zenon DEF Send, localVars
  <2>2. QED BY <2>1 DEF Flushed
<1>2. CASE UNCHANGED vars \/ Start \/ Recv \/ Shutdown \/ UserCloseBegin \/ UserPost \/ UserCloseEnd
           \/ Peer \/ Poller
  <2>1. UNCHANGED <<wire, accepted, closedOnFlush, pc, cof>>
    BY <1>2, Zenon
    DEF vars, Start, Recv, Shutdown, UserCloseBegin, CloseBegin, UserPost, UserCloseEnd, CloseEnd,
        Peer, PeerSend, PeerRead, PeerBreak, Poller, PollWait, PollDisable, OnActive, PollPost,
        sendVars, txVars, localVars
  <2>2. QED BY <2>1, FlushedQuiet
<1>3. QED BY <1>1, <1>2 DEF User

\* The list was found empty: what is on the wire is all that was accepted.
LEMMA FlushedDone ==
  ASSUME Typed, Ordered, Flushed, NEW w \in Workers, SendDone(w)
  PROVE  Flushed'
<1>1. /\ UNCHANGED <<wire, accepted, closedOnFlush>> /\ pc[w] = "senddone"
      /\ cof' = [cof EXCEPT ![w] = closedOnFlush]
  BY Zenon DEF SendDone, txVars
<1>2. /\ pc \in [Workers -> Places] /\ cof \in [Workers -> BOOLEAN]
      /\ Len(wire) \in Nat
  BY LenProperties DEF Typed, TypeOK
<1>3. \A v \in Workers : v # w => pc[v] = "idle"
  BY <1>1, DataPathAlone DEF Typed, DataPath, Places
<1>4. CASE sendList' = <<>>
  <2>1. Len(wire) = accepted
    <3>1. Queued(Len(wire))'
      BY OrderedAddFront
    <3>2. Len(sendList') = 0
      BY <1>4
    <3>3. Len(wire) + 0 = accepted
      BY <1>1, <3>1, <3>2 DEF Queued
    <3>4. QED BY <1>2, <3>3
  <2>2. \E p \in Places : Goto(w, p)
    <3>1. Goto(w, IF FlushCb THEN "flushcb" ELSE "loop")
      BY <1>4, Zenon DEF SendDone
    <3>2. QED BY <3>1 DEF Places
  <2>3. \A v \in Workers : pc'[v] = "flushcb" => v = w
    BY <1>2, <1>3, <2>2 DEF Goto
  <2>4. cof'[w] = closedOnFlush
    BY <1>1, <1>2
  <2>5. QED BY <1>1, <2>1, <2>3, <2>4 DEF Flushed
<1>5. CASE sendList' # <<>>
  <2>1. Goto(w, "loop")
    BY <1>5, Zenon DEF SendDone
  <2>2. \A v \in Workers : pc'[v] # "flushcb"
    BY <1>2, <1>3, <2>1 DEF Goto
  <2>3. QED BY <2>2 DEF Flushed
<1>6. QED BY <1>4, <1>5

LEMMA FlushedWorker ==
  ASSUME Typed, Flushed, NEW w \in Workers, Worker(w), ~SendDone(w)
  PROVE  Flushed'
<1> USE DEF sendVars, txVars, localVars
<1>0. pc \in [Workers -> Places] /\ cof \in [Workers -> BOOLEAN]
  BY DEF Typed, TypeOK
<1>1. CASE Writev(w)
  <2>1. pc[w] = "writev" /\ Goto(w, "senddone")
    BY <1>1, Zenon DEF Writev
  <2>2. \A v \in Workers : v # w => pc[v] = "idle"
    BY <2>1, DataPathAlone DEF Typed, DataPath, Places
  <2>3. \A v \in Workers : pc'[v] # "flushcb"
    BY <1>0, <2>1, <2>2 DEF Goto
  <2>4. QED BY <2>3 DEF Flushed
<1>2. CASE ~Writev(w)
  <2>1. UNCHANGED <<wire, accepted, closedOnFlush>>
    BY <1>2, Zenon
    DEF Worker, DoEnter, DoReturn, DoSeesClosed, DoRound, DoRepost, RecvLock, Read, RecvCallback,
        RecvFail, ReportError, SendLock, SendAgain, SendFail, Enable, SendCallback,
        WorkerCloseBegin, CloseBegin, WorkerCloseEnd, CloseEnd, WorkerCloseAgain, DoClose,
        CloseCallback
  <2>2. cof' = cof \/ \E b : cof' = [cof EXCEPT ![w] = b]
    BY <1>2, Zenon
    DEF Worker, DoEnter, DoReturn, DoSeesClosed, DoRound, DoRepost, RecvLock, Read, RecvCallback,
        RecvFail, ReportError, SendLock, SendAgain, SendFail, Enable, SendCallback,
        WorkerCloseBegin, CloseBegin, WorkerCloseEnd, CloseEnd, WorkerCloseAgain, DoClose,
        CloseCallback
  <2>3. \E p \in Places \ {"flushcb"} : Goto(w, p)
    <3>1. CASE SendLock(w) \/ SendAgain(w) \/ Enable(w) \/ SendFail(w)
      <4>1. Goto(w, "writev") \/ Goto(w, "highwater") \/ Goto(w, "loop") \/ Goto(w, "enable")
            \/ Goto(w, "error")
        BY <3>1, Zenon DEF SendLock, SendAgain, AfterAgain, Enable, SendFail
      <4>2. QED BY <4>1 DEF Places
    <3>2. CASE ~(SendLock(w) \/ SendAgain(w) \/ Enable(w) \/ SendFail(w))
      BY <1>2, <3>2
      DEF Worker, DoEnter, DoReturn, DoSeesClosed, DoRound, DoRepost, RecvLock, Read, RecvCallback,
          RecvFail, ReportError, AfterError, SendCallback, AfterFlush, AfterStep, WorkerCloseBegin,
          WorkerCloseEnd, WorkerCloseAgain, DoClose, CloseCallback, Places
    <3>3. QED BY <3>1, <3>2
  <2>4. \A v \in Workers : pc'[v] = "flushcb" => v # w /\ pc[v] = "flushcb" /\ cof'[v] = cof[v]
    BY <1>0, <2>2, <2>3 DEF Goto
  <2>5. QED BY <2>1, <2>4, FlushedQuiet DEF Typed
<1>3. QED BY <1>1, <1>2

-----------------------------------------------------------------------------
\* Neither an edge of the descriptor nor the close is ever lost, whatever the poller, the
\* workers, the callers and the peer do meanwhile: what the socket does not know of will be
\* told, by an event or by a Do task; and SendAndClose closes only when all is written
\* (TCPSocket.cpp:401, 489-507, 739, 776-799, 812, 987-991, 1053).
THEOREM NothingIsLost == Safety => []NothingLost
<1> DEFINE Kept == /\ CloseCovered /\ PevKnown /\ ReadEventNotLost /\ WriteEventNotLost
                   /\ Ordered /\ Flushed
<1>1. Init => Kept
  <2>1. Init => CloseCovered /\ PevKnown /\ ReadEventNotLost /\ WriteEventNotLost
    BY DEF Init, CloseCovered, PevKnown, ReadEventNotLost, WriteEventNotLost
  <2>2. Init => Ordered /\ Flushed
    BY OrderedInit DEF Init, Flushed
  <2>3. QED BY <2>1, <2>2
<1>2. Typed /\ Kept /\ [Next]_vars => Kept'
  <2> SUFFICES ASSUME Typed, Kept, [Next]_vars PROVE Kept'
    OBVIOUS
  <2>1. /\ TypeOK /\ CloseCovered /\ PevKnown /\ ReadEventNotLost /\ WriteEventNotLost
        /\ Ordered /\ Flushed
    BY DEF Typed
  <2>2. Flushed'
    <3>1. CASE User \/ UserPost \/ UserCloseEnd \/ Peer \/ Poller \/ UNCHANGED vars
      BY <2>1, <3>1, FlushedUser
    <3>2. ASSUME NEW w \in Workers, Worker(w) PROVE Flushed'
      BY <2>1, <3>2, FlushedDone, FlushedWorker
    <3>3. QED BY <3>1, <3>2 DEF Next
  <2>3. QED
    BY <2>1, <2>2, CloseCoveredStep, PevStep, ReadEventStep, WriteEventStep, OrderedStep
<1>3. Kept => NothingLost
  BY DEF CloseCovered, CloseNotLost, Flushed, FlushedFirst, NothingLost
<1> HIDE DEF Kept
<1>4. QED BY <1>1, <1>2, <1>3, TypedAlways, PTL DEF Safety

-----------------------------------------------------------------------------
\* Neither side mixes up what it carries: bytes go out in the order of the Sends, and buffers
\* come back in the order of the Recvs (TCPSocket.cpp:715-720, 747-764, 777, 956-959, 988).
THEOREM OrderIsKept == Safety => []OrderKept
  BY BuffersComeBackInOrder, BytesGoOutInOrder, PTL DEF OrderKept

-----------------------------------------------------------------------------
(* The sending side is a byte stream.                                          *)

Numbers(list) == [i \in 1 .. Len(list) |-> list[i].pos]

\* The next bytes of the stream have the next numbers.
LEMMA NumbersGrow ==
  ASSUME NEW a \in Seq(Byte), NEW b \in Seq(Byte), Run(b, Len(a))
  PROVE  /\ Numbers(a \o b) = Numbers(a) \o [i \in 1 .. Len(b) |-> Len(Numbers(a)) + i]
         /\ Len(Numbers(a)) = Len(a)
<1> DEFINE f == Numbers(a)
           g == [i \in 1 .. Len(b) |-> Len(f) + i]
           h == Numbers(a \o b)
<1>1. /\ a \o b \in Seq(Byte) /\ Len(a \o b) = Len(a) + Len(b)
      /\ \A i \in 1 .. Len(a) + Len(b) :
           (a \o b)[i] = IF i <= Len(a) THEN a[i] ELSE b[i - Len(a)]
  BY ConcatProperties
<1>2. /\ Len(a) \in Nat /\ \A i \in 1 .. Len(a) : a[i].pos \in Nat
      /\ Len(b) \in Nat /\ \A i \in 1 .. Len(b) : b[i].pos = Len(a) + i
      /\ \A i \in 1 .. Len(a \o b) : (a \o b)[i].pos \in Nat
  <2>1. ASSUME NEW s \in Seq(Byte) PROVE Len(s) \in Nat /\ \A i \in 1 .. Len(s) : s[i].pos \in Nat
    <3>1. Len(s) \in Nat /\ \A i \in 1 .. Len(s) : s[i] \in Byte
      BY LenProperties
    <3>2. \A m \in Byte : m.pos \in Nat
      BY SizesAssumption DEF Byte
    <3>3. QED BY <3>1, <3>2
  <2>2. QED BY <1>1, <2>1 DEF Run
<1>3. f \in Seq(Nat) /\ Len(f) = Len(a) /\ \A i \in 1 .. Len(a) : f[i] = a[i].pos
  BY <1>2 DEF Numbers
<1> HIDE DEF f
<1>4. g \in Seq(Nat) /\ Len(g) = Len(b) /\ \A i \in 1 .. Len(b) : g[i] = Len(a) + i
  BY <1>2, <1>3
<1> HIDE DEF g
<1>5. /\ h \in Seq(Nat) /\ Len(h) = Len(a) + Len(b)
      /\ \A i \in 1 .. Len(a) + Len(b) : h[i] = (a \o b)[i].pos
  BY <1>1, <1>2 DEF Numbers
<1> HIDE DEF h
<1>6. /\ f \o g \in Seq(Nat) /\ Len(f \o g) = Len(a) + Len(b)
      /\ \A i \in 1 .. Len(a) + Len(b) : (f \o g)[i] = IF i <= Len(a) THEN f[i] ELSE g[i - Len(a)]
  <2>1. \A s, t \in Seq(Nat) :
          /\ s \o t \in Seq(Nat) /\ Len(s \o t) = Len(s) + Len(t)
          /\ \A i \in 1 .. Len(s) + Len(t) :
               (s \o t)[i] = IF i <= Len(s) THEN s[i] ELSE t[i - Len(s)]
    BY ConcatProperties
  <2>2. /\ f \o g \in Seq(Nat) /\ Len(f \o g) = Len(f) + Len(g)
        /\ \A i \in 1 .. Len(f) + Len(g) :
             (f \o g)[i] = IF i <= Len(f) THEN f[i] ELSE g[i - Len(f)]
    BY <1>3, <1>4, <2>1, Zenon
  <2>3. QED BY <1>3, <1>4, <2>2
<1>7. ASSUME NEW i \in 1 .. Len(a) + Len(b) PROVE h[i] = (f \o g)[i]
  <2>1. CASE i <= Len(a)
    <3>1. i \in 1 .. Len(a)
      BY <1>2, <2>1
    <3>2. QED BY <1>1, <1>3, <1>5, <1>6, <2>1, <3>1
  <2>2. CASE ~(i <= Len(a))
    <3>1. i - Len(a) \in 1 .. Len(b) /\ Len(a) + (i - Len(a)) = i
      BY <1>2, <2>2
    <3>2. h[i] = b[i - Len(a)].pos /\ (f \o g)[i] = g[i - Len(a)]
      BY <1>1, <1>5, <1>6, <2>2
    <3>3. QED BY <1>2, <1>4, <3>1, <3>2
  <2>3. QED BY <2>1, <2>2
<1>8. h = f \o g
  BY <1>5, <1>6, <1>7, SeqEqual
<1>9. QED BY <1>3, <1>8 DEF f, g, h

\* A step that moves no byte and takes none: the stream ends, if it had not, or goes on.
LEMMA StreamQuiet ==
  ASSUME UNCHANGED <<wire, accepted, closedOnFlush>>, closed => closed', shutdown => shutdown'
  PROVE  [Out!Next]_(Out!vars)
<1> DEFINE accepting == ~closed /\ ~shutdown /\ ~closedOnFlush
<1>1. Numbers(wire)' = Numbers(wire)
  BY DEF Numbers
<1>2. CASE accepting /\ ~accepting'
  <2>1. accepting' = FALSE
    BY <1>2
  <2>2. Out!End
    BY <1>1, <1>2, <2>1, Zenon DEF Out!End, Numbers
  <2>3. QED BY <2>2 DEF Out!Next
<1>3. CASE ~(accepting /\ ~accepting')
  <2>1. accepting' = accepting
    BY <1>3
  <2>2. UNCHANGED Out!vars
    BY <1>1, <2>1, Zenon DEF Out!vars, Numbers
  <2>3. QED BY <2>2
<1>4. QED BY <1>2, <1>3

\* Send takes a message from a stream that accepts.
LEMMA StreamSend ==
  ASSUME NEW len \in 1 .. MaxMsg, NEW andClose \in BOOLEAN, Send(len, andClose)
  PROVE  Out!Next
<1>1. /\ ~closed /\ ~shutdown /\ ~closedOnFlush
      /\ wire' = wire /\ accepted' = accepted + len
  BY Zenon DEF Send, txVars
<1>2. Numbers(wire)' = Numbers(wire)
  BY <1>1 DEF Numbers
<1>3. Out!Take(len)
  BY <1>1, <1>2, Zenon DEF Out!Take, Numbers
<1>4. QED BY <1>3 DEF Out!Next

\* A writev that took bytes gives the next ones of the stream, none that was not accepted.
LEMMA StreamWritev ==
  ASSUME Typed, Ordered, NEW w \in Workers, Writev(w)
  PROVE  [Out!Next]_(Out!vars)
<1>1. pc[w] = "writev" /\ UNCHANGED <<accepted, closed, shutdown, closedOnFlush>>
  BY Zenon DEF Writev
<1>2. /\ wire \in Seq(Byte) /\ localList \in Seq(Byte) /\ sendList \in Seq(Byte)
      /\ Len(wire) \in Nat /\ Len(localList) \in Nat /\ Len(sendList) \in Nat /\ accepted \in Nat
  BY LenProperties, SizesAssumption DEF Typed, TypeOK
<1>3. Run(localList, Len(wire)) /\ Queued(Len(wire) + Len(localList))
  BY <1>1 DEF Ordered, InFlight, Unsent
<1>4. wire' = wire \/ \E n \in InIov(localList) : wire' = wire \o SubSeq(localList, 1, n)
  BY Zenon DEF Writev
<1>5. CASE wire' = wire
  BY <1>1, <1>5, StreamQuiet
<1>6. ASSUME NEW n \in InIov(localList), wire' = wire \o SubSeq(localList, 1, n)
      PROVE  [Out!Next]_(Out!vars)
  <2> DEFINE new == SubSeq(localList, 1, n)
  <2>1. n \in 0 .. Len(localList)
    BY <1>2, IovBound
  <2>2. new \in Seq(Byte) /\ Len(new) = n /\ Run(new, Len(wire))
    BY <1>2, <1>3, <2>1, RunCut
  <2> HIDE DEF new
  <2>3. CASE n = 0
    <3>1. new = <<>>
      BY <2>2, <2>3, EmptySeq
    <3>2. wire' = wire
      BY <1>2, <1>6, <3>1, ConcatEmptySeq DEF new
    <3>3. QED BY <1>5, <3>2
  <2>4. CASE n > 0
    <3>1. \A a, b \in Seq(Byte) : Run(b, Len(a)) =>
            /\ Numbers(a \o b) = Numbers(a) \o [i \in 1 .. Len(b) |-> Len(Numbers(a)) + i]
            /\ Len(Numbers(a)) = Len(a)
      BY NumbersGrow
    <3>2. /\ Numbers(wire \o new) = Numbers(wire) \o [i \in 1 .. n |-> Len(Numbers(wire)) + i]
          /\ Len(Numbers(wire)) = Len(wire)
      BY <1>2, <2>2, <3>1, Zenon
    <3>3. Numbers(wire)' = Numbers(wire) \o [i \in 1 .. n |-> Len(Numbers(wire)) + i]
      BY <1>6, <3>2 DEF new, Numbers
    <3>4. Out!Give(n)
      BY <1>1, <3>3, Zenon DEF Out!Give, Numbers
    <3>5. n \in 1 .. accepted - Len(Numbers(wire))
      BY <1>2, <1>3, <2>1, <2>4, <3>2 DEF Queued
    <3>6. QED BY <3>4, <3>5, Zenon DEF Out!Next, Numbers
  <2>5. QED BY <2>1, <2>3, <2>4
<1>7. QED BY <1>4, <1>5, <1>6

\* Whoever neither sends nor writes leaves the bytes alone; once ended, the stream stays so.
LEMMA StreamOther ==
  ASSUME [Next]_vars,
         ~\E len \in 1 .. MaxMsg, andClose \in BOOLEAN : Send(len, andClose),
         ~\E w \in Workers : Writev(w)
  PROVE  [Out!Next]_(Out!vars)
<1> USE DEF sendVars, txVars
<1>1. CASE UNCHANGED vars \/ Start \/ Recv \/ Shutdown \/ UserCloseBegin \/ UserPost \/ UserCloseEnd
           \/ Peer \/ Poller
  <2>1. UNCHANGED <<wire, accepted, closedOnFlush>>
    BY <1>1, Zenon
    DEF vars, Start, Recv, Shutdown, UserCloseBegin, CloseBegin, UserPost, UserCloseEnd, CloseEnd,
        Peer, PeerSend, PeerRead, PeerBreak, Poller, PollWait, PollDisable, OnActive, PollPost
  <2>2. (closed' = closed \/ closed' = TRUE) /\ (shutdown' = shutdown \/ shutdown' = TRUE)
    BY <1>1, Zenon
    DEF vars, Start, Recv, Shutdown, UserCloseBegin, CloseBegin, UserPost, UserCloseEnd, CloseEnd,
        Peer, PeerSend, PeerRead, PeerBreak, Poller, PollWait, PollDisable, OnActive, PollPost
  <2>3. QED BY <2>1, <2>2, StreamQuiet
<1>2. ASSUME NEW w \in Workers, Worker(w) PROVE [Out!Next]_(Out!vars)
  <2>1. UNCHANGED <<wire, accepted, closedOnFlush>>
    BY <1>2, Zenon
    DEF Worker, DoEnter, DoReturn, DoSeesClosed, DoRound, DoRepost, RecvLock, Read, RecvCallback,
        RecvFail, ReportError, SendLock, SendDone, SendAgain, SendFail, Enable, SendCallback,
        WorkerCloseBegin, CloseBegin, WorkerCloseEnd, CloseEnd, WorkerCloseAgain, DoClose,
        CloseCallback
  <2>2. (closed' = closed \/ closed' = TRUE) /\ shutdown' = shutdown
    BY <1>2, Zenon
    DEF Worker, DoEnter, DoReturn, DoSeesClosed, DoRound, DoRepost, RecvLock, Read, RecvCallback,
        RecvFail, ReportError, SendLock, SendDone, SendAgain, SendFail, Enable, SendCallback,
        WorkerCloseBegin, CloseBegin, WorkerCloseEnd, CloseEnd, WorkerCloseAgain, DoClose,
        CloseCallback
  <2>3. QED BY <2>1, <2>2, StreamQuiet
<1>3. QED BY <1>1, <1>2 DEF Next, User

LEMMA StreamStep == Typed /\ Ordered /\ [Next]_vars => [Out!Next]_(Out!vars)
  BY StreamSend, StreamWritev, StreamOther

LEMMA StreamInit == Init => Out!Init
<1> SUFFICES ASSUME Init PROVE Out!Init
  OBVIOUS
<1>1. wire = <<>> /\ accepted = 0 /\ closed = FALSE /\ shutdown = FALSE /\ closedOnFlush = FALSE
  BY DEF Init
<1>2. Numbers(wire) = <<>>
  BY <1>1 DEF Numbers
<1>3. QED BY <1>1, <1>2 DEF Out!Init, Numbers

\* The socket implements a byte stream, step by step: what the two lists, the swap, the
\* partial writevs and the poller do between a Send and the connection cannot be told from a
\* queue that gives its bytes in order and takes none after its end
\* (TCPSocket.cpp:400-420, 693-816, 1014-1061).
THEOREM ImplementsByteStream == Safety => SendsAsByteStream
<1>1. Typed /\ Ordered /\ [Next]_vars => Ordered'
  BY OrderedStep
<1>2. QED
  BY OrderedInit, TypedAlways, <1>1, StreamInit, StreamStep, PTL
  DEF Safety, SendsAsByteStream, Out!Spec
=============================================================================
