-------------------------- MODULE TCPListenerProofs --------------------------
(* Theorems about TCPListener, for any workers, connections, errors and Starts.  *)
EXTENDS TCPListener, FiniteSetTheorems, TLAPS

Busy == {w \in Workers : wpc[w] # "idle"}

\* The inductive invariant: who is in Do is finite and counted, a Do that was left
\* with doing set leaves it so, and no more connections wait than arrived.
Counting ==
  /\ OneAcceptor /\ IsFiniteSet(Busy) /\ (quit => doing) /\ backlog <= arrived
  /\ posted \in Nat

-----------------------------------------------------------------------------
LEMMA CountingInit == ASSUME BoundsAssumption PROVE Init => Counting
  <1>. SUFFICES ASSUME Init
                PROVE  Counting
    OBVIOUS
  <1>1. hasOnError \in BOOLEAN
    BY DEF Init
  <1>2. Busy = {} /\ IsFiniteSet({}) /\ Cardinality({}) = 0
    BY FS_EmptySet DEF Init, Busy
  <1>3. Tasks = 0
    BY <1>2 DEF Init, Tasks, Busy
  <1>4. TypeOK
    <2>1. {hasOnError, started, stop, doing, bound, inEpoll, edge, quit} \subseteq BOOLEAN
      BY <1>1, Zenon DEF Init
    <2>. QED
      BY <2>1 DEF Init, TypeOK, BoundsAssumption
  <1>. QED
    BY <1>2, <1>3, <1>4 DEF Init, Counting, OneAcceptor

\* What a worker that goes from one place to another does to those in Do.
LEMMA Moving ==
  ASSUME Counting, NEW w \in Workers, NEW p, Goto(w, p)
  PROVE  /\ IsFiniteSet(Busy') /\ Cardinality(Busy) \in Nat /\ Cardinality(Busy') \in Nat
         /\ wpc[w] # "idle" /\ p # "idle" => Cardinality(Busy') = Cardinality(Busy)
         /\ wpc[w] # "idle" /\ p = "idle" => Cardinality(Busy') = Cardinality(Busy) - 1
         /\ wpc[w] = "idle" /\ p # "idle" => Cardinality(Busy') = Cardinality(Busy) + 1
  <1>1. /\ wpc'[w] = p /\ \A v \in Workers \ {w} : wpc'[v] = wpc[v]
        /\ IsFiniteSet(Busy)
    BY DEF Counting, OneAcceptor, TypeOK, Goto
  <1>2. Busy' = IF p # "idle" THEN Busy \cup {w} ELSE Busy \ {w}
    BY <1>1 DEF Busy
  <1>3. w \in Busy <=> wpc[w] # "idle"
    BY DEF Busy
  <1>4. /\ IsFiniteSet(Busy \cup {w}) /\ IsFiniteSet(Busy \ {w})
        /\ Cardinality(Busy \cup {w}) = IF w \in Busy THEN Cardinality(Busy) ELSE Cardinality(Busy) + 1
        /\ Cardinality(Busy \ {w}) = IF w \in Busy THEN Cardinality(Busy) - 1 ELSE Cardinality(Busy)
    BY <1>1, FS_AddElement, FS_RemoveElement
  <1>5. Cardinality(Busy) \in Nat /\ Cardinality(Busy') \in Nat
    BY <1>1, <1>2, <1>4, FS_CardinalityType
  <1>. QED
    BY <1>2, <1>3, <1>4, <1>5

\* A step that leaves Do, its claim and its tasks alone.
LEMMA Undisturbed ==
  ASSUME Counting, TypeOK', UNCHANGED <<wpc, posted, doing, quit>>,
         (ppc' = "post") = (ppc = "post"), backlog' <= arrived'
  PROVE  Counting'
  <1>1. Busy' = Busy /\ Tasks' = Tasks
    BY DEF Busy, Tasks
  <1>. QED
    BY <1>1 DEF Counting, OneAcceptor

-----------------------------------------------------------------------------
(* The threads outside Do.                                                     *)

LEMMA OutsideKeeps ==
  ASSUME BoundsAssumption, Counting,
         StartClaim \/ User \/ StopClaim \/ Stopper \/ Arrive \/ EpollWait, hasOnError' = hasOnError
  PROVE  Counting'
  <1>. USE DEF Counting, OneAcceptor, BoundsAssumption, listenerVars, userVars, workVars, kernelVars
  <1>1. UNCHANGED <<wpc, posted, doing, quit>> /\ (ppc' = "post") = (ppc = "post")
    BY DEF StartClaim, User, StartSocket, StartBind, StartAdd, StartEnd, StopClaim, Stopper,
           StopRemove, StopClose, Arrive, EpollWait
  <1>2. backlog' <= arrived' /\ backlog' \in Nat /\ arrived' \in 0 .. MaxConn
    BY DEF TypeOK, StartClaim, User, StartSocket, StartBind, StartAdd, StartEnd, StopClaim, Stopper,
           StopRemove, StopClose, Arrive, EpollWait
  <1>3. {hasOnError, started, stop, doing, bound, inEpoll, edge, quit}' \subseteq BOOLEAN
    BY Zenon DEF TypeOK, StartClaim, User, StartSocket, StartBind, StartAdd, StartEnd, StopClaim,
           Stopper, StopRemove, StopClose, Arrive, EpollWait
  <1>4. starts' \in 0 .. MaxStart /\ errors' = errors
    BY DEF TypeOK, StartClaim, User, StartSocket, StartBind, StartAdd, StartEnd, StopClaim,
           Stopper, StopRemove, StopClose, Arrive, EpollWait
  <1>5. TypeOK'
    BY <1>1, <1>2, <1>3, <1>4 DEF TypeOK, StartClaim, User, StartSocket, StartBind, StartAdd, StartEnd,
           StopClaim, Stopper, StopRemove, StopClose, Arrive, EpollWait
  <1>. QED
    BY <1>1, <1>2, <1>5, Undisturbed

\* OnActive claims when nobody has, and the claim is posted once.
LEMMA PollKeeps ==
  ASSUME Counting, OnActive \/ Post, hasOnError' = hasOnError
  PROVE  Counting'
  <1>. USE DEF listenerVars, userVars, workVars, kernelVars
  <1>1. Busy' = Busy /\ Cardinality(Busy) \in Nat /\ posted \in Nat
    BY FS_CardinalityType DEF Counting, Busy, OnActive, Post
  <1>2. TypeOK /\ Tasks = IF doing /\ ~quit THEN 1 ELSE 0
    BY DEF Counting, OneAcceptor
  <1>3. Tasks = posted + Cardinality(Busy) + IF ppc = "post" THEN 1 ELSE 0
    BY DEF Tasks, Busy
  <1>4. Tasks' = posted' + Cardinality(Busy) + IF ppc' = "post" THEN 1 ELSE 0
    BY <1>1 DEF Tasks, Busy
  <1>5. CASE OnActive
    <2>1. Tasks' = IF doing' /\ ~quit' THEN 1 ELSE 0
      BY <1>1, <1>2, <1>3, <1>4, <1>5 DEF OnActive, Unclaimed, Counting, TypeOK
    <2>2. TypeOK'
      BY <1>2, <1>5 DEF OnActive, Counted, TypeOK
    <2>. QED
      BY <1>1, <1>5, <2>1, <2>2 DEF OnActive, Counting, OneAcceptor
  <1>6. CASE Post
    <2>1. Tasks' = IF doing' /\ ~quit' THEN 1 ELSE 0
      BY <1>1, <1>2, <1>3, <1>4, <1>6 DEF Post
    <2>2. posted' \in 0 .. 1
      BY <1>1, <1>2, <1>3, <1>6 DEF Post
    <2>3. TypeOK'
      BY <1>2, <1>6, <2>2 DEF Post, TypeOK
    <2>. QED
      BY <1>1, <1>6, <2>1, <2>2, <2>3 DEF Post, Counting, OneAcceptor
  <1>. QED
    BY <1>5, <1>6

-----------------------------------------------------------------------------
(* Do.                                                                         *)

Within == {"copy", "accept", "again", "called", "check"}

\* Whoever is in Do has the claim.
LEMMA BusyClaims ==
  ASSUME Counting, NEW w \in Workers, wpc[w] # "idle" \/ posted > 0
  PROVE  doing /\ ~quit
  <1>1. Tasks = posted + Cardinality(Busy) + IF ppc = "post" THEN 1 ELSE 0
    BY DEF Tasks, Busy
  <1>2. IsFiniteSet(Busy) /\ Cardinality(Busy) \in Nat /\ posted \in Nat
    BY FS_CardinalityType DEF Counting
  <1>3. wpc[w] # "idle" => Cardinality(Busy) # 0
    BY <1>2, FS_EmptySet DEF Busy
  <1>4. Tasks # 0
    BY <1>1, <1>2, <1>3
  <1>. QED
    BY <1>4 DEF Counting, OneAcceptor

\* A worker that goes on inside Do, one that comes in, and one that leaves: it gives the claim
\* back or quits.
LEMMA WorkerCounts ==
  ASSUME Counting, TypeOK', NEW w \in Workers, NEW p \in Within \cup {"idle"}, Goto(w, p),
         ppc' = ppc, quit' => doing', backlog' <= arrived',
         \/ p # "idle" /\ wpc[w] # "idle" /\ UNCHANGED <<posted, doing, quit>>
         \/ p # "idle" /\ wpc[w] = "idle" /\ posted' = posted - 1 /\ UNCHANGED <<doing, quit>>
         \/ p = "idle" /\ wpc[w] # "idle" /\ posted' = posted /\ (~doing' \/ quit')
  PROVE  Counting'
  <1>1. /\ Tasks = posted + Cardinality(Busy) + IF ppc = "post" THEN 1 ELSE 0
        /\ Tasks' = posted' + Cardinality(Busy') + IF ppc' = "post" THEN 1 ELSE 0
    BY DEF Tasks, Busy
  <1>2. posted \in Nat /\ posted' \in Nat
    BY DEF Counting, TypeOK
  <1>3. IsFiniteSet(Busy') /\ Cardinality(Busy) \in Nat /\ Cardinality(Busy') \in Nat
    BY Moving
  <1>4. Tasks = IF doing /\ ~quit THEN 1 ELSE 0
    BY DEF Counting, OneAcceptor
  <1>5. Tasks' = IF doing' /\ ~quit' THEN 1 ELSE 0
    <2>1. CASE p # "idle" /\ wpc[w] # "idle" /\ UNCHANGED <<posted, doing, quit>>
      <3>1. Cardinality(Busy') = Cardinality(Busy)
        BY <2>1, Moving
      <3>. QED
        BY <1>1, <1>4, <2>1, <3>1
    <2>2. CASE p # "idle" /\ wpc[w] = "idle" /\ posted' = posted - 1 /\ UNCHANGED <<doing, quit>>
      <3>1. Cardinality(Busy') = Cardinality(Busy) + 1
        BY <2>2, Moving
      <3>2. Tasks' = Tasks
        BY <1>1, <1>2, <1>3, <2>2, <3>1
      <3>. QED
        BY <1>4, <2>2, <3>2
    <2>3. CASE p = "idle" /\ wpc[w] # "idle" /\ posted' = posted /\ (~doing' \/ quit')
      <3>1. Cardinality(Busy') = Cardinality(Busy) - 1
        BY <2>3, Moving
      <3>2. Tasks = 1
        BY <1>4, <2>3, BusyClaims
      <3>3. Tasks' = 0
        BY <1>1, <1>2, <1>3, <2>3, <3>1, <3>2
      <3>. QED
        BY <2>3, <3>3
    <2>. QED
      BY <2>1, <2>2, <2>3
  <1>. QED
    BY <1>2, <1>3, <1>5 DEF Counting, OneAcceptor

LEMMA WorkerKeeps ==
  ASSUME BoundsAssumption, Counting, NEW w \in Workers, Worker(w), hasOnError' = hasOnError
  PROVE  Counting'
  <1>. USE DEF listenerVars, userVars, workVars, kernelVars
  <1>0. TypeOK /\ posted \in Nat /\ backlog <= arrived /\ (quit => doing)
    BY DEF Counting, OneAcceptor
  <1>1. CASE DoEnter(w)
    <2>1. TypeOK'
      BY <1>0, <1>1 DEF DoEnter, TypeOK, Goto
    <2>. QED
      BY <1>0, <1>1, <2>1, WorkerCounts DEF DoEnter, Within
  <1>2. CASE CopyVersion(w)
    <2>1. TypeOK'
      BY <1>0, <1>2 DEF CopyVersion, TypeOK, Goto
    <2>. QED
      BY <1>0, <1>2, <2>1, WorkerCounts DEF CopyVersion, Within
  <1>3. CASE Accept(w)
    <2>1. wpc[w] = "accept" /\ doing' = doing /\ doing /\ ~quit
      BY <1>3, BusyClaims DEF Accept
    <2>2. PICK p \in Within \cup {"idle"} :
            Goto(w, p) /\ ((p # "idle" /\ quit' = quit) \/ (p = "idle" /\ quit' = TRUE))
      BY <1>3 DEF Accept, Fail, Within
    <2>3. backlog' \in 0 .. MaxConn /\ errors' \in 0 .. MaxErrors /\ backlog' <= arrived'
      BY <1>0, <1>3 DEF Accept, TypeOK, BoundsAssumption
    <2>4. quit' \in BOOLEAN /\ wpc' \in [Workers -> {"idle", "copy", "accept", "again", "called", "check"}]
      BY <1>0, <2>2 DEF TypeOK, Goto, Within
    <2>5. TypeOK'
      BY <1>0, <1>3, <2>3, <2>4 DEF Accept, TypeOK
    <2>. QED
      BY <1>0, <1>3, <2>1, <2>2, <2>3, <2>5, WorkerCounts DEF Accept
  <1>4. CASE NewConn(w)
    <2>1. TypeOK'
      BY <1>0, <1>4 DEF NewConn, TypeOK, Goto
    <2>. QED
      BY <1>0, <1>4, <2>1, WorkerCounts DEF NewConn, Within
  <1>5. CASE Again(w)
    <2>1. wpc[w] = "again" /\ doing /\ ~quit
      BY <1>5, BusyClaims DEF Again
    <2>2. TypeOK'
      BY <1>0, <1>5 DEF Again, TypeOK, Goto
    <2>. QED
      BY <1>0, <1>5, <2>1, <2>2, WorkerCounts DEF Again, Within
  <1>6. CASE CheckStop(w)
    <2>1. wpc[w] = "check" /\ doing /\ ~quit
      BY <1>6, BusyClaims DEF CheckStop
    <2>2. TypeOK'
      BY <1>0, <1>6 DEF CheckStop, TypeOK, Goto
    <2>. QED
      BY <1>0, <1>6, <2>1, <2>2, WorkerCounts DEF CheckStop, Within
  <1>. QED
    BY <1>1, <1>2, <1>3, <1>4, <1>5, <1>6 DEF Worker

LEMMA CountingKept == ASSUME BoundsAssumption PROVE Counting /\ [Next]_vars => Counting'
  <1>. SUFFICES ASSUME Counting, [Next]_vars
                PROVE  Counting'
    OBVIOUS
  <1>1. CASE UNCHANGED vars
    BY <1>1 DEF vars, Counting, OneAcceptor, TypeOK, Tasks, Busy
  <1>2. CASE Next
    BY <1>2, OutsideKeeps, PollKeeps, WorkerKeeps DEF Next, Step, Poll
  <1>. QED
    BY <1>1, <1>2

-----------------------------------------------------------------------------
\* While doing is set and nobody left through the error callback or stop, exactly one task of
\* the listener is there, be it about to be posted, posted or in Do; otherwise none
\* (TCPListener.cpp:10-25, 40-76).
THEOREM OneAcceptorAtATime == ASSUME BoundsAssumption PROVE Safety => []OneAcceptor
  <1>1. Init => Counting
    BY CountingInit
  <1>2. Counting /\ [Next]_vars => Counting'
    BY CountingKept
  <1>3. Counting => OneAcceptor
    BY DEF Counting
  <1>. QED
    BY <1>1, <1>2, <1>3, PTL DEF Safety
=============================================================================
