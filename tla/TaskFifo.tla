------------------------------ MODULE TaskFifo ------------------------------
(* What hwnet::ThreadPool promises to those who post tasks to it: a task is   *)
(* accepted while the pool is open, accepted tasks are handed to the worker   *)
(* threads in the order of their posting, each one once, and closing the pool *)
(* refuses new tasks but still hands out what was accepted.                   *)
EXTENDS Naturals, Sequences

CONSTANT Tasks  \* the posts; each call of PostTask is an element of its own

VARIABLES
  serving,   \* there are threads to take the tasks
  open,      \* new tasks are accepted
  queue,     \* the accepted tasks not handed out yet, oldest first
  given      \* every task handed out so far, in order

vars == <<serving, open, queue, given>>

Init ==
  /\ serving = FALSE
  /\ open = TRUE
  /\ queue = <<>>
  /\ given = <<>>

Serve ==
  /\ ~serving /\ open
  /\ serving' = TRUE
  /\ UNCHANGED <<open, queue, given>>

\* A post is accepted in the open pool and refused, without a trace, in a closed one.
Put(t) ==
  /\ open
  /\ queue' = Append(queue, t)
  /\ UNCHANGED <<serving, open, given>>

\* A worker takes the n oldest tasks: one, or all of them in swap mode.  It may fail over
\* them once the queue is closed, and nobody serves any more.
Take(n) ==
  /\ serving /\ serving' \in IF open THEN {TRUE} ELSE BOOLEAN
  /\ given' = given \o SubSeq(queue, 1, n)
  /\ queue' = SubSeq(queue, n + 1, Len(queue))
  /\ UNCHANGED open

Shut ==
  /\ open' = FALSE
  /\ UNCHANGED <<serving, queue, given>>

TakeSome == \E n \in 1 .. Len(queue) : Take(n)

Next == Serve \/ (\E t \in Tasks : Put(t)) \/ TakeSome \/ Shut

Safety == Init /\ [][Next]_vars

\* Once threads serve the queue, a task that waits in it is handed out.
Spec == Safety /\ WF_vars(TakeSome)
=============================================================================
