-------------------------- MODULE SendContextPool --------------------------
(* One of the 257 free lists of sendContextPool (net/TCPSocket.cpp:30-92).  get  *)
(* and put hold its mutex from end to end, so that each is one action.          *)
EXTENDS Naturals, Sequences, FiniteSets

CONSTANTS
  Contexts,   \* bound: addresses that malloc may return
  itemCount

ASSUME ItemCountAssumption == itemCount \in Nat

VARIABLES
  free,    \* the list from head on
  count,
  inUse,   \* handed out and not put back
  freed,   \* history: given back to malloc, and not allocated again
  lost     \* history: neither in the list, nor in use, nor freed

vars == <<free, count, inUse, freed, lost>>

Listed == {free[i] : i \in DOMAIN free}

TypeOK ==
  /\ free \in Seq(Contexts) /\ count \in 0 .. itemCount
  /\ inUse \subseteq Contexts /\ freed \subseteq Contexts /\ lost \subseteq Contexts

Init == free = <<>> /\ count = 0 /\ inUse = {} /\ freed = Contexts /\ lost = {}

\* get of an empty list allocates, and leaves count alone.
GetNew(c) ==
  /\ free = <<>> /\ c \in freed
  /\ inUse' = inUse \cup {c} /\ freed' = freed \ {c}
  /\ UNCHANGED <<free, count, lost>>

\* [mutation] The head stays where it was.
RestKept == free

Rest == Tail(free)

GetHead ==
  /\ free # <<>> /\ count' = count - 1
  /\ free' = Rest /\ inUse' = inUse \cup {Head(free)}
  /\ UNCHANGED <<freed, lost>>

Room == count < itemCount

\* The new head links to what followed the old one, which nothing points at any more; the
\* head of an empty list to what its destructor left in next, null at -O0.
Linked(c) == <<c>> \o IF free = <<>> THEN <<>> ELSE Tail(free)

PutBack(c) ==
  /\ c \in inUse /\ Room
  /\ inUse' = inUse \ {c} /\ count' = count + 1
  /\ free' = Linked(c) /\ lost' = lost \cup (Listed \ {free'[i] : i \in DOMAIN free'})
  /\ UNCHANGED freed

PutFree(c) ==
  /\ c \in inUse /\ ~Room
  /\ inUse' = inUse \ {c} /\ freed' = freed \cup {c}
  /\ UNCHANGED <<free, count, lost>>

Next == GetHead \/ \E c \in Contexts : GetNew(c) \/ PutBack(c) \/ PutFree(c)

Spec == Init /\ [][Next]_vars

-----------------------------------------------------------------------------
\* A context is in one place only: none is handed out twice, or freed while it is used or
\* listed, however gets and puts follow each other (TCPSocket.cpp:63-70, 78-86).
OnePlace ==
  /\ \A i, j \in DOMAIN free : free[i] = free[j] => i = j
  /\ Listed \cap inUse = {} /\ freed \cap (Listed \cup inUse) = {}

\* count is the length of the list and what was lost from it, so that no more than
\* itemCount contexts are ever lost (TCPSocket.cpp:64, 79-83).
LostIsCounted == count = Len(free) + Cardinality(lost)

\* The pool loses contexts, up to itemCount of them, and nothing worse.
LossIsBounded == OnePlace /\ LostIsCounted
=============================================================================
