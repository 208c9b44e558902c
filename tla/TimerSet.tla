------------------------------ MODULE TimerSet ------------------------------
(* What TimerMgr promises its users: a set of timers with their expiry, from    *)
(* which an earliest one is popped and any one can be removed.                  *)
EXTENDS Naturals

CONSTANTS Timers, Expiries

VARIABLES
  waiting, expiry,
  popped  \* what the last operation popped

vars == <<waiting, expiry, popped>>

Init == waiting = {} /\ expiry = [t \in Timers |-> 0] /\ popped = {}

Insert(t, e) ==
  /\ t \notin waiting
  /\ waiting' = waiting \cup {t} /\ expiry' = [expiry EXCEPT ![t] = e] /\ popped' = {}

Leave(t) == t \in waiting /\ waiting' = waiting \ {t} /\ expiry' = [expiry EXCEPT ![t] = 0]

PopMin(t) == (\A u \in waiting : expiry[t] <= expiry[u]) /\ Leave(t) /\ popped' = {t}

Remove(t) == Leave(t) /\ popped' = {}

Next ==
  \E t \in Timers : PopMin(t) \/ Remove(t) \/ \E e \in Expiries : Insert(t, e)

Spec == Init /\ [][Next]_vars
=============================================================================
