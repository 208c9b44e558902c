----------------------------- MODULE ByteStream -----------------------------
(* What hwnet::TCPSocket promises to those who send on it: while it accepts,  *)
(* messages are taken whole, one after the other, and the connection gets     *)
(* their bytes in that order, each once, none that was not sent.  Who ends    *)
(* the stream may leave bytes behind, but nothing is accepted after that.     *)
EXTENDS Naturals, Sequences

CONSTANT MaxMsg  \* bound: bytes of one message

VARIABLES
  accepting,  \* Send still takes messages
  taken,      \* how many bytes it took; they are numbered from 1
  out         \* the bytes that the connection got, by their numbers

vars == <<accepting, taken, out>>

Init == accepting = TRUE /\ taken = 0 /\ out = <<>>

\* A message of n bytes, which may be the last.
Take(n) ==
  /\ accepting /\ accepting' \in BOOLEAN
  /\ taken' = taken + n
  /\ UNCHANGED out

\* The connection gets the next n bytes.
Give(n) ==
  /\ out' = out \o [i \in 1 .. n |-> Len(out) + i]
  /\ UNCHANGED <<accepting, taken>>

End == accepting /\ accepting' = FALSE /\ UNCHANGED <<taken, out>>

Next == (\E n \in 1 .. MaxMsg : Take(n)) \/ (\E n \in 1 .. taken - Len(out) : Give(n)) \/ End

Spec == Init /\ [][Next]_vars
=============================================================================
