----------------------------- MODULE MCPoller -----------------------------
(* Small instances of Poller: sockets and a connector, which closes its descriptor or *)
(* gives it to one of the sockets, before it is removed, meanwhile or after.          *)
EXTENDS Poller

CONSTANTS s1, s2, h1, f1, f2

TwoSockets == {s1, s2}
OneConnector == {h1}
TwoFds == {f1, f2}

\* The sockets, and the numbers, are alike: the first of each to be used is s1, and f1.
InOrder ==
  /\ fd'[s2] # None => fd'[s1] # None
  /\ fd' # fd /\ fd = [c \in Channels |-> None] => \A c \in Channels : fd'[c] # f2

MCNext == Next /\ InOrder
MCSpec == Init /\ [][MCNext]_vars /\ Fairness
=============================================================================
