---------------------------- MODULE MCTCPSocket ----------------------------
(* Small instances of TCPSocket.                                              *)
EXTENDS TCPSocket, TLC

CONSTANTS w1, w2

TwoWorkers == {w1, w2}
OneWorker == {w1}
WorkerSymmetry == Permutations(Workers)
NoMethods == {}
OnlyClose == {"Close"}
AllMethods == {"Shutdown", "SendAndClose", "Close"}
NoBreaks == {}
AnyBreak == {"fin", "rst"}
=============================================================================
