---------------------------- MODULE MCEndpoints ----------------------------
(* One run for the two ends of a connection to come: a connector (TCPConnector) *)
(* or a listener with its workers (TCPListener); the other part rests.          *)
EXTENDS TCPConnector

CONSTANTS w1, w2, Workers, MaxConn, MaxErrors, MaxStart

TwoWorkers == {w1, w2}

VARIABLES
  part,
  \* of the listener; an l where the connector has the name
  hasOnError, started, stop, ldoing, lfd, verNew, lupc, spc, starts, lppc, lposted, lwpc, bound,
  inEpoll, backlog, arrived, edge, errors, quit

listener == <<hasOnError, started, stop, ldoing, lfd, verNew, lupc, spc, starts, lppc, lposted,
              lwpc, bound, inEpoll, backlog, arrived, edge, errors, quit>>
all == <<part, vars, listener>>

L == INSTANCE TCPListener
       WITH doing <- ldoing, fd <- lfd, upc <- lupc, ppc <- lppc, posted <- lposted, wpc <- lwpc

ASSUME ListenerAssumption == L!BoundsAssumption

BothInit ==
  /\ part \in {"connector", "listener"}
  /\ Init /\ L!Init
  /\ IF part = "connector" THEN hasOnError ELSE withTimeout /\ hasErrorCallback

BothNext ==
  \/ part = "connector" /\ Next /\ UNCHANGED <<part, listener>>
  \/ part = "listener" /\ L!Next /\ UNCHANGED <<part, vars>>

BothSpec ==
  /\ BothInit /\ [][BothNext]_all
  /\ (part = "connector" => Fairness) /\ (part = "listener" => L!Fairness)

\* The properties of TCPListener: one acceptor, and every arrival is accepted.
OneAcceptor == L!OneAcceptor
ArrivedIsAccepted == L!ArrivedIsAccepted
=============================================================================
