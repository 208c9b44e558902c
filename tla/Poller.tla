------------------------------ MODULE Poller ------------------------------
(* hwnet::Poller (net/Poller.h, Poller.cpp) with Epoll (net/linux): the map      *)
(* of channels by descriptor, the kernel's registrations, which hold raw         *)
(* pointers, the thread in Run, and threads that add, change and remove channels *)
(* and drop their pointers.  The handlers of the channels are what they do to    *)
(* the poller and to their descriptor, which they close or give away.           *)
EXTENDS Naturals, FiniteSets

CONSTANTS
  Fds,         \* bound: descriptor numbers
  Sockets,     \* TCPSocket: its destructor closes the descriptor
  Listeners,   \* TCPListener: closes it once removed
  Connectors,  \* TCPConnector: Do closes it or gives it away, removed or not
  Handshakes   \* SSLHandshake: closes it and is removed, or is removed and gives it away

Channels == Sockets \cup Listeners \cup Connectors \cup Handshakes

ASSUME KindsAssumption ==
  /\ Sockets \cap (Listeners \cup Connectors \cup Handshakes) = {}
  /\ "notify" \notin Channels /\ "none" \notin Channels
  /\ {"none", "given"} \cap Fds = {}

VARIABLES
  \* Poller
  channels,        \* by descriptor
  waitRemove, clearWaitRemove,
  closed,
  \* the thread in Run
  rpc,
  batch,           \* the raw pointers of epoll_wait still to be called
  \* a channel
  fd,              \* "none" before there is one, "given" after: -1, or not used any more
  user,            \* those that somebody outside the poller holds a pointer to
  removed,         \* those that Remove was called for
  closedFd,        \* those whose descriptor was closed by a handler
  \* calls under way
  notifying,       \* callers between the lock of Remove, or the store of Stop, and notify
  \* the kernel
  pipe,            \* the notify pipe has something to read
  given,           \* open numbers that a connect or handshake callback holds
  interest,        \* by open number, the raw pointer it is registered with
  \* history
  hasty,           \* those that closed their descriptor, or gave it, before they were removed
  strays,          \* numbers given away by those, still registered for them
  crashed          \* OnActive was called through a pointer to a channel that is gone

vars == <<channels, waitRemove, clearWaitRemove, closed, rpc, batch, fd, user, removed, closedFd,
          notifying, pipe, given, interest, hasty, strays, crashed>>

None == "none"
Given == "given"
Pointers == Channels \cup {"notify"}

TypeOK ==
  /\ channels \in [Fds -> Channels \cup {None}]
  /\ waitRemove \subseteq Channels /\ clearWaitRemove \in Nat /\ closed \in BOOLEAN
  /\ rpc \in {"out", "check", "wait", "batch"} /\ batch \subseteq Pointers
  /\ fd \in [Channels -> Fds \cup {None, Given}]
  /\ user \cup removed \cup closedFd \cup hasty \subseteq Channels
  /\ notifying \subseteq Pointers /\ pipe \in BOOLEAN
  /\ interest \in [Fds -> Channels \cup {None}] /\ crashed \in BOOLEAN
  /\ given \cup strays \subseteq Fds

\* After Poller::Init; the notify pipe is registered for good.
Init ==
  /\ channels = [f \in Fds |-> None]
  /\ waitRemove = {} /\ clearWaitRemove = 0 /\ closed = FALSE
  /\ rpc = "out" /\ batch = {}
  /\ fd = [c \in Channels |-> None] /\ user = {} /\ removed = {} /\ closedFd = {}
  /\ notifying = {} /\ pipe = FALSE
  /\ given = {} /\ interest = [f \in Fds |-> None]
  /\ hasty = {} /\ strays = {} /\ crashed = FALSE

-----------------------------------------------------------------------------
InMap == {channels[f] : f \in Fds} \ {None}

\* Some shared pointer is left.
Alive(c) == c \in user \cup InMap \cup waitRemove

\* The number a channel has is open, and its own.
FdOpen(c) == fd[c] \in Fds /\ c \notin closedFd /\ (c \in Sockets => Alive(c))

\* The channel whose descriptor a number stands for, for the kernel.
Owner(f) == {c \in Channels : fd[c] = f /\ FdOpen(c)}
Opened(f) == Owner(f) # {} \/ f \in given

\* What epoll_wait may return; a registration ends with its descriptor.
Registered == {interest[f] : f \in {g \in Fds : Opened(g)}} \ {None}

-----------------------------------------------------------------------------
(* The owners of channels.                                                     *)

\* A channel for a descriptor that nobody has open.
Open(c, f) ==
  /\ fd[c] = None /\ ~Opened(f)
  /\ fd' = [fd EXCEPT ![c] = f] /\ user' = user \cup {c}
  /\ interest' = [interest EXCEPT ![f] = None] /\ strays' = strays \ {f}
  /\ UNCHANGED <<channels, waitRemove, clearWaitRemove, closed, rpc, batch, removed, closedFd,
                 notifying, pipe, given, hasty, crashed>>

\* A channel for the descriptor that a callback was given, with what is registered for it.
Adopt(c, f) ==
  /\ fd[c] = None /\ f \in given /\ c \in Sockets \cup Handshakes
  /\ fd' = [fd EXCEPT ![c] = f] /\ user' = user \cup {c} /\ given' = given \ {f}
  /\ UNCHANGED <<channels, waitRemove, clearWaitRemove, closed, rpc, batch, removed, closedFd,
                 notifying, pipe, interest, hasty, strays, crashed>>

CloseGiven(f) ==
  /\ f \in given /\ given' = given \ {f}
  /\ UNCHANGED <<channels, waitRemove, clearWaitRemove, closed, rpc, batch, fd, user, removed,
                 closedFd, notifying, pipe, interest, hasty, strays, crashed>>

\* Poller::Add, by the owner of an open descriptor; it answers -1, and changes nothing, when
\* the number is in the map or registered.
Add(c) ==
  LET f == fd[c] IN
  /\ c \in user /\ FdOpen(c) /\ c \notin removed
  /\ channels[f] = None /\ interest[f] = None
  /\ interest' = [interest EXCEPT ![f] = c]
  /\ channels' = [channels EXCEPT ![f] = c]
  /\ UNCHANGED <<waitRemove, clearWaitRemove, closed, rpc, batch, fd, user, removed, closedFd,
                 notifying, pipe, given, hasty, strays, crashed>>

\* EPOLL_CTL_DEL of a number, whoever registered it.
Deleted(f) == [interest EXCEPT ![f] = None]

\* [mutation] The channel is not kept for the batch under way.
KeptNever(c) == waitRemove

\* What Remove keeps until the batch is over.
Kept(c) == waitRemove \cup {c}

Erased(f) == [channels EXCEPT ![f] = None]

\* [mutation] Only a removal that finds something pending notifies.
NeedNotifyAgain == clearWaitRemove > 0

NeedNotify == clearWaitRemove = 0

\* The part of Remove under the lock once the number was found in the map.
RemoveFound(c, f) ==
  /\ waitRemove' = Kept(c) /\ channels' = Erased(f)
  /\ clearWaitRemove' = clearWaitRemove + 1
  /\ notifying' = IF NeedNotify THEN notifying \cup {c} ELSE notifying

\* Poller::Remove, which looks at the number only, and at the one the channel has by now.
Remove(c) ==
  LET f == fd[c] IN
  /\ c \in user /\ f # None /\ c \notin removed
  /\ removed' = removed \cup {c}
  /\ IF f # Given /\ channels[f] # None
       THEN RemoveFound(c, f) /\ interest' = Deleted(f) /\ strays' = strays \ {f}
       ELSE UNCHANGED <<waitRemove, channels, interest, strays, clearWaitRemove, notifying>>
  /\ UNCHANGED <<closed, rpc, batch, fd, user, closedFd, pipe, given, hasty, crashed>>

\* The write to the pipe, after the lock.
Notify(c) ==
  /\ c \in notifying /\ notifying' = notifying \ {c} /\ pipe' = TRUE
  /\ UNCHANGED <<channels, waitRemove, clearWaitRemove, closed, rpc, batch, fd, user, removed,
                 closedFd, given, interest, hasty, strays, crashed>>

\* Enable and Disable, by a socket's worker or its handler: EPOLL_CTL_MOD writes the raw
\* pointer again, into whatever the number is registered with.
Modify(c) ==
  /\ c \in user \cap Sockets /\ fd[c] # None /\ channels[fd[c]] # None
  /\ interest' = [interest EXCEPT ![fd[c]] = IF @ = None THEN None ELSE c]
  /\ UNCHANGED <<channels, waitRemove, clearWaitRemove, closed, rpc, batch, fd, user, removed,
                 closedFd, notifying, pipe, given, hasty, strays, crashed>>

\* Registered, and so in the hands of its handlers.
Served(c) == FdOpen(c) /\ interest[fd[c]] = c

\* ::close by a handler: once removed, or before; by the timeout of a connector at any time.
\* A socket leaves it to its destructor.
MayClose(c) ==
  c \in Connectors \cup (Listeners \cap removed) \/ (c \in Handshakes /\ Served(c))

CloseFd(c) ==
  /\ c \in user /\ FdOpen(c) /\ MayClose(c)
  /\ closedFd' = closedFd \cup {c} /\ hasty' = hasty \cup ({c} \ removed)
  /\ UNCHANGED <<channels, waitRemove, clearWaitRemove, closed, rpc, batch, fd, user, removed,
                 notifying, pipe, given, interest, strays, crashed>>

\* The number goes to a callback: a handshake is removed before that, and a connector
\* unless its timeout claimed Do and OnActive took the error back.
MayGive(c) ==
  \/ c \in Connectors /\ Served(c)
  \/ c \in Connectors \cup Handshakes /\ c \in removed

GiveAway(c) ==
  /\ fd' = [fd EXCEPT ![c] = Given] /\ given' = given \cup {fd[c]}
  /\ IF c \in removed
       THEN UNCHANGED <<hasty, strays>>
       ELSE hasty' = hasty \cup {c} /\ strays' = strays \cup {fd[c]}

GiveFd(c) ==
  /\ c \in user /\ FdOpen(c) /\ MayGive(c) /\ GiveAway(c)
  /\ UNCHANGED <<channels, waitRemove, clearWaitRemove, closed, rpc, batch, user, removed,
                 closedFd, notifying, pipe, interest, crashed>>

\* The connector's Do gives the number away, under its own lock, while Remove is between
\* its two looks at it: the map's entry is erased, and EPOLL_CTL_DEL of -1 does nothing.
RemoveWhileGiven(c) ==
  LET f == fd[c] IN
  /\ c \in user /\ c \in Connectors /\ Served(c) /\ c \notin removed /\ channels[f] # None
  /\ removed' = removed \cup {c} /\ RemoveFound(c, f) /\ GiveAway(c)
  /\ UNCHANGED <<closed, rpc, batch, user, closedFd, pipe, interest, crashed>>

\* The last pointer outside the poller goes.
Drop(c) ==
  /\ c \in user \ notifying /\ user' = user \ {c}
  /\ UNCHANGED <<channels, waitRemove, clearWaitRemove, closed, rpc, batch, fd, removed, closedFd,
                 notifying, pipe, given, interest, hasty, strays, crashed>>

\* [mutation] The thread in epoll_wait is not told.
StopTellsNobody == notifying

StopTells == notifying \cup {"notify"}

Stop ==
  /\ ~closed /\ closed' = TRUE /\ notifying' = StopTells
  /\ UNCHANGED <<channels, waitRemove, clearWaitRemove, rpc, batch, fd, user, removed, closedFd,
                 pipe, given, interest, hasty, strays, crashed>>

-----------------------------------------------------------------------------
(* Run.                                                                        *)

Run ==
  /\ rpc = "out" /\ ~closed /\ rpc' = "check"
  /\ UNCHANGED <<channels, waitRemove, clearWaitRemove, closed, batch, fd, user, removed, closedFd,
                 notifying, pipe, given, interest, hasty, strays, crashed>>

Check ==
  /\ rpc = "check" /\ rpc' = IF closed THEN "out" ELSE "wait"
  /\ UNCHANGED <<channels, waitRemove, clearWaitRemove, closed, batch, fd, user, removed, closedFd,
                 notifying, pipe, given, interest, hasty, strays, crashed>>

\* epoll_wait returns some of what is registered, and the pipe when it is readable.
EpollWait ==
  /\ rpc = "wait" /\ rpc' = "batch"
  /\ \E ready \in SUBSET Registered :
       batch' = ready \cup IF pipe THEN {"notify"} ELSE {}
  /\ batch' # {}
  /\ UNCHANGED <<channels, waitRemove, clearWaitRemove, closed, fd, user, removed, closedFd,
                 notifying, pipe, given, interest, hasty, strays, crashed>>

\* OnActive through the raw pointer.  The handler may hand the channel to the pool, and do
\* what any other owner of a pointer does.
OnActive(c) ==
  /\ rpc = "batch" /\ c \in batch \ {"notify"} /\ batch' = batch \ {c}
  /\ IF Alive(c) THEN user' \in {user, user \cup {c}} /\ UNCHANGED crashed
                 ELSE crashed' = TRUE /\ UNCHANGED user
  /\ UNCHANGED <<channels, waitRemove, clearWaitRemove, closed, rpc, fd, removed, closedFd,
                 notifying, pipe, given, interest, hasty, strays>>

\* notifyChannel::OnActive empties the pipe.
OnNotify ==
  /\ rpc = "batch" /\ "notify" \in batch /\ batch' = batch \ {"notify"} /\ pipe' = FALSE
  /\ UNCHANGED <<channels, waitRemove, clearWaitRemove, closed, rpc, fd, user, removed, closedFd,
                 notifying, given, interest, hasty, strays, crashed>>

\* The end of a batch lets the removed channels go.
Clear ==
  /\ rpc = "batch" /\ batch = {} /\ rpc' = "check"
  /\ waitRemove' = {} /\ clearWaitRemove' = 0
  /\ UNCHANGED <<channels, closed, batch, fd, user, removed, closedFd, notifying, pipe, given,
                 interest, hasty, strays, crashed>>

Poll == Check \/ EpollWait \/ OnNotify \/ Clear \/ \E c \in Channels : OnActive(c)

Next ==
  /\ ~crashed
  /\ \/ Poll \/ Run \/ Stop
     \/ \E c \in Pointers : Notify(c)
     \/ \E f \in Fds : CloseGiven(f)
     \/ \E c \in Channels :
          \/ Add(c) \/ Remove(c) \/ Modify(c) \/ CloseFd(c) \/ Drop(c)
          \/ GiveFd(c) \/ RemoveWhileGiven(c)
          \/ \E f \in Fds : Open(c, f) \/ Adopt(c, f)

Safety == Init /\ [][Next]_vars

\* The thread in Run runs, somebody called Run, and a call that has to notify goes on.
Fairness ==
  /\ WF_vars(~crashed /\ Poll) /\ WF_vars(~crashed /\ Run)
  /\ \A c \in Pointers : WF_vars(~crashed /\ Notify(c))

Spec == Safety /\ Fairness

-----------------------------------------------------------------------------
\* The pointers of a batch, and those the kernel keeps, are to channels that are still
\* there, as long as nobody closed a descriptor or gave it away before removing its channel
\* (Epoll.cpp:38, 113; Poller.cpp:110, 151-155).
PointersAlive ==
  hasty = {} => ~crashed /\ \A p \in (batch \cup Registered) \ {"notify"} : Alive(p)

\* The kernel points at the channel whose descriptor it watches: Enable and Disable never
\* take over a number that somebody else has meanwhile (Epoll.cpp:71, 91). A number a
\* connector gave away too soon is another's under its registration (TCPConnector.cpp:138).
OwnRegistration ==
  \A f \in Fds \ strays :
    Opened(f) /\ interest[f] # None => Owner(f) = {interest[f]} /\ channels[f] = interest[f]

\* The types hold, and what the kernel and the batch hold can be used, for the channel it
\* was meant for (Poller.cpp:85-131, Epoll.cpp:43-94, 121-132).
RegistrationsSound == TypeOK /\ PointersAlive /\ OwnRegistration

\* A removed channel is let go, though its removal did not notify (Poller.cpp:113-117, 151-155).
RemovedIsReleased ==
  \A c \in Channels : c \in waitRemove ~> c \notin waitRemove \/ closed \/ crashed

\* Run returns after Stop.
StopEndsRun == closed ~> rpc = "out" \/ crashed
=============================================================================
