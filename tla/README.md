# A verification project for hwnet

hwnet is a small C++ network library: sockets, listeners, connectors and timers on
top of an edge-triggered poller, with the work done by a pool of threads, and on top of
those an HTTP layer and a Redis client.  This directory holds TLA+ models of the concurrent
core and of the two protocol layers, the TLC configurations that check them on small
instances, and TLAPS proofs about the core.  Paths below are
relative to the repository (`src/net/...` is the library's code).

- Model-check: `tlc -config MCTaskQueue.cfg MCTaskQueue.tla`, and so on for each
  configuration in the table of section 3.
- Prove: `tlapm TaskQueueProofs.tla`, and the same for `TCPSocketProofs`, `TimerProofs`,
  `PollerProofs`, `TCPListenerProofs`, `EndpointsProofs`, `ContainersProofs` and
  `RedisConnProofs`.
- `PROJECT.json` lists components, runs, the definitions and the source lines they
  model (`map`), the mutations each property is tried on, hazards and theorems.

## 1. The system

### Components

| component | state | operations | talks to |
|---|---|---|---|
| ThreadPool, TaskQueue (`net/ThreadPool.*`) | a deque of tasks, `closed`, `watting` (threads in `cv.wait`) under one mutex; the threads | `Init`, `PostTask`, `Get` (one task, or swap of the whole deque), `Close`, join in the destructor | runs `Task::Do` of sockets, listeners, connectors, closures |
| TCPSocket (`net/TCPSocket.*`) | flags (`readable`, `writeable`, `doing`, `closed`, `shutdown`, `closedOnFlush`, `socketError`), the event counters `readableVer`/`writeableVer`, the receive list, two send lists of which one is swapped out during a `writev`, `bytes4Send`, callbacks, a timer, closures; one mutex | user side: `Start`, `Recv`, `Send`, `SendAndClose`, `Shutdown`, `Close`, timeouts; poller side: `OnActive`; pool side: `Do` with `recvInWorker`, `sendInWorker`, `doClose` | posts itself to the pool; `Add`/`Enable`/`Disable`/`Remove` on the poller; user callbacks without the mutex |
| sendContext pool (`net/TCPSocket.cpp`) | 257 free lists with a count each | `get`, `put` | send lists |
| Poller (`net/Poller.*`) | `channels` by descriptor, `waitRemove`, `clearWaitRemove`, the notify pipe, `closed` | `Init`, `Add`, `Remove`, `Enable`, `Disable`, `PostTask`, `Run`, `Stop`, timers | Epoll/Kqueue, the pool, TimerRoutine |
| Epoll (`net/linux/Epoll.*`), Kqueue (`net/mac/Kqueue.*`) | the kernel's interest list, the events of one wait | `Add`, `Remove`, `Enable`, `Disable`, `RunOnce` | calls `OnActive` through a raw pointer |
| Timer, TimerMgr, TimerRoutine (`util/Timer.*`) | per timer an atomic status, owner thread, index; a binary heap by expiry; a thread that sleeps until the earliest | `addTimer`, `addTimerOnce`, `cancel`, `Schedule`, `Stop` | callbacks (`onTimer`, `connectTimeout`) |
| TCPListener (`net/TCPListener.*`) | `doing`, `readableVer`, `started`, `stop` | `Start`, `OnActive`, `Do` (accept loop), `Stop` | poller, pool |
| TCPConnector (`net/TCPConnector.*`) | `doing`, `gotError`, `err`, a timer | `Connect`, `ConnectWithTimeout`, `connectTimeout`, `OnActive`, `Do` | poller, pool, timers |
| SSLHandshake (`net/SSLHandshake.*`) | `doing`, `ver`, `socketError` | `OnActive`, `Do` | poller, pool, OpenSSL |
| Http (`net/http/Http.*`) | per session a parser, the packet being filled with its current header field and value, the callbacks | `Start`, `onData`, `onError`, the eight parser callbacks, `MakeHeader`, `WriteHeader`, `WriteBody` | TCPSocket below, http_parser, the applications |
| http_parser (`net/http/http_parser.c`) | `struct http_parser`: state, header state, flags, index, `nread`, `content_length`, method, status, version | `http_parser_execute`, `_init`, `_pause`, `http_should_keep_alive`, `http_body_is_final`, `http_parser_parse_url` | the callbacks of its settings |
| RedisCli (`redis/RedisCli.*`) | a connection: its mutex, `redisFns`, `closed`, the hiredis context | `AsyncConnect`, `OnActive`, `redisAsyncCommand`, `Close`, the callbacks it gives to hiredis | poller, hiredis, the user's functions |
| hiredis, asynchronous (`redis/hiredis/async.c`) | flags, error, the callback lists for replies, subscriptions and replies nobody expects, the context | commands, `redisAsyncHandleRead`, `redisAsyncHandleWrite`, `redisProcessCallbacks`, disconnecting, freeing | the blocking context, the event callbacks of RedisCli |
| hiredis, blocking (`redis/hiredis/hiredis.c`, `net.c`) | descriptor, error, output buffer, reader | connecting with retries, formatting, `redisGetReply`, `redisBufferRead`, `redisBufferWrite`, `redisReconnect`, `redisFree` | the reader, the kernel |
| hiredis reader (`redis/hiredis/read.c`) | the unread bytes, a stack of tasks, the reply being built | `redisReaderFeed`, `redisReaderGetReply` | reply objects |
| Buffer, Address, any, Channel, SocketHelper, SpinMutex | values and thin wrappers | - | - |

### What is hard

- **Who runs `Do`.**  `Do` needs no lock around its reads, writes and callbacks
  because at most one task of a socket exists; `doing` is that token.  It is taken
  by whoever finds work (`OnActive`, `Recv`, `Send`), given back by `Do` when it
  finds nothing, and *not* taken by `Close`.
- **Edge-triggered events.**  `EAGAIN` is learnt outside the lock, and an edge
  may have come between the system call and the lock.  Two counters tell, and on the
  writing side `EPOLLOUT` is disarmed by the poller and re-armed by the worker, both
  outside the lock.
- **Two send lists.**  Users send while a `writev` of the other list is under way;
  a partial write goes back in front.
- **Condition variables.**  One `notify_one` per post, guarded by a counter that is
  changed by the sleeper and not by the notifier.
- **Ending.**  `Close` by a user, by a callback inside `Do`, after an error and after
  a flush; the destructor of the pool draining its queue; timers cancelled while
  they fire; removal of a channel whose event the poller already holds.
- **Bytes come in pieces.**  A read may end anywhere in a message or a reply; what the
  parsers keep between two calls must be enough to go on, and the layers above them must
  put together what comes in parts.
- **Replies find their commands by position.**  The Redis connection keeps the user's
  functions in one queue and hiredis its callbacks in several lists; they are paired by
  order alone, while the mutex is given up around every function of the user.

### What makes each component correct

- Pool: no lost wakeup; each accepted task runs exactly once, handed out in order;
  the destructor drains and returns.
- Socket: one token per open socket; one worker at a time in the data path; no lost
  edge; bytes in order, whole and once; buffers in order; the close callback last;
  what arrives is read and what is sent is written.
- Poller: a channel is alive whenever its `OnActive` may be called; descriptor
  reuse does not remove another's channel.
- Timers: a cancelled timer does not fire again; a timer fires no earlier than its
  expiry; `Stop` returns.
- Listener, connector, handshake: every event is served; exactly one callback of
  success or failure; the descriptor is closed once.
- HTTP parser: the callbacks are those of the messages, however the stream is cut; an end
  or an error is reported where the stream deserves it and nowhere else.
- HTTP sessions: what one application writes the other gets, whole, once, in order; a
  request is answered.
- Redis connection: replies reach the functions of their commands, each once; the
  disconnect callback is the last; nothing is used after it is freed.
- Blocking context: the server gets the bytes of the commands, the application the replies.

## 2. Modules

| module | what it is |
|---|---|
| `TaskFifo` | abstract: a FIFO queue that refuses after closing and still hands out what it accepted |
| `TaskQueue`, `MCTaskQueue`, `TaskQueueProofs` | the pool with its threads, mutex and condition variable; implements `TaskFifo` |
| `ByteStream` | abstract: takes messages until it ends, gives their bytes in order, each once |
| `TCPSocket`, `MCTCPSocket`, `TCPSocketProofs` | one socket, its workers, the poller thread, users, the kernel's readiness, the peer; its sending side implements `ByteStream` |
| `SendContextPool` | one free list of send contexts |
| `Timer`, `MCTimer`, `TimerProofs` | timers, the routine's thread, threads that add, cancel and stop; the heap is a set |
| `TimerSet` | abstract: a set of timers from which an earliest is popped |
| `TimerHeap` | the binary heap of `TimerMgr`; implements `TimerSet` |
| `MCContainers`, `ContainersProofs` | one run, and the theorems, for `SendContextPool` and `TimerHeap` |
| `Poller`, `MCPoller`, `PollerProofs` | the poller's map, epoll's raw pointers, the notify pipe, channels and descriptor numbers |
| `TCPListener`, `TCPListenerProofs` | a listener with its workers, and the threads in `Start` and `Stop` |
| `TCPConnector` | a connector: the caller, the poller, its timer and `Do` |
| `MCEndpoints`, `EndpointsProofs` | one run for `TCPConnector` and `TCPListener`; the connector's theorems, and the listener's for that run |
| `HttpParser`, `HttpUrl` | http_parser as an operator: one call of `http_parser_execute`; `http_parser_parse_url` |
| `HttpStream`, `MCHttpSamples` | the parser under an embedder that feeds, pauses and stops it; messages, their text and the callbacks they call for; sample streams and URLs |
| `HttpSession`, `MCHttpSession` | a client and a server session over the two directions of a connection, composed with `HttpParser` |
| `MCHttp` | one run for `HttpSession` and `HttpStream` |
| `RedisConn`, `MCRedisConn`, `RedisConnProofs` | RedisCli over the asynchronous context, its two threads, epoll and the server |
| `RedisReader` | the reply parser as operators |
| `RedisContext`, `MCRedisSamples` | the blocking context, composed with `RedisReader`, its application, the kernel and the server |
| `MCRedis` | one run for `RedisConn` and `RedisContext` |

The `MC...` modules name the small values of an instance.  Four of them put two independent
parts of a layer behind one specification: the variable `part` picks the part that runs, the
other one rests in an initial state, and fairness is asked of the part that runs.  So each
part is checked exactly as it would be alone.  Definitions whose comment begins with
`[mutation]` are faulty variants of the definition that follows them; the specifications do
not use them.  `PROJECT.json` says which property each of them breaks.

### TaskQueue and the code

One critical section of `TaskQueue::mtx` is one action; a worker leaves the mutex
inside `Get` only in `cv.wait`, so `Get` is cut there: `Take` (both overloads:
`Batch` is one task, or all of them in swap mode), `Wait`, `Exit`, and
`SpuriousWakeup` for the freedom of condition variables.  `RunTask` is one return
of `Do`.  `held[w]` is the local of the thread function.  `PoolInit` chooses the mode
and starts any subset of the workers, as `threadCount` says, with 0 read as 1.  After `Close` the
one-task `Get` returns through a dangling reference (`ThreadPool.cpp:72-74`):
undefined behaviour unless somebody else owns the task, so `crashed'` is a free
choice exactly then (`MayDangle`).  `given`, `posted`, `accepted` and `completed` are
history variables.  A task is an identity; the same object posted twice is two.  In
`TaskFifo` such a fault is the end of serving, which the abstract queue allows once it
is closed.

### TCPSocket and the code

The plain Linux build: no `USE_SSL`, no `GATHER_RECV`, no timeouts set.

- A critical section of `mtx` is one action.  `Close` makes system calls and locks
  the poller while it holds `mtx`; the kernel sees the descriptor hung up before it
  is removed, so `Close` is two actions (`CloseBegin`, `CloseEnd`) with `mtx` held in
  between.
- System calls outside the lock are actions: `Read`, `Writev`, `PollDisable`
  (`Poller::Disable` in `OnActive`), `Enable`.  Between the unlock and the
  `PostTask` of a claim there is a step too (`posting`, `PollPost`).
- `pc[w]` names the place of a worker in `Do`, `recvInWorker`, `sendInWorker`, `Close`
  and `doClose`; `loops`, `wantW`, `buf`, `res`, `cof` are the locals `i`,
  `canWrite_`, `front`, `n`, `closedOnFlush_`.
- The event counters are modelled by what the comparison of a counter with an
  earlier copy tells: `rNew` and `wNew` are the sets of workers for whom the counter
  moved since they copied it.  The counters are never compared otherwise.
- The send lists are sequences of bytes, each marked with its place in the stream and
  with the end of its `sendContext`, so that partial writes, `max_send_iovec_size`
  (`IovMax`) and `add_front` are about positions.
- The kernel (external): bytes that arrived, room in the send buffer, the peer's
  state, `shutdown`'s effect; the epoll entry is `added`, `armed` (EPOLLOUT) and
  `edge` (on the ready list).  `epoll_ctl` MOD looks at readiness at once; a read does
  not re-queue the entry.  FIN, RST and the local SHUT_RDWR come with EPOLLIN and as
  `ErrorFlag()`.
- User callbacks may call any method: the user actions are enabled at every moment,
  so the callbacks themselves only mark their place.

### SendContextPool and the code

`get` and `put` hold the list's mutex from end to end: `GetNew`, `GetHead`, `PutBack`,
`PutFree` are their paths.  `put` sets the context's `next` to the second element of the
list and makes the context the head (`TCPSocket.cpp:79-83`), so that the old head is
dropped: `Linked` does that, and `lost` remembers it.

### Timer and the code

- The status word is a set of its bits.  `cancel` holds no lock, so it is cut at each
  access to shared state: `CancelBegin` (first exchange), `CancelAgain` (second exchange
  and its answers), `CancelMgr` (the read of `mMgr`; null means `crashed`), `CancelRemove`
  (`TimerMgr::remove`).  A callback may call it too, on the routine's thread.
- `addTimer` is `AddBegin` (the expiry is computed before the lock) and `AddEnd`
  (insertion, and the notification under `Sooner`).  A callback that adds timers does what
  any other thread does, and is not told apart.
- The routine's thread is `rpc`: `Check` (`while(!stoped)` and the clock handed to `wait`),
  `Wait`, `Woken` or `SpuriousWakeup`, then `Schedule`, cut where it gives the lock back for the
  callback: `ScheduleLock`, `Pop`, `CallbackReturn`, `Relock`, `Reinsert`, `ScheduleEnd`.
- The constructor starts the thread in its initialiser list, before `stoped`, `begTime` and
  `waitTime` are set, and never sets `waitting` (`Timer.h:317-319, 371-377`): `Init` lets
  `stoped` and `waitting` be anything, and the clock read before `Construct` is any time.
- `answers`, `raced`, `late`, `garbled`, `crashed` are history.  `Alive` says through
  which pointers a timer may still be canceled; it includes one that its callback kept.
- Locals are reset where they are dead, and the last millisecond (`MaxClock`) stands for all later
  ones, so that a sleeper that would wake after it wakes at it.

### TimerHeap and the code

`elements` is the array up to `elements_size`, counted from 1; `Swap`, `Down`, `Up`, `Change`,
`InsertAt`, `PopTop`, `RemoveAt` are the functions of `Timer.h:153-304` on a record of the
array, the places and the expiries.  Each operation is under the manager's lock and is one
action.  `down` calls itself and `up` is a `while`: both are a `Loop` of rounds on the heap and the
place they are at, in which the round where the code stops would change nothing; down cannot go
further than the last place, nor up further than the first, so that as many rounds as that
are all of them.  The refinement takes the array to the set of its elements.

### Poller and the code

- A critical section of the poller's mutex is an action: `Add`, `Remove`, `Modify` (`Enable` and
  `Disable`), `Clear`.  `Notify` is the write to the pipe after the lock of `Remove`, or
  after the store of `Stop`.
- `interest` is what the kernel holds: the raw pointer a descriptor is registered with.  The
  kernel goes by the descriptor behind a number (`Owner`), the poller's map by the
  number: an entry may outlive its descriptor, and the number may be given out again.
- A channel is alive while `user` (anybody outside), the map or `waitRemove` points to it.
  Its number, `fd`, is the one it has by now: `Remove` and `Modify` read it at the call, as
  `channel->Fd()` does.  It is `Given` once the channel gave its descriptor away: -1 for a
  connector, for a handshake a number it does not use any more.
- The kinds of channels are what their handlers do to the descriptor.  `Sockets` close it in their
  destructor; `Listeners` once they are removed; `Handshakes` close it and are removed, or are removed and
  give it to their callback.  `Connectors` close it or give it away when a worker runs `Do`, which
  a timeout may bring about at any moment: before `OnActive` calls `Remove`, after it, or within
  it (`RemoveWhileGiven`: the map's entry is erased under the old number, and
  `EPOLL_CTL_DEL` gets -1).
- A number given to a callback is in `given` until the user closes it (`CloseGiven`) or makes a socket
  or a handshake of it (`Adopt`), with whatever the kernel has registered for it.
- `hasty` remembers who closed its descriptor, or gave it away, before it was removed, and `strays`
  the numbers given away so, which stay registered for somebody else until that registration ends.
- `EpollWait` returns any non-empty part of what is registered: batches of one event array; the
  growth of the array (`Epoll.cpp:115-120`) only allows larger ones.  The model starts after
  a successful `Init`; a channel is added while its descriptor is open.

### TCPListener and the code

`Start` is cut at its claim, `socket`, `bind`/`listen`, `Add` and the end; `_start` returns
false when it succeeds (`TCPListener.cpp:116`), so `StartEnd` takes the claim back.
`Stop` is its claim, `Remove`, `close`.  `Do` is cut at each `accept` and where the version is
copied; as for the socket, `verNew` holds the workers for whom `readableVer` moved.

### TCPConnector and the code

`Connect` ends in `Add`; `ConnectWithTimeout` goes on with `AddTimer` and `Assign`, which
are not under a lock: the timer may fire in between (`early`), and two threads
may touch the weak pointer at once (`Torn`, `crashed`).  `OnActive` is `CheckError`, `SetGotError`,
`FindInPoller` and `RemoveFromPoller` (the two looks of `Poller::Remove` at a number that `Do` may set to -1
meanwhile), `CancelTimer`, `Claim`, `Post`; `connectTimeout` is `TimeoutLock`, `TimeoutPost`;
`Do` is `DoLock`, `DoCall`.  `registered` is the kernel's entry, which -1 does not find.  When a timeout claims `Do`
and `OnActive` then takes its error back (`TCPConnector.cpp:102`), `Do` gives the number away
with its registration; what that does to the poller and to the next owner of the number
is in `Poller`.

### HttpParser, HttpUrl and the code

- A parser is a record with the fields of `struct http_parser`; `http_parser_execute` is a
  function of it, the settings and the bytes, and returns the new record, the callbacks in
  their order and the number of bytes consumed.  The states keep their names from the
  source.  Where the switch of the code is a table in disguise (the URL automaton, the host
  automaton, the header names that matter) the model has the table, as a set of moves.
- The settings say which callbacks fail, which pause the parser and what
  `on_headers_complete` answers; a failing callback leaves with its error, a pausing one
  returns at the place where `CALLBACK_NOTIFY` would.
- `ULLONG_MAX` and `HTTP_MAX_HEADER_SIZE` are constants, so that their tests are met by
  short inputs; both are compared before the digit or the byte is added, as in the code.
- The assertions of the source are not actions or errors of the model; `AssertionsHold` states
  them of the parser between two calls.
- `http_parser_parse_url` has the same URL automaton, the runs of a field, then
  `http_parse_host` over the host.

### HttpStream and the code

There is no code behind its actions but a program that uses the parser.  `Deliver` is one call with
a piece of the stream, and says what such a program does with the answer: it goes on behind the
consumed bytes, unpauses, stops at an error or hands an upgraded connection on; `Finish` is the call
with no bytes at the end, and `ParseUrl` one of `http_parser_parse_url`.  What a message looks like
and which callbacks its reader expects is written down apart from the parser (`Text`, `Events`), so
that `Decoded` compares two independent descriptions.

### HttpSession and the code

`Write` is `WriteHeader` and `WriteBody`, in turn; `onData(side, n)` is one call of
`HttpSession::onData` with all the callbacks of `Http.cpp` it leads to, including the answer the
application writes from them; `onError` closes.  The bytes between the sessions are a FIFO
queue: `SendsAsByteStream` says of `TCPSocket` that no byte is out of order, `ArrivedIsRead` and
`SentIsWritten` that the bytes of a socket that stays open do arrive.  `headers` is a map: later values of a
name replace earlier ones.  `torn` remembers where a read ended in a header's name.

### RedisConn and the code

`RedisConn::mtx` is held by whoever runs hiredis and given up exactly around a function of the
user, so a step is what a thread does from one such point to the next: `OnActive`,
`HandleConnect`, `HandleRead`, `ProcessReply`, `NoMoreReplies`, `HandleWrite`, `Cleanup`
and so on are the stretches of `redisAsyncHandleRead` and its callees.  The user's thread has
`redisAsyncCommand` and `Close`, from outside and from inside the functions.  `ac.replies`,
`ac.invalid` and `ac.subs` are the callback lists, `fns` is `redisFns`; a touched freed
context, a failed assertion and `front()` of an empty queue end the model, with their name in
`crashed`.  The kernel's entry is the one of `TCPSocket`; the server answers in order, sends
messages to topics and lines to a monitor, refuses new connections when it is full, and may break off.

### RedisReader, RedisContext and the code

`RedisReader` follows `read.c`: the stack of tasks, one function per kind of item, the
consumed position and the discard of the buffer.  `RedisContext` follows `hiredis.c` and `net.c`:
`redisConnect` with addresses, retries and the timeout that is not valid, `redisReconnect`,
`redisvAppendCommand` with the format's states (a format that ends inside a directive takes the scan past its
end, which is undefined: the call is `lost`, and the model ends), `redisAppendCommandArgv`, and
`redisGetReply`, whose loops are cut at each system call (`redisBufferWrite`,
`redisBufferRead`, and their failures and timeouts).  A script says what is meant by each command and what
the server replies; the wire format of both is written down apart (`Encode`).

## 3. Runs

| run | configuration | instance | what it checks |
|---|---|---|---|
| `task_queue` | `MCTaskQueue.cfg` | 3 workers, 3 tasks, 2 owned elsewhere, both modes | `PoolIsSound`; `CloseIsJoined`; `FifoSpec`: the pool implements `TaskFifo` with its liveness |
| `socket` | `MCTCPSocketSafety.cfg` | 2 workers, 2 buffers, 1 byte in, 2 bytes out, FIN, RST, all methods and callbacks | `OneWorkerAtATime`, `IdleMeansNothingToDo`, `NothingLost`, `CloseIsLast`; `SendsAsByteStream`: the sending side implements `ByteStream` |
| `socket_live` | `MCTCPSocketLive.cfg` | 1 worker, 3 buffers, 2 bytes in, 3 bytes out in messages of 1 or 2, send buffer of 1, high water mark 1 | `OrderKept`; `ArrivedIsRead`, `SentIsWritten` |
| `timer` | `MCTimer.cfg` | a repeating and a one-shot timer, one caller beside the callbacks, 2 milliseconds | `CancelTells`, `CancelHolds`; `DueIsTaken`, `StopReturns` |
| `containers` | `MCContainers.cfg` | 6 contexts, a list that counts to 3; 6 timers, 4 expiries | `LossIsBounded`; `HeapShape`, `ImplementsSet`: the heap implements `TimerSet` |
| `endpoints` | `MCEndpoints.cfg` | one connector; a listener with 2 workers, 3 connections, 1 passing error, 2 Starts, a Stop | `ConnectOutcome`, `ConnectEnds`; `OneAcceptor`, `ArrivedIsAccepted` |
| `poller` | `MCPoller.cfg` | 2 sockets, 1 connector, 2 descriptor numbers | `RegistrationsSound`; `RemovedIsReleased`, `StopEndsRun` |
| `http` | `MCHttp.cfg` | talks of one or two exchanges, 2 reads that end early; sample streams in pieces of up to 7 bytes, header limit 60, sample URLs | `MessagesWhole`, `Answered`; `Decoded`, `Judged`, `AssertionsHold`, `UrlSplit` |
| `redis` | `MCRedis.cfg` | up to 4 commands, 1 message, a server queue of 1; blocking: 2 addresses, 2 connections, 2 short reads or writes | `RepliesMatch`, `OwnReply`, `FaultsOnlyThen`, `DisconnectIsLast`, `EndsCalled`, `CloseFrees`; `CommandsAsMeant`, `RepliesInOrder`, `ReplyComes` |
| `socket_close_once` | `MCTCPSocketCloseOnce.cfg` | 2 workers, Close | violated: the close callback can be called twice |
| `http_headers` | `MCHttpHeaders.cfg` | one read that ends early | violated: a header's name that comes in two parts is stored as two headers |
| `redis_freed` | `MCRedisFreed.cfg` | a refused or broken connection | violated: the context is used after `redisAsyncHandleRead` freed it |

Some properties are conjunctions, so that one run says one thing:

| property | its parts |
|---|---|
| `PoolIsSound` | `NoLostWakeup`, `EachTaskOnce`, `JoinedMeansDone` |
| `OneWorkerAtATime` | `OneToken` (one task per open socket), `DataPathExclusive` |
| `NothingLost` | `ReadEventNotLost`, `WriteEventNotLost`, `CloseNotLost`, `FlushedFirst` |
| `OrderKept` | `ByteOrder`, `BuffersInOrder` |
| `CancelTells` | `InvalidMeansOver`, `FaultOnlyWhenDue` |
| `LossIsBounded` | `OnePlace`, `LostIsCounted` |
| `ConnectOutcome` | `EndsOnce`, `ConnectedIsReal`, `ErrorHasCause`, `GivenIsRemoved` |
| `RegistrationsSound` | `TypeOK`, `PointersAlive`, `OwnRegistration` |
| `MessagesWhole` | `AsWritten`, `BodyWhole` |
| `Judged` | `EofJudged`, `Refused` |

The type invariants of the pool, the socket, the timers, the connector and the send contexts are
theorems and no run repeats them; those of the poller, the listener and the heap are parts of
`RegistrationsSound`, `OneAcceptor` and `HeapShape`, which are theorems too.

Deadlock is not checked: a pool nobody posts to, a connection on which nothing arrives and nothing
is called, a stopped poller, a stream that was read, rest for ever.  What must not rest is said by
the liveness properties.

**Why the bounds are enough.**

- Pool: three workers and three tasks let a post find one sleeper, one woken thread and one
  busy thread at once, which is all that `notify_one` distinguishes.
- Socket, safety: two workers are needed to see a second task of a socket, and there are never
  more than two (one of `Close`, one of `OnActive`; `OneToken` is otherwise one).  One byte each
  way is enough for the ownership and event properties, whose predicates ask only whether there is something.
- Socket, data: while the socket is open there is one `Do` task at a time (`OneToken`, proved for any
  number of workers), so one worker shows every order of its bytes and buffers, and the
  budget goes to three of each: a buffer that is read, one that meets EAGAIN and one that is given
  meanwhile; a byte that is written, one that comes back and one that is sent meanwhile.
  A send buffer of one with one context per `writev` and messages of two bytes give partial writes inside a
  context, at its end, and with contexts left over.
- `maxLoop` is 10 in the code and 1 here, so that the repost happens.
- Timers: two milliseconds let the repeating timer be called, put back and called again; one
  caller and the callbacks give two cancels of one timer at a time.  The safety
  properties are theorems for any number of callers and timers.
- Heap: six timers make three levels, with an inner node that has one child.
- Poller: two sockets and two numbers let one number be reused while the other is in a batch; the
  connector can close its number or give it away at every moment, and a socket can be made of it. Listeners and
  handshakes do no step that the connector does not do, at fewer moments, and the theorems are about
  all four. The sockets, and the numbers, are alike, so the first of each to be used is `s1` and `f1` (`InOrder`).
- Listener: three connections let one arrive while one is accepted and one waits.
- Parser: the samples have every method, every kind of body (none, a length, chunks, until the end,
  answers to HEAD), continued and empty header values, pipelines, upgrades and each kind of refusal.  The
  parser's state between two calls does not know how the bytes before were cut, so that pieces of
  up to seven bytes, or all that is left, reach every state at every byte; longer ones add
  only runs of the loops inside one state.  `ULLONG_MAX` of 999 and a header limit of 60 or 99 put the limits
  inside the samples.
- Sessions: two exchanges are what pipelining needs, and two reads that end early cut both
  directions, or one message twice.
- Redis connection: the scripts have a command with a function between two others, pub/sub around plain
  commands, a pattern, and a monitor; a server queue of one blocks the second write.
- Blocking context: replies nest up to the limit of the reader and one beyond; two short reads or writes
  cut a reply, a command, or both, and two connections show what the first leaves to the second.
  `DISCARD` is 1024 in the code and 16 here, so that the reader drops consumed bytes.

Counters are bounded by `Max...` constants, all of them bounds on what users, the peer and the clock
do, never on what the library does.

**Fairness.**  Weak fairness goes to what a running process does by itself: each worker's loop, the
poller's loop, the routine's thread, a caller that is inside a method, time, and, for
`SentIsWritten`, the peer's reading.  No user has to call anything, no peer has to send or answer,
no spurious wakeup has to happen.  (`Answered` and the Redis properties need the other end: the
sessions read what has arrived, which is `ArrivedIsRead` of a socket that stays open, and the Redis
server answers, or closes when it is full.)  In `HttpSession` and `RedisContext` weak fairness of a
read is spelt out with `[]<>`, because a read is one of many lengths.  It is enough, for a thread
that can step stays able to, or somebody holds the mutex and gives it back.  One action has strong
fairness: `CallbackReturn` of `Timer`, because a callback that calls `cancel` again and again is now
and then inside `cancel`, and yet it returns.  In `Poller`, somebody calls `Run`.

**What is excused.**  A liveness property that names an excuse does so because the code really
has it: `late` (a `Stop` between the thread's check and its wait finds nobody to notify),
`early` (the timer fires before `connectTimer` is assigned), `quit` (the listener's `Do` leaves
through the error callback or `stop` with `doing` set), `crashed` (the null `mMgr`, the torn weak pointer),
a socket that was closed or failed.  `PointersAlive` is about histories in which nobody was
`hasty`, for `Remove` looks at the number only: a channel whose number was closed and given out again erases
the entry that kept another alive, and a connector that gave its number away before its `Remove` is not found,
so that its entry and its raw pointer stay.  `OwnRegistration` leaves out the `strays`, the numbers
that a connector gave away so: the new owner's events go to the connector, and its `Add` answers -1.  All other
numbers are its own even then. `ConnectOutcome` says when a connector does that: only after a timeout that claimed
`Do`.  `RepliesInOrder` leaves out the error field after connects to a bound address in use and to a Unix socket
with an invalid timeout, and `CommandsAsMeant` a format that ends inside a directive.
In `RedisConn`, `hasty` is a `Close` outside the function for a
reply: it frees the context at once when no reply is due, whoever else is about to use it;
`DisconnectIsLast` is about histories without it.  `RepliesMatch`, `EndsCalled` and
`CloseFrees` are about plain commands, for pub/sub does break the pairing by position.
`FaultsOnlyThen` is about all commands, and says which faults occur and when.  `OwnReply` is checked on the
mixtures of `AllScripts` and proved for all that are `Orderly` and not `hasty` (section 4). Each of these
conditions is needed:

- *Nothing is sent after an unsubscribe.* After `SUBSCRIBE a`, `UNSUBSCRIBE a` and two
  plain commands the first of these is accepted while the context is still `SUBSCRIBED`, so that
  its callback goes to `sub.invalid`; the second, sent after the confirmation, goes to `replies`, and
  the reply of the first reaches the function of the second.
- *Only a subscribed topic is left.* After `SUBSCRIBE a` and `UNSUBSCRIBE b`, with both confirmations in
  one read, `__redisGetSubscribeCallback` finds nothing for `b` and leaves the `cb` of the loop as it was
  (`async.c:389`, `:413`): the confirmation goes to the function of the reply before it.
- *`Close` is called in a callback for a reply.* Otherwise it runs off the callbacks of the topics in the
  user's thread, and a poller that is in `redisProcessCallbacks` finds none for the next message: the same `cb`
  of the reply before it is used again.

A monitor shares the first callback in line with everything the server tells, and is left out for that
reason.

`MessagesWhole` leaves out the headers of a message that a read `torn`, and `Answered` what follows a `Connection: close`.

**What the violated runs show.**  `Close` posts the task that will call the close
callback without setting `doing` (`TCPSocket.cpp:1053`), and `OnActive` claims by
`doing` alone: an event that `epoll_wait` reported before the removal, handled after
`Close`, posts a second task.  The close callback is called twice, against
`TCPSocket.h:56`; the two tasks may even run on two workers at once, which
`test/broadcast2.cpp:22` excludes.  `DataPathExclusive` and `CloseIsLast` show what still holds: the
second task never reaches the reads, the writes or their callbacks.  `on_header_field` takes each of its calls
for a new header (`Http.cpp:133`), though `http_parser.h:75-77` says that one string may come in many
calls: a name that a read cuts in two becomes two headers, the first with an empty value.
And `OnActive` of the Redis connection hands the context to `redisAsyncHandleWrite` after
`redisAsyncHandleRead` (`RedisCli.cpp:72`), which frees it when the connection was refused or
broken, as `async.c:491-493` says it does.

**What was seen and has no run.**  The models have these behaviours, and the properties leave room for them.

- The `Close` of `SendAndClose` sits on the path of the flush callback
  (`TCPSocket.cpp:769-772, 808-815`), so without one the connection stays open, which
  `TCPSocket.h:409` does not say.
- A one-shot timer keeps `incallback` in its status after its callback returned (`Timer.cpp:60`), so
  that a `cancel` through a pointer the callback kept is told that the callback is running.
- A blocking connect may answer `REDIS_ERR` without setting the error field (a timeout that is not valid for a
  Unix socket, a bound address in use), though `hiredis.c:671-672` says that it is set: `RepliesInOrder`
  says that it happens nowhere else.
- A format that ends inside a directive (`"%5"`, `"%."`) counts as an integer conversion, for `strchr` finds the
  terminator (`hiredis.c:301`), and the scan goes on past its end (`:365, 377, 379`).
- A connector whose timeout claims `Do` while `OnActive` is between `checkError` and the assignment of its answer
  (`TCPConnector.cpp:102`) gives its number away before `Remove`, with its registration and its entry in the map.
- A response without a length never ends for its session, which is not told that the connection did
  (`Http.cpp:102`); `Answered` is about responses that carry their length.

## 4. Proofs

Assumed of the constants, each in the module that declares it: the workers of the pool and of the
socket are finite sets, names of threads do not clash with the other owners of a mutex, sizes,
times and bounds are naturals, `IovMax` and `BufLen` are not zero, timeouts and the clock stay
below `Forever`, flags are Booleans; of the poller, that sockets are of no other kind, that the notify pipe is no
channel, and that the two marks of a channel without a number are no numbers
(`KindsAssumption`); of the heap, that expiries are naturals and none is 0, which
stands for a timer outside it (`ExpiriesAssumption`); of a Redis connection, that the user's scripts are sequences of the four kinds of
commands (`ScriptsAssumption`).  Nothing is assumed about their values: the theorems
hold for every number of threads, tasks, timers, buffers, bytes, contexts, rounds, commands and messages.

**`TaskQueueProofs`.**  The inductive invariant `Shape` is the type invariant with
`WattingCount` (the counter is the number of threads in the wait), `HeldWhileRunning`
and `NotStarted`; without the last two a worker could come back to `Get` with tasks in
its hand, or `Init` could count threads twice.

| theorem | argument |
|---|---|
| `PoolStaysSound` | `PoolIsSound`, from `NoWakeupIsLost`, `TasksRunOnce` and `JoinDrains` |
| `TypeCorrect`, `WattingCorrect` | conjuncts of `Shape` |
| `NoWakeupIsLost` | inductive with `Shape`: a post finds no sleeper, or wakes one that is on its way to the queue; a worker waits only on an empty queue, so every task beyond the awake workers was posted with a notification |
| `TasksRunOnce` | `Once`: the tasks given out, then the queue, is a sequence without repetition of the accepted ones, and what is held or completed is among the given |
| `JoinDrains` | `Drained`: a started pool's worker leaves only on a closed, empty queue, and a closed queue stays empty once it is |
| `FaultsInDrain` | a pool faults only once closed, in the one-task mode, over a task that nobody else owns |
| `ImplementsFifo` | every step maps to a step of `TaskFifo` or a stutter, under `queue <- tasks` |

**`TCPSocketProofs`.**  The inductive invariant is `Typed`: the type invariant,
`Tokened` and `SentCovered`.

- `Tokened` joins `OneToken` and `DataPathExclusive` with `EndMeansClosed` (the mutex is held
  across a system call only once `closed` is set; `doClose` runs on a closed socket).  Neither
  of the first two is inductive alone: that the task `Close` posts does not break
  `DataPathExclusive` needs that it is posted only when no task exists, and that
  a round of `Do`, the only way in, needs an open socket, where `OneToken` holds.  The
  proof classifies the steps by what they do to the tokens (`QuietStep`, `MoveStep`,
  `LeaveStep`, `ClaimStep`).
- `SentCovered` says that `bytes4Send` covers both lists and an unaccounted `writev`; it is
  what keeps the subtraction of `TCPSocket.cpp:764` from wrapping, and it needs
  `Tokened`: there is only one unaccounted `writev`.

| theorem | argument |
|---|---|
| `TypeCorrect`, `OneTaskPerOpenSocket`, `OneWorkerInTheDataPath` | conjuncts of `Typed` |
| `OneWorker` | `OneWorkerAtATime`, from the two before |
| `CloseCallbackIsLast` | with "called on a closed socket only": a worker in `doClose` is alone (`DataPathAlone`), and no step but a round of `Do` on an open socket enters the data path |
| `NoWorkIsLeftIdle` | every handler that can make work claims in the same critical section; a worker in `Do` of an open socket has `doing` |
| `BuffersComeBackInOrder` | `InOrder`: filled, in hand, queued are 1, 2, 3, ... until an error, after which no buffer is taken |
| `NothingIsLost` | `NothingLost`, from the invariants below |
| `BytesGoOutInOrder` | `Ordered`, below |
| `OrderIsKept` | `OrderKept`, from the two orders |
| `ImplementsByteStream` | every step maps to a step of `ByteStream` or a stutter, below |

- `NothingLost` has four parts, each inductive with `Typed`; the first three, with who may still tell the
  socket. `ReadEventNotLost` needs only that the versions copied in `Do` are compared in the
  critical section that clears `readable` (`TCPSocket.cpp:489-507`); `WriteEventNotLost` needs also
  `PevKnown`, for the poller disables `EPOLLOUT` between `epoll_wait` and `OnActive`
  and holds the event meanwhile; `CloseNotLost` needs `CloseCovered`: a closed socket whose close callback
  was not called has a Do task, but for the time in which the `Close` that will post one holds `mtx`.
  `FlushedFirst` needs `Ordered` and `Flushed`: who found the list empty and `closedOnFlush` set under
  one lock is alone in writing, and no `Send` is accepted any more.
- `Ordered` places every byte: the wire is the stream's beginning; then comes the list that is in
  flight, when a worker is between the swap of the lists and its account, and then the queued list, up to the last
  byte accepted. It needs `Tokened` (there is only one in flight). After an error or `Close` it speaks of a
  list in flight only: the code leaves a failed list where it is, and never writes it.
- `ImplementsByteStream` maps `accepting` to a socket that is not closed, not shut down and not waiting for
  `SendAndClose`, `taken` to the accepted bytes and `out` to those on the wire.  `Send` is `Take`; a `writev` that took
  bytes is `Give`, which is where `Ordered` is needed: its list goes on where the wire ends (`NumbersGrow`), and
  does not go beyond what was accepted; `Shutdown` and `Close` are `End`; every other step,
  the swap of the lists and the account of the writev among them, is a stutter.

**`TimerProofs`.**  The inductive invariant `Inv` joins the type invariant with what each
place of the protocol knows: `InHand` (a popped timer is outside the heap, claimed unless it was
canceled), `Fresh` (a timer being added is known to nobody else), `Waiting` (a timer in the heap is
not called and has its callback unless it was canceled), `Canceling` (`canceled` is for ever; who waits
for the lock to remove holds an idle timer's claim; a second exchange meets an idle timer only if
that came back in between), `Times` (what is out of the heap was due), and the three
properties `HeapOwned`, `InvalidMeansOver`, `FaultOnlyWhenDue`.  None of the properties is
inductive alone: that `cancel_ok` means quiet rests on `Canceling`, which rests on `InHand` to know that
`Relock` clears only the status it claimed.

| theorem | argument |
|---|---|
| `TypeCorrect`, `TheHeapOwns`, `InvalidIsOver`, `FaultIsDue` | conjuncts of `Inv` |
| `TellsTheTruth` | `CancelTells`, from the last two |
| `CancelIsKept` | a callback begins in `Pop` of an idle timer, and an answered cancel has left its bit in the status; with `cancel_ok` that bit stands alone, so no callback is in hand |
| `RunningIsSet`, `NoneIsEarly` | `InHand` (both threads that clear a callback need a status the running timer has not); `Times` |

**`PollerProofs`.**  The inductive invariant `Sound` joins the type invariant and `OwnRegistration`
with what the code relies on without saying it: `MapHolds` (an entry of `channels` is under the number its
channel has, and that channel was not removed, unless the channel was `hasty` and gave its number away),
`OneOwner` (an open number is of one channel, or of a callback that was given it), `SocketsOpen` (a socket
is closed by its destructor only and never given away), and `BatchKept`: while nobody was `hasty`, every
closed descriptor's channel was removed before, no number is a stray, and what the batch points to is in the map or
in `waitRemove`.  `PointersAlive` is not inductive without `BatchKept`, for `Clear` empties `waitRemove`: it is right
only because `Run` clears between two batches; and `BatchKept` needs `MapHolds`, for `Remove` erases
whatever is under the number it is given.  That no registration becomes a stranger's needs `strays`: a number given
away by a channel that was removed has no registration left, by `MapHolds` and `OwnRegistration`, so that
who adopts it starts with none.

| theorem | argument |
|---|---|
| `RegistrationsStaySound` | `RegistrationsSound`; a registered channel whose descriptor is open is in the map or in `waitRemove` (`RegisteredAreKept`) |
| `MapIsRight` | `MapHolds` and `OneOwner`, conjuncts of `Sound` that hold in hasty histories too |

**`TCPListenerProofs`.**  The inductive invariant `Counting` is `OneAcceptor` with what the counting needs:
the workers in `Do` are finitely many (of any set of workers), `quit` leaves `doing` set, and no more
connections wait than arrived.  Each step either leaves the tasks alone (`Undisturbed`), moves the one
task between the poller, the pool and a worker (`WorkerCounts`), or ends it and gives the claim back or
quits; that who leaves was alone is `BusyClaims`.  `OneAcceptorAtATime` states `OneAcceptor` under
`BoundsAssumption`; it is about `Safety`, and uses no fairness.

**`EndpointsProofs`.**  The inductive invariant `Answers` counts the claims (`OneClaim`: about
to be posted, posted, or ended, as many as `doing`), and follows what is known of the answer:
who finds no error has a connection (`NoErrorIsReal`), and an error without a cause comes from an answer
that met a timeout (`CauseUnlessExcused`).  `ClaimedIsRemoved` says that without a timeout who claims `Do`
comes after `Remove`, which found the number, so that what `Do` gives away is not registered
(`GivenIsNotRegistered`).  `ItEndsOnce`, `OnlyConnectionsAreGiven`, `ErrorsHaveCauses` and
`TypeCorrect` follow, and with them `OutcomeIsRight`, which states `ConnectOutcome`.
`OneAcceptorInTheRun` is the listener's theorem where the run checks it, in `BothSpec`, for any `Workers` and
bounds that satisfy `ListenerAssumption`: a step of either side is a step of the listener or leaves it
alone.  `LP` is the instance of the listener that has its theorems; `ListenerSteps` says its steps are those
of `L`.

**`ContainersProofs`**, of the send contexts.  The inductive invariant `Places` says that a context is in
exactly one of four places and that the list has at most one element (`Single`), which is what the lost
head comes from.  `NoneInTwoPlaces`, `LossIsCounted` and `TypeCorrect` follow, for any contexts and any limit,
and with them `LossStaysBounded`, which states `LossIsBounded`.

**`ContainersProofs`**, of the heap of timers, for heaps of every size.  `down` and `up` are loops
over a recursive function, and what a loop computes is proved by the least counterexample
(`AllNaturals`, from `NatLessThanWellFounded` and `WFMin`):

- `LoopRuns`: a `Loop` has a state after every number of rounds; without it the recursive definition
  would only be a CHOOSE.  `LoopRests`: what each round keeps the loop keeps, and when every round that
  changes something lowers a number, the loop has come to rest after as many rounds.
- Between the rounds the heap is in order but for one timer.  `Bridged(h, i)`: each timer fits its parent,
  leaving out the one at `i`, and the children of `i` fit the parent of `i`.  `UpFrom` adds that the
  timer at `i` fits its children, `DownFrom` that it fits its parent.  A round of up keeps `UpFrom` at the
  parent (`UpStep`), a round of down `DownFrom` at the child (`DownStep`), or they find the heap in order; hence
  `UpOrders` and `DownOrders`.  The bridge is what makes this inductive: after a swap the children of
  the old place have the old parent above them.
- `ChangeOrders` is about `change`, which tries down and then up: from `Bridged` alone, a timer too
  small for its parent is smaller than its children, so that down leaves it (`DownStays`) and up finds
  `UpFrom`; otherwise down finds `DownFrom`.  It is what `remove` of an inner timer needs, where the tail lands
  in another branch of the heap (`Dropped`, `DroppedOrder`, `Removed`).
- `Rearranged` follows the places: swaps change nothing but where the timers are, and every timer's
  `mIndex` is its place.

| theorem | argument |
|---|---|
| `HeapIsShaped` | `HeapShape` is inductive, by `Inserted`, `Removed`, `Popped` |
| `HeapIsASet` | `ImplementsSet`: every step is one of `TimerSet`, that of `Pop` a `PopMin` because the first of a heap is an earliest (`FirstIsEarliest`, along the parents) |

**`RedisConnProofs`.**  Four inductive invariants, each with the type invariant and `Locks` (`mtx`
is held exactly in the handlers).

- `Phases` is the order of the end: a thread in `__redisAsyncFree` has set `DISCONNECTING`, removes the
  entry of epoll before the disconnect callback, and the connection is `closed` when that returns; unless
  `hasty`, only `OnActive` comes there, and it is back, or on its way to `redisAsyncHandleWrite`,
  when the context is freed.
- `Answered` is about plain commands. `Listed` relates the two lists that the code keeps apart: `redisFns`
  are the functions of the callbacks in `replies`, with the one that runs; the functions called were those
  before, each with its own command. `Paired` relates the list to the bytes: the replies under way (`Due`, in
  the reader's buffer and on the wire) are those of the first callbacks in line, and the
  commands not read yet (`Asked`, on the wire and in the output buffer) are those of the others. The
  pairing ends when the connection breaks, or when the server is full, whose one error is read as
  the end. Neither is inductive without the other, for which reply a callback gets is in
  `Paired` only, and which function it calls in `Listed` only.
- `Lined` is about all commands, as long as no command followed an unsubscribe (`Calm`) and
  nobody monitors: not subscribed, there are as many callbacks in line as replies due, so that
  `redisProcessCallbacks` finds one for each; subscribed, the confirmation that leaves the last topic is the last
  reply under way (`Confirmed`). `Traced` adds that what is confirmed was commanded. Once somebody
  monitors, the assertion cannot fail, for `MONITORING` is never cleared.
- `Owned` is about the mixtures that are `Orderly`, without a `hasty` `Close`. `OwnReply` only looks back at
  the calls that were made; what keeps it true is to come. `Matched`: the first replies due, and
  after them the first commands not read yet, are those of the callbacks in line, with the same numbers; all
  replies beyond are of topics, and a plain command beyond them will find the server
  subscribed, which answers an error. `Known`: every topic the server has, a command asks for or
  a reply tells of has its entry in `subs`, and nothing is told of a topic after its leaving was confirmed,
  for then the entry is gone. `Subscribed`: until a topic is left, a context that calls itself subscribed
  has a server that is or will be; without it, a plain command sent to `sub.invalid` could be answered. `SubsOwn`:
  an entry of `subs` is the function of a command that named the topic. `Held` says that the entry stays while
  the command may be repeated.

| theorem | argument |
|---|---|
| `TypeCorrect` | inductive alone |
| `DisconnectCallbackIsLast` | `Phases`: once the callback was made, the context is freed or the poller is about to free it |
| `RepliesMatchTheirCommands` | `Answered`, for any number of commands, hasty histories included |
| `FaultsHaveTheseCauses` | its three clauses from `Phases`, `Lined` and `Answered` |
| `RepliesAreOnesOwn` | `OwnReply` is part of `Owned`, which is inductive with `Phases` and `Lined`: `Known` and `Matched` are shown for each thing that moves a reply or a command (`KnownReads`, `MatchedReads`, ...) |

**Only model-checked.**  Liveness under fairness, and with it the liveness half of the
refinement (`FifoSpec`; the proved `FifoSafety` is its safety half), because the prover
has no rule for ENABLED.  What is written with RECURSIVE operators: the HTTP parser and the
modules over it, the Redis reader and `RedisContext`; what such an operator computes for every input is
out of the prover's reach, and it is checked on the samples of the runs.  And `OwnReply` of
`RedisConn` in a `hasty` history, and after an unsubscribe, where the run checks the mixtures of
`AllScripts` and the theorem says nothing, for it is not true of all (section 3).

## 5. What is not modelled, and the plan

Not modelled, and not planned: the SSL and GATHER_RECV builds of TCPSocket (variants of
`recvInWorker` and `sendInWorker` under the same locks), the macOS back end, hiredis' adapters and
examples, its strings and hash table (`sds`, `dict`: values of TLA+), `Buffer`, `Address`, `any`,
`SocketHelper` and `SpinMutex` (values, thin wrappers, or unused), the tables of names of http_parser, and
resource exhaustion (failed allocations, full descriptor tables).

Left out of components that are modelled: the timeouts of TCPSocket (planned, below); bytes from 0x80 on in the
HTTP streams and URLs, which are not in the models' alphabet (the tables of http_parser have them); `Poller::Init`
and its failures, a poller that owns its pool, and the poller's destructor; `Epoll::Init`; the
destructor of TCPConnector, whose cancel comes after the timer is over because the timer's callback
holds a pointer to the connector; timers of timeout 0 that repeat, which keep `Schedule` busy for
ever; in Http, a response's `writeOk` callback, `SendAndClose` and the end of a session object; in
hiredis, `redisAsyncFree` and the Unix and bind variants of asynchronous connects, which RedisConn
does not use, `redisFormatSdsCommandArgv`, `redisKeepAlive`, the overflow of `readLongLong` and
`maxbuf`, which only frees an idle buffer.

Planned, the most important first:

1. `SocketTimeout`: `registerTimer`, `checkTimeout`, `onTimer` and the setters over an abstract
   timer; the timeout against a late answer and against `Close`.
2. Compositions: sockets on the pool of `TaskQueue` (several sockets, several workers), so that the
   workers of `TCPSocket` are those of the pool; sockets over `Poller`; the poller's destructor with
   `Timer`.
3. `SSLHandshake`: its `doing` and `ver` protocol with OpenSSL's answers, and the order of `close`
   and `Remove`.

Where a later module needs its share of model-checking time, properties that are proved for every
value of the constants give way first.
