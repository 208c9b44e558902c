------------------------------ MODULE RedisConn ------------------------------
(***************************************************************************)
(* A connection of src/src/redis/RedisCli.cpp over the asynchronous        *)
(* context of hiredis (async.c): the poller's thread in OnActive, a thread *)
(* of the user in redisAsyncCommand and Close, the kernel and the server.  *)
(*                                                                         *)
(* RedisConn::mtx is given up exactly around the user's callbacks, so that *)
(* a step is what a thread does from one of these points to the next.      *)
(***************************************************************************)
EXTENDS Naturals, Sequences, FiniteSets

CONSTANTS
  Scripts,     \* what the user may send: sequences of commands with a kind, a topic
               \* (its channel or pattern) and fn, whether it has a callback
  SendBuffer,  \* how many commands the kernel holds for the server
  MaxNews      \* how many messages nobody asked for the server sends

ASSUME RedisConnAssumption == SendBuffer \in Nat \ {0} /\ MaxNews \in Nat
ASSUME ScriptsAssumption ==
  \A s \in Scripts :
    s \in Seq([kind : {"get", "subscribe", "unsubscribe", "monitor"}, topic : STRING, fn : BOOLEAN])

VARIABLES
  script, next,  \* the user's commands, and the one that comes next
  ac,            \* redisAsyncContext: flags, error, lists of callbacks, buffers
  freed,         \* redisFree was called
  closed, fns,   \* RedisConn::closed and redisFns
  mtx,           \* who holds RedisConn::mtx
  pc,            \* where the threads are
  ev, cb,        \* the poller's event, and the cb of redisProcessCallbacks
  link,          \* the TCP connection: its state, the bytes each way
  entry,         \* epoll's entry: added, armed for writing, on the ready list
  server,        \* the server's topics, whether it feeds a monitor, the news it sent
  calls,         \* history: the callbacks made, the function, the privdata, the reply
  accepted,      \* history: the commands accepted that have a callback
  downs,         \* history: calls of the disconnect callback
  hasty,         \* history: Close was called outside a callback for a reply
  crashed        \* "no", or what went wrong: "freed", "assert", "empty"

vars == <<script, next, ac, freed, closed, fns, mtx, pc, ev, cb, link, entry, server,
          calls, accepted, downs, hasty, crashed>>
user == <<script, next, accepted>>

Threads == {"poller", "user"}
\* The dicts of callbacks of pub/sub: dictReplace and dictDelete.
With(subs, topic, callback) ==
  [t \in DOMAIN subs \cup {topic} |-> IF t = topic THEN callback ELSE subs[t]]
Without(subs, topic) == [t \in DOMAIN subs \ {topic} |-> subs[t]]

NullCb == [id |-> 0, fn |-> FALSE]

-----------------------------------------------------------------------------
(* The kernel.                                                             *)

\* What epoll reports: reading is always armed, errors need not be.
Mask(l, armed) ==
  (IF l.toClient # <<>> \/ l.state \in {"broken", "refused"} THEN {"R"} ELSE {})
  \cup (IF armed /\ \/ l.state \in {"broken", "refused"}
                    \/ l.state = "up" /\ Len(l.toServer) < SendBuffer
        THEN {"W"} ELSE {})

\* Something happened on the connection: the entry goes on the ready list.
Woken(e) == [e EXCEPT !.edge = e.added]

\* Poller::Enable and Disable: EPOLL_CTL_MOD looks at readiness at once.
AddWrite(e, l) ==
  IF ~e.added THEN e ELSE [e EXCEPT !.armed = TRUE, !.edge = @ \/ Mask(l, TRUE) # {}]
DelWrite(e, l) ==
  IF ~e.added THEN e ELSE [e EXCEPT !.armed = FALSE, !.edge = @ \/ Mask(l, FALSE) # {}]
AddRead(e, l) ==
  IF ~e.added THEN e ELSE [e EXCEPT !.edge = @ \/ Mask(l, e.armed) # {}]

Established(up) ==
  /\ link.state = "connecting"
  /\ link' = [link EXCEPT !.state = IF up THEN "up" ELSE "refused"]
  /\ entry' = Woken(entry)
  /\ UNCHANGED <<user, ac, freed, closed, fns, mtx, pc, ev, cb, server, calls, downs,
                 hasty, crashed>>

-----------------------------------------------------------------------------
(* The server (external).                                                  *)

Reply(kind, c) == [kind |-> kind, id |-> c.id, topic |-> c.topic, left |-> 0]
Answer(c) ==
  CASE c.kind = "subscribe" ->
         [Reply("subscribe", c) EXCEPT !.left = Cardinality(server.topics \cup {c.topic})]
    [] c.kind = "unsubscribe" ->
         [Reply("unsubscribe", c) EXCEPT !.left = Cardinality(server.topics \ {c.topic})]
    [] OTHER -> Reply(IF server.topics = {} THEN "status" ELSE "error", c)

ServerSends(r) == [link EXCEPT !.toClient = Append(@, r)]

ServerReads ==
  LET c == Head(link.toServer)
  IN /\ link.state = "up" /\ link.toServer # <<>> /\ ~server.full
     /\ link' = [ServerSends(Answer(c)) EXCEPT !.toServer = Tail(@)]
     /\ server' = [server EXCEPT
          !.topics = CASE c.kind = "subscribe" -> @ \cup {c.topic}
                       [] c.kind = "unsubscribe" -> @ \ {c.topic}
                       [] OTHER -> @,
          !.feeds = @ \/ c.kind = "monitor"]
     /\ entry' = Woken(entry)
     /\ UNCHANGED <<user, ac, freed, closed, fns, mtx, pc, ev, cb, calls, downs, hasty,
                    crashed>>

\* A message of a topic, a line for a monitor, or, to a new connection, the error of
\* a server that is full and reads no command.
ServerTells ==
  /\ link.state = "up" /\ server.news < MaxNews /\ ~server.full
  /\ \E r \in {[kind |-> "message", id |-> 0, topic |-> t, left |-> 0] : t \in server.topics}
              \cup (IF server.feeds
                    THEN {[kind |-> "status", id |-> 0, topic |-> "", left |-> 0]} ELSE {})
              \cup (IF next = 1
                    THEN {[kind |-> k, id |-> 0, topic |-> "", left |-> 0]
                            : k \in {"error", "garbage"}}
                    ELSE {}) :
       /\ link' = ServerSends(r)
       /\ server' = [server EXCEPT !.news = @ + 1, !.full = r.kind \in {"error", "garbage"}]
  /\ entry' = Woken(entry)
  /\ UNCHANGED <<user, ac, freed, closed, fns, mtx, pc, ev, cb, calls, downs, hasty,
                 crashed>>

\* The connection ends or breaks: what is under way may be lost.
Breaks ==
  /\ link.state = "up"
  /\ \E lost \in BOOLEAN :
       link' = [state |-> "broken", toServer |-> <<>>,
                toClient |-> IF lost THEN <<>> ELSE link.toClient]
  /\ entry' = Woken(entry)
  /\ UNCHANGED <<user, ac, freed, closed, fns, mtx, pc, ev, cb, server, calls, downs,
                 hasty, crashed>>

-----------------------------------------------------------------------------
(* Steps of a thread.  Each of them looks at the context.                  *)

\* Thread t goes on at p; it holds mtx or has given it up.
Hold(t, p) == pc' = [pc EXCEPT ![t] = p] /\ mtx' = t
Release(t, p) == pc' = [pc EXCEPT ![t] = p] /\ mtx' = "free"

\* A step of t at p, with the lock, on a context that is there.
At(t, p) == pc[t] = p /\ mtx = t /\ ~freed
\* The return of a callback at p: t locks again.
Back(t, p) == pc[t] = p /\ mtx = "free" /\ ~freed

\* The part of an event that is left when a handler returns.
Rest == IF "R" \in ev THEN ev \ {"R"} ELSE {}

\* A handler, or Close, returns; OnActive goes on to the other handler.
Leave(t) ==
  IF t = "poller"
  THEN /\ ev' = Rest
       /\ IF Rest # {} THEN Hold(t, "write") ELSE Release(t, "idle")
  ELSE ev' = ev /\ Release(t, "idle")

\* __redisAsyncDisconnect: with an error no new command is accepted.
Disconnect(x, error) ==
  [x EXCEPT !.err = @ \/ error,
            !.flags = IF x.err \/ error THEN @ \cup {"DISCONNECTING"} ELSE @]

\* __redisRunCallback and getCallback: the user's function is the first of redisFns.
CallUser(t, x, c, reply, p) ==
  IF fns = <<>>
  THEN crashed' = "empty" /\ UNCHANGED <<ac, calls, pc, mtx>>
  ELSE /\ ac' = [x EXCEPT !.flags = @ \cup {"IN_CALLBACK"}]
       /\ calls' = Append(calls, [fn |-> Head(fns), priv |-> c.id, got |-> reply])
       /\ Release(t, p) /\ UNCHANGED crashed

-----------------------------------------------------------------------------
(* OnActive.                                                               *)

EpollWait ==
  /\ pc["poller"] = "idle" /\ entry.edge /\ entry.added
  /\ entry' = [entry EXCEPT !.edge = FALSE]
  /\ ev' = Mask(link, entry.armed)
  /\ pc' = [pc EXCEPT !["poller"] = IF ev' = {} THEN "idle" ELSE "picked"]
  /\ UNCHANGED <<user, ac, freed, closed, fns, mtx, cb, link, server, calls, downs, hasty,
                 crashed>>

OnActive ==
  /\ pc["poller"] = "picked" /\ mtx = "free"
  /\ Hold("poller", IF "R" \in ev THEN "read" ELSE "write")
  /\ UNCHANGED <<user, ac, freed, closed, fns, ev, cb, link, entry, server, calls, downs,
                 hasty, crashed>>

Handling == At("poller", "read") \/ At("poller", "write")

\* __redisAsyncHandleConnect, and connectCallback up to the user's function.  A connection
\* that was established and is reset by now has SO_ERROR as a refused one has; one that the
\* server closed has none.
HandleConnect ==
  /\ Handling /\ "CONNECTED" \notin ac.flags
  /\ \/ /\ link.state \in {"refused", "broken"}
        /\ ac' = [ac EXCEPT !.err = TRUE]
        /\ entry' = [entry EXCEPT !.added = FALSE]
        /\ Release("poller", "refused")
     \/ /\ link.state # "refused"
        /\ ac' = [ac EXCEPT !.flags = @ \cup {"CONNECTED"}]
        /\ Release("poller", "connected") /\ UNCHANGED entry
  /\ UNCHANGED <<user, freed, closed, fns, ev, cb, link, server, calls, downs,
                 hasty, crashed>>

ConnectReturn ==
  /\ Back("poller", "connected")
  /\ Hold("poller", IF "R" \in ev THEN "read" ELSE "write")
  /\ UNCHANGED <<user, ac, freed, closed, fns, ev, cb, link, entry, server, calls, downs,
                 hasty, crashed>>

RefusedReturn ==
  /\ Back("poller", "refused")
  /\ ac' = Disconnect(ac, TRUE) /\ Hold("poller", "free")
  /\ UNCHANGED <<user, freed, closed, fns, ev, cb, link, entry, server, calls, downs,
                 hasty, crashed>>

\* redisAsyncHandleRead, with redisBufferRead.
HandleRead ==
  /\ At("poller", "read") /\ "CONNECTED" \in ac.flags
  /\ IF link.toClient = <<>> /\ link.state = "broken"
     THEN /\ ac' = Disconnect(ac, TRUE) /\ Hold("poller", "free")
          /\ UNCHANGED <<link, entry, cb>>
     ELSE \E k \in 0 .. Len(link.toClient) :
            /\ k = 0 => link.toClient = <<>>
            /\ ac' = [ac EXCEPT !.ibuf = @ \o SubSeq(link.toClient, 1, k)]
            /\ link' = [link EXCEPT !.toClient = SubSeq(@, k + 1, Len(@))]
            /\ entry' = AddRead(entry, link')
            /\ cb' = NullCb /\ Hold("poller", "loop")
  /\ UNCHANGED <<user, freed, closed, fns, ev, server, calls, downs, hasty, crashed>>

\* [mutation] Writing is disarmed although there is more to write.
RearmNever(e, l, done) == DelWrite(e, l)

Rearm(e, l, done) == IF done THEN DelWrite(e, l) ELSE AddWrite(e, l)

\* redisAsyncHandleWrite, with redisBufferWrite.
HandleWrite ==
  /\ At("poller", "write") /\ "CONNECTED" \in ac.flags
  /\ IF ac.obuf # <<>> /\ link.state = "broken"
     THEN /\ ac' = Disconnect(ac, TRUE) /\ Hold("poller", "free")
          /\ UNCHANGED <<link, entry, ev>>
     ELSE LET room == SendBuffer - Len(link.toServer)
          IN \E k \in 0 .. Len(ac.obuf) :
               /\ k <= room /\ (k = 0 => room = 0 \/ ac.obuf = <<>>)
               /\ ac' = [ac EXCEPT !.obuf = SubSeq(@, k + 1, Len(@))]
               /\ link' = [link EXCEPT !.toServer = @ \o SubSeq(ac.obuf, 1, k)]
               /\ entry' = AddRead(Rearm(entry, link', ac'.obuf = <<>>), link')
               /\ Leave("poller")
  /\ UNCHANGED <<user, freed, closed, fns, cb, server, calls, downs, hasty, crashed>>

\* __redisGetSubscribeCallback: the context and the callback it finds, which stays
\* the one of the reply before if there is none.
GetSubscribeCallback(x, r) ==
  CASE r.kind \in {"subscribe", "unsubscribe", "message"} /\ r.topic \in DOMAIN x.subs ->
         [cb |-> x.subs[r.topic],
          ac |-> IF r.kind # "unsubscribe" THEN x
                 ELSE [x EXCEPT !.subs = Without(@, r.topic),
                                !.flags = IF r.left = 0 THEN @ \ {"SUBSCRIBED"} ELSE @]]
    [] r.kind \in {"status", "error"} /\ x.invalid # <<>> ->
         [cb |-> Head(x.invalid), ac |-> [x EXCEPT !.invalid = Tail(@)]]
    [] OTHER -> [cb |-> cb, ac |-> x]

\* The callback for a reply: the next one in line, or one of pub/sub.
CallbackFor(x, r) ==
  CASE x.replies # <<>> ->
         [cb |-> Head(x.replies), ac |-> [x EXCEPT !.replies = Tail(@)]]
    [] x.replies = <<>> /\ "SUBSCRIBED" \in x.flags -> GetSubscribeCallback(x, r)
    [] OTHER -> [cb |-> cb, ac |-> x]

\* [mutation] The cue to really disconnect is missed.
DrainedNever(x) == FALSE

\* Close was called, and there is nothing left to send or to wait for.
Drained(x) == "DISCONNECTING" \in x.flags /\ x.obuf = <<>> /\ x.replies = <<>>

\* The end of the replies that were read: redisGetReply gives none.
NoMoreReplies ==
  /\ At("poller", "loop") /\ ac.ibuf = <<>>
  /\ IF Drained(ac)
     THEN ac' = Disconnect(ac, FALSE) /\ Hold("poller", "free") /\ UNCHANGED ev
     ELSE /\ ac' = [ac EXCEPT !.replies =
                      IF "MONITORING" \in ac.flags THEN Append(@, cb) ELSE @]
          /\ Leave("poller")
  /\ UNCHANGED <<user, freed, closed, fns, cb, link, entry, server, calls, downs, hasty,
                 crashed>>

\* A reply nobody waits for, or one that cannot be read, ends the connection.
BadReply ==
  /\ At("poller", "loop") /\ ac.ibuf # <<>>
  /\ \/ Head(ac.ibuf).kind = "garbage"
     \/ ac.replies = <<>> /\ Head(ac.ibuf).kind = "error"
  /\ ac' = Disconnect([ac EXCEPT !.ibuf = Tail(@)], TRUE) /\ Hold("poller", "free")
  /\ UNCHANGED <<user, freed, closed, fns, ev, cb, link, entry, server, calls, downs,
                 hasty, crashed>>

\* One turn of the loop of redisProcessCallbacks, with its assertion.
ProcessReply ==
  LET r == Head(ac.ibuf)
      x == CallbackFor([ac EXCEPT !.ibuf = Tail(@)], r)
  IN /\ At("poller", "loop") /\ ac.ibuf # <<>>
     /\ r.kind # "garbage" /\ (ac.replies = <<>> => r.kind # "error")
     /\ IF ac.replies = <<>> /\ ac.flags \cap {"SUBSCRIBED", "MONITORING"} = {}
        THEN crashed' = "assert" /\ UNCHANGED <<ac, cb, calls, pc, mtx>>
        ELSE /\ cb' = x.cb
             /\ IF x.cb.fn THEN CallUser("poller", x.ac, x.cb, r, "callback")
                ELSE ac' = x.ac /\ UNCHANGED <<calls, pc, mtx, crashed>>
     /\ UNCHANGED <<user, freed, closed, fns, ev, link, entry, server, downs, hasty>>

-----------------------------------------------------------------------------
(* Both threads: the return of a user's function, and __redisAsyncFree.    *)

CallbackReturn(t) ==
  /\ Back(t, "callback") \/ Back(t, "nil")
  /\ IF fns = <<>>
     THEN crashed' = "empty" /\ UNCHANGED <<ac, fns, pc, mtx>>
     ELSE /\ fns' = Tail(fns)
          /\ ac' = [ac EXCEPT !.flags = @ \ {"IN_CALLBACK"}]
          /\ Hold(t, IF pc[t] = "callback" THEN "loop" ELSE "free")
          /\ UNCHANGED crashed
  /\ UNCHANGED <<user, freed, closed, ev, cb, link, entry, server, calls, downs, hasty>>

Nil == [kind |-> "nil", id |-> 0, topic |-> "", left |-> 0]

\* [mutation] Callbacks of commands are forgotten.
PendingTopics(x) ==
  {[cb |-> x.subs[t], ac |-> [x EXCEPT !.subs = Without(@, t)]]
     : t \in DOMAIN x.subs}

\* The callbacks that are left: those of commands, then those of pub/sub.
Pending(x) ==
  CASE x.replies # <<>> -> {[cb |-> Head(x.replies), ac |-> [x EXCEPT !.replies = Tail(@)]]}
    [] x.replies = <<>> /\ x.invalid # <<>> ->
         {[cb |-> Head(x.invalid), ac |-> [x EXCEPT !.invalid = Tail(@)]]}
    [] OTHER ->
         {[cb |-> x.subs[t], ac |-> [x EXCEPT !.subs = Without(@, t)]]
            : t \in DOMAIN x.subs}

RunPending(t) ==
  /\ At(t, "free")
  /\ \E x \in Pending(ac) :
       IF x.cb.fn THEN CallUser(t, x.ac, x.cb, Nil, "nil")
       ELSE ac' = x.ac /\ UNCHANGED <<calls, pc, mtx, crashed>>
  /\ UNCHANGED <<user, freed, closed, fns, ev, cb, link, entry, server, downs, hasty>>

\* redisCleanup; disconnectCallback gives mtx up before it sets closed.
Cleanup(t) ==
  /\ At(t, "free") /\ Pending(ac) = {}
  /\ entry' = [entry EXCEPT !.added = FALSE]
  /\ IF "CONNECTED" \in ac.flags THEN Release(t, "unlocked") /\ UNCHANGED <<freed, ev>>
     ELSE freed' = TRUE /\ Leave(t)
  /\ UNCHANGED <<user, ac, closed, fns, cb, link, server, calls, downs, hasty, crashed>>

DisconnectCallback(t) ==
  /\ pc[t] = "unlocked"
  /\ closed' = TRUE /\ downs' = downs + 1
  /\ pc' = [pc EXCEPT ![t] = "disconnected"]
  /\ UNCHANGED <<user, ac, freed, fns, mtx, ev, cb, link, entry, server, calls, hasty,
                 crashed>>

\* [mutation] The context is not freed.
DisconnectReturnOnly(t) ==
  /\ Back(t, "disconnected")
  /\ Leave(t)
  /\ UNCHANGED <<user, ac, freed, closed, fns, cb, link, entry, server, calls, downs, hasty,
                 crashed>>

DisconnectReturn(t) ==
  /\ Back(t, "disconnected")
  /\ freed' = TRUE /\ Leave(t)
  /\ UNCHANGED <<user, ac, closed, fns, cb, link, entry, server, calls, downs, hasty,
                 crashed>>

\* A step of t on a context that has been freed.
Fault(t) ==
  /\ freed
  /\ \/ mtx = t
     \/ mtx = "free" /\ pc[t] \in {"connected", "refused", "callback", "nil", "disconnected"}
  /\ crashed' = "freed"
  /\ UNCHANGED <<user, ac, freed, closed, fns, mtx, pc, ev, cb, link, entry, server, calls,
                 downs, hasty>>

-----------------------------------------------------------------------------
(* The user, who has the connection once connectCallback was called, in    *)
(* any thread and in any callback.                                         *)

MayCall == "CONNECTED" \in ac.flags /\ mtx = "free" /\ pc["user"] = "idle"

\* [mutation] A plain command waits in line also while the context is subscribed.
PutCallbackInLine(x, c, id) ==
  LET new == [id |-> id, fn |-> c.fn]
  IN CASE c.kind = "subscribe" ->
            [x EXCEPT !.flags = @ \cup {"SUBSCRIBED"}, !.subs = With(@, c.topic, new)]
       [] c.kind = "unsubscribe" -> x
       [] c.kind = "monitor" ->
            [x EXCEPT !.flags = @ \cup {"MONITORING"}, !.replies = Append(@, new)]
       [] OTHER -> [x EXCEPT !.replies = Append(@, new)]

\* __redisAsyncCommand, without the buffer: where the callback is put.
PutCallback(x, c, id) ==
  LET new == [id |-> id, fn |-> c.fn]
  IN CASE c.kind = "subscribe" ->
            [x EXCEPT !.flags = @ \cup {"SUBSCRIBED"}, !.subs = With(@, c.topic, new)]
       [] c.kind = "unsubscribe" -> x
       [] c.kind = "monitor" ->
            [x EXCEPT !.flags = @ \cup {"MONITORING"}, !.replies = Append(@, new)]
       [] c.kind = "get" /\ "SUBSCRIBED" \in x.flags ->
            [x EXCEPT !.invalid = Append(@, new)]
       [] OTHER -> [x EXCEPT !.replies = Append(@, new)]

redisAsyncCommand ==
  LET c == script[next]
      refused == \/ "DISCONNECTING" \in ac.flags
                 \/ c.kind = "unsubscribe" /\ "SUBSCRIBED" \notin ac.flags
  IN /\ MayCall /\ next <= Len(script)
     /\ next' = next + 1
     /\ IF closed \/ (~freed /\ refused)
        THEN UNCHANGED <<ac, fns, entry, accepted, crashed>>
        ELSE IF freed
        THEN crashed' = "freed" /\ UNCHANGED <<ac, fns, entry, accepted>>
        ELSE /\ ac' = [PutCallback(ac, c, next) EXCEPT
                         !.obuf = Append(@, [kind |-> c.kind, topic |-> c.topic, id |-> next])]
             /\ entry' = AddWrite(entry, link)
             /\ fns' = IF c.fn THEN Append(fns, next) ELSE fns
             /\ accepted' = IF c.fn THEN accepted \cup {next} ELSE accepted
             /\ UNCHANGED crashed
     /\ UNCHANGED <<script, freed, closed, mtx, pc, ev, cb, link, server, calls, downs, hasty>>

\* [mutation] Close inside a callback does not wait either.
DisconnectsAtOnce == ac.replies = <<>>

\* redisAsyncDisconnect outside a callback, with no replies to wait for, goes on.
DisconnectsNow == "IN_CALLBACK" \notin ac.flags /\ ac.replies = <<>>

Close ==
  /\ MayCall /\ ~closed
  /\ closed' = TRUE
  /\ IF freed THEN crashed' = "freed" /\ UNCHANGED <<ac, pc, mtx, hasty>>
     ELSE /\ ac' = [ac EXCEPT !.flags = @ \cup {"DISCONNECTING"}]
          /\ hasty' = (hasty \/ "IN_CALLBACK" \notin ac.flags)
          /\ IF DisconnectsNow THEN Hold("user", "free") ELSE UNCHANGED <<pc, mtx>>
          /\ UNCHANGED crashed
  /\ UNCHANGED <<user, freed, fns, ev, cb, link, entry, server, calls, downs>>

-----------------------------------------------------------------------------

\* AsyncConnect: redisAsyncSetConnectCallback arms nothing, as the connection is
\* added only afterwards, for reading and writing.
Init ==
  /\ script \in Scripts /\ next = 1
  /\ ac = [flags |-> {}, err |-> FALSE, replies |-> <<>>, invalid |-> <<>>, subs |-> <<>>,
           obuf |-> <<>>, ibuf |-> <<>>]
  /\ freed = FALSE /\ closed = FALSE /\ fns = <<>> /\ mtx = "free"
  /\ pc = [t \in Threads |-> "idle"] /\ ev = {} /\ cb = NullCb
  /\ link = [state |-> "connecting", toServer |-> <<>>, toClient |-> <<>>]
  /\ entry = [added |-> TRUE, armed |-> TRUE, edge |-> FALSE]
  /\ server = [topics |-> {}, feeds |-> FALSE, news |-> 0, full |-> FALSE]
  /\ calls = <<>> /\ accepted = {} /\ downs = 0 /\ hasty = FALSE /\ crashed = "no"

Poll ==
  \/ EpollWait \/ OnActive \/ HandleConnect \/ ConnectReturn \/ RefusedReturn
  \/ HandleRead \/ HandleWrite \/ NoMoreReplies \/ BadReply \/ ProcessReply
Both(t) ==
  \/ CallbackReturn(t) \/ RunPending(t) \/ Cleanup(t) \/ DisconnectCallback(t)
  \/ DisconnectReturn(t) \/ Fault(t)
User == redisAsyncCommand \/ Close
Network == (\E up \in BOOLEAN : Established(up)) \/ ServerTells \/ Breaks

Running == crashed = "no"
Next ==
  Running /\ (Poll \/ (\E t \in Threads : Both(t)) \/ User \/ Network \/ ServerReads)

\* The threads run and the server reads, or closes when it is full; nobody else need
\* send, close or break anything.
Fairness ==
  /\ WF_vars(Running /\ Poll) /\ \A t \in Threads : WF_vars(Running /\ Both(t))
  /\ WF_vars(Running /\ ServerReads) /\ WF_vars(Running /\ server.full /\ Breaks)

Spec == Init /\ [][Next]_vars /\ Fairness

-----------------------------------------------------------------------------
(* What the user of a connection can rely on.                              *)

Plain == \A i \in DOMAIN script : script[i].kind = "get"

\* The functions of plain commands are called in the order of the commands, each
\* once, each with the privdata and the reply of its own command, or with none when
\* the connection ended first; then all that were accepted were called before the
\* context is freed (redisFns against replies, __redisProcessCallbacks,
\* __redisAsyncFree).
RepliesMatch ==
  Plain =>
    /\ \A i \in DOMAIN calls :
         /\ calls[i].fn = calls[i].priv /\ calls[i].got.id \in {0, calls[i].priv}
         /\ calls[i].got.kind = "status" => calls[i].got.id = calls[i].priv
         /\ i > 1 => calls[i - 1].priv < calls[i].priv
    /\ freed => {calls[i].priv : i \in DOMAIN calls} = accepted

\* A reply is for the command, or a message for the topic, whose privdata the
\* callback gets, also while commands and pub/sub are mixed.
OwnReply ==
  \A i \in DOMAIN calls :
    LET c == script[calls[i].priv]
        r == calls[i].got
    IN CASE r.kind = "status" ->
              r.id = calls[i].priv \/ \E k \in 1 .. next - 1 : script[k].kind = "monitor"
         [] r.kind \in {"subscribe", "unsubscribe", "message"} -> c.topic = r.topic
         [] OTHER -> TRUE

\* A freed context is touched only after a Close outside a callback for a reply, or
\* when OnActive goes on to redisAsyncHandleWrite after redisAsyncHandleRead freed it;
\* the assertion of redisProcessCallbacks (async.c:463) fails only when a command was
\* sent after an unsubscribe, whose confirmation may still be under way; and getCallback
\* finds no function only where pub/sub or a monitor used one up.
FaultsOnlyThen ==
  /\ crashed = "freed" => hasty \/ pc["poller"] = "write"
  /\ crashed = "assert" => \E i \in 1 .. next - 2 : script[i].kind = "unsubscribe"
  /\ crashed = "empty" => ~Plain

\* A context that was freed is not touched by the handler that goes on after the first event
\* (async.c:491-493: "When connecting was not successful, the connect callback is called with
\* a REDIS_ERR status and the context is free'd"; RedisCli.cpp:72).
NotTouchedAfterFree == crashed # "freed"

\* The disconnect callback is called once, after all others.
DisconnectIsLast ==
  [][~hasty /\ downs > 0 => downs' = downs /\ calls' = calls]_vars

Called(i) == \E k \in DOMAIN calls : calls[k].priv = i

\* Every plain command that was accepted is answered or told that the connection
\* ended, although the write event may come late and be disarmed.
EndsCalled ==
  \A i \in 1 .. 3 : (Plain /\ i \in accepted) ~> (Called(i) \/ ~Running)

\* After Close the context is freed, once the replies that are due have come.
CloseFrees == (Plain /\ closed) ~> (freed \/ ~Running)
=============================================================================
