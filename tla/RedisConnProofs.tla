--------------------------- MODULE RedisConnProofs ---------------------------
(* Theorems about RedisConn, for all commands of the user and every buffer.       *)
EXTENDS RedisConn, SequenceTheorems, FiniteSetTheorems, TLAPS

-----------------------------------------------------------------------------
(* The types of the state.                                                     *)

Flags == {"CONNECTED", "SUBSCRIBED", "MONITORING", "IN_CALLBACK", "DISCONNECTING"}
Kinds == {"get", "subscribe", "unsubscribe", "monitor"}
Topics == STRING \cup {""}
Cb == [id : Nat, fn : BOOLEAN]
Subs == UNION {[T -> Cb] : T \in SUBSET Topics}
Sent == [kind : Kinds, topic : Topics, id : Nat]
Got == [kind : {"subscribe", "unsubscribe", "message", "status", "error", "garbage", "nil"},
        id : Nat, topic : Topics, left : Nat]
Call == [fn : Nat, priv : Nat, got : Got]
Context == [flags : SUBSET Flags, err : BOOLEAN, replies : Seq(Cb), invalid : Seq(Cb),
            subs : Subs, obuf : Seq(Sent), ibuf : Seq(Got)]
Link == [state : {"connecting", "up", "refused", "broken"},
         toServer : Seq(Sent), toClient : Seq(Got)]
Entry == [added : BOOLEAN, armed : BOOLEAN, edge : BOOLEAN]
Server == [topics : SUBSET Topics, feeds : BOOLEAN, news : Nat, full : BOOLEAN]
Places == {"idle", "picked", "read", "write", "loop", "connected", "refused", "callback",
           "nil", "free", "unlocked", "disconnected"}

ScriptType == script \in Scripts /\ next \in 1 .. Len(script) + 1
ContextType == ac \in Context /\ cb \in Cb
ThreadType ==
  /\ freed \in BOOLEAN /\ closed \in BOOLEAN /\ hasty \in BOOLEAN
  /\ mtx \in Threads \cup {"free"} /\ pc \in [Threads -> Places]
  /\ ev \subseteq {"R", "W"} /\ crashed \in {"no", "freed", "assert", "empty"}
PeerType ==
  /\ link \in Link /\ entry \in Entry
  /\ server \in Server /\ IsFiniteSet(server.topics)
UserType ==
  /\ fns \in Seq(Nat) /\ calls \in Seq(Call)
  /\ accepted \subseteq Nat /\ downs \in Nat

\* Every variable has its type.
TypeOK == ScriptType /\ ContextType /\ ThreadType /\ PeerType /\ UserType

LEMMA ScriptIs ==
  ASSUME ScriptType
  PROVE  /\ script \in Seq([kind : Kinds, topic : STRING, fn : BOOLEAN])
         /\ Len(script) \in Nat /\ next \in Nat \ {0}
         /\ \A i \in 1 .. Len(script) :
              script[i].kind \in Kinds /\ script[i].topic \in Topics /\ script[i].fn \in BOOLEAN
<1>1. script \in Seq([kind : Kinds, topic : STRING, fn : BOOLEAN])
  BY ScriptsAssumption DEF ScriptType, Kinds
<1>2. Len(script) \in Nat /\ next \in Nat \ {0}
  BY <1>1, LenProperties DEF ScriptType
<1>3. ASSUME NEW i \in 1 .. Len(script)
      PROVE script[i] \in [kind : Kinds, topic : STRING, fn : BOOLEAN]
  BY <1>1, <1>3, ElementOfSeq
<1>4. QED BY <1>1, <1>2, <1>3 DEF Topics

\* The dicts of callbacks.
LEMMA SubsAre ==
  ASSUME NEW subs \in Subs
  PROVE  DOMAIN subs \subseteq Topics /\ subs \in [DOMAIN subs -> Cb]
  BY DEF Subs

LEMMA WithType ==
  ASSUME NEW subs \in Subs, NEW topic \in Topics, NEW callback \in Cb
  PROVE  With(subs, topic, callback) \in Subs
<1>1. With(subs, topic, callback) \in [DOMAIN subs \cup {topic} -> Cb]
  BY SubsAre DEF With
<1>2. DOMAIN subs \cup {topic} \in SUBSET Topics
  BY SubsAre
<1>3. QED BY <1>1, <1>2 DEF Subs

LEMMA WithoutType ==
  ASSUME NEW subs \in Subs, NEW topic
  PROVE  Without(subs, topic) \in Subs
<1>1. Without(subs, topic) \in [DOMAIN subs \ {topic} -> Cb]
  BY SubsAre DEF Without
<1>2. DOMAIN subs \ {topic} \in SUBSET Topics
  BY SubsAre
<1>3. QED BY <1>1, <1>2 DEF Subs

LEMMA NoSubs == <<>> \in Subs /\ DOMAIN <<>> = {}
<1>1. <<>> \in [{} -> Cb]
  OBVIOUS
<1>2. QED BY <1>1 DEF Subs

LEMMA TypeInit == Init => TypeOK
<1> SUFFICES ASSUME Init PROVE TypeOK
  OBVIOUS
<1>1. ScriptType
  <2>1. script \in Seq([kind : Kinds, topic : STRING, fn : BOOLEAN]) /\ next = 1
    BY ScriptsAssumption DEF Init, Kinds
  <2>2. Len(script) \in Nat
    BY <2>1, LenProperties
  <2>3. QED BY <2>1, <2>2 DEF Init, ScriptType
<1>2. ContextType
  BY NoSubs DEF Init, ContextType, Context, NullCb, Cb, Flags
<1>3. ThreadType
  BY DEF Init, ThreadType, Threads, Places
<1>4. PeerType
  BY FS_EmptySet DEF Init, PeerType, Link, Entry, Server
<1>5. UserType
  BY DEF Init, UserType
<1>6. QED BY <1>1, <1>2, <1>3, <1>4, <1>5 DEF TypeOK

\* What the server sends has its type.
LEMMA AnswerType ==
  ASSUME PeerType, NEW c \in Sent
  PROVE  Answer(c) \in Got
<1>1. /\ IsFiniteSet(server.topics \cup {c.topic}) /\ IsFiniteSet(server.topics \ {c.topic})
  BY FS_AddElement, FS_RemoveElement DEF PeerType
<1>2. /\ Cardinality(server.topics \cup {c.topic}) \in Nat
      /\ Cardinality(server.topics \ {c.topic}) \in Nat
  BY <1>1, FS_CardinalityType
<1>3. /\ c.id \in Nat /\ c.topic \in Topics
  BY DEF Sent
<1>4. CASE c.kind = "subscribe"
  BY <1>2, <1>3, <1>4 DEF Answer, Reply, Got
<1>5. CASE c.kind = "unsubscribe"
  BY <1>2, <1>3, <1>5 DEF Answer, Reply, Got
<1>6. CASE c.kind \notin {"subscribe", "unsubscribe"}
  BY <1>3, <1>6 DEF Answer, Reply, Got
<1>7. QED BY <1>4, <1>5, <1>6

\* What is left of a sequence, and what is taken from it.
LEMMA CutType ==
  ASSUME NEW S, NEW s \in Seq(S), NEW k \in 0 .. Len(s)
  PROVE  /\ SubSeq(s, 1, k) \in Seq(S) /\ Len(SubSeq(s, 1, k)) = k
         /\ \A i \in 1 .. k : SubSeq(s, 1, k)[i] = s[i]
         /\ SubSeq(s, k + 1, Len(s)) \in Seq(S)
         /\ Len(SubSeq(s, k + 1, Len(s))) = Len(s) - k
         /\ \A i \in 1 .. Len(s) - k : SubSeq(s, k + 1, Len(s))[i] = s[k + i]
<1>1. Len(s) \in Nat /\ \A i \in 1 .. Len(s) : s[i] \in S
  BY LenProperties, ElementOfSeq
<1>2. /\ SubSeq(s, 1, k) \in Seq(S)
      /\ Len(SubSeq(s, 1, k)) = IF 1 <= k THEN k - 1 + 1 ELSE 0
      /\ \A i \in 1 .. k - 1 + 1 : SubSeq(s, 1, k)[i] = s[1 + i - 1]
  BY <1>1, SubSeqProperties
<1>3. /\ SubSeq(s, k + 1, Len(s)) \in Seq(S)
      /\ Len(SubSeq(s, k + 1, Len(s))) = IF k + 1 <= Len(s) THEN Len(s) - (k + 1) + 1 ELSE 0
      /\ \A i \in 1 .. Len(s) - (k + 1) + 1 : SubSeq(s, k + 1, Len(s))[i] = s[k + 1 + i - 1]
  BY <1>1, SubSeqProperties
<1>4. Len(SubSeq(s, 1, k)) = k /\ Len(SubSeq(s, k + 1, Len(s))) = Len(s) - k
  BY <1>1, <1>2, <1>3
<1>5. ASSUME NEW i \in 1 .. k PROVE SubSeq(s, 1, k)[i] = s[i]
  BY <1>2, <1>5
<1>6. ASSUME NEW i \in 1 .. Len(s) - k PROVE SubSeq(s, k + 1, Len(s))[i] = s[k + i]
  BY <1>1, <1>3, <1>6
<1>7. QED BY <1>2, <1>3, <1>4, <1>5, <1>6

\* A step of a thread goes to a place that there is.
LEMMA GoType ==
  ASSUME ThreadType, NEW t \in Threads, NEW p \in Places, Hold(t, p) \/ Release(t, p)
  PROVE  pc' \in [Threads -> Places] /\ mtx' \in Threads \cup {"free"}
  BY DEF ThreadType, Hold, Release

LEMMA LeaveType ==
  ASSUME ThreadType, NEW t \in Threads, Leave(t)
  PROVE  /\ pc' \in [Threads -> Places] /\ mtx' \in Threads \cup {"free"}
         /\ ev' \subseteq {"R", "W"}
<1>1. "idle" \in Places /\ "write" \in Places
  BY DEF Places
<1>2. /\ Hold(t, "write") \/ Release(t, "idle")
      /\ ev' = ev \/ ev' = Rest
  BY Zenon DEF Leave
<1>3. QED BY <1>1, <1>2, GoType DEF Rest, ThreadType

LEMMA DisconnectType ==
  ASSUME NEW x \in Context, NEW e \in BOOLEAN
  PROVE  Disconnect(x, e) \in Context
  BY DEF Context, Disconnect, Flags

LEMMA EntryType ==
  ASSUME NEW e \in Entry, NEW l
  PROVE  Woken(e) \in Entry /\ AddWrite(e, l) \in Entry /\ DelWrite(e, l) \in Entry
         /\ AddRead(e, l) \in Entry /\ [e EXCEPT !.added = FALSE] \in Entry
         /\ [e EXCEPT !.edge = FALSE] \in Entry
  BY DEF Entry, Woken, AddWrite, DelWrite, AddRead

\* The callback for a reply, and the context without it.
LEMMA CallbackForType ==
  ASSUME cb \in Cb, NEW x \in Context, NEW r \in Got
  PROVE  CallbackFor(x, r).cb \in Cb /\ CallbackFor(x, r).ac \in Context
<1>1. /\ x.replies \in Seq(Cb) /\ x.invalid \in Seq(Cb) /\ x.subs \in Subs
      /\ x.flags \subseteq Flags /\ r.topic \in Topics
  BY DEF Context, Got
<1>2. CASE x.replies # <<>>
  <2>1. Head(x.replies) \in Cb /\ Tail(x.replies) \in Seq(Cb)
    BY <1>1, <1>2, HeadTailProperties
  <2>2. [x EXCEPT !.replies = Tail(@)] \in Context
    BY <2>1 DEF Context
  <2>3. QED BY <1>2, <2>1, <2>2 DEF CallbackFor
<1>3. CASE x.replies = <<>> /\ "SUBSCRIBED" \in x.flags
  <2>1. CASE r.kind \in {"subscribe", "unsubscribe", "message"} /\ r.topic \in DOMAIN x.subs
    <3>1. x.subs[r.topic] \in Cb /\ Without(x.subs, r.topic) \in Subs
      BY <1>1, <2>1, SubsAre, WithoutType
    <3>2. [x EXCEPT !.subs = Without(@, r.topic),
                    !.flags = IF r.left = 0 THEN @ \ {"SUBSCRIBED"} ELSE @] \in Context
      BY <1>1, <3>1 DEF Context
    <3>3. QED BY <1>3, <2>1, <3>1, <3>2 DEF CallbackFor, GetSubscribeCallback
  <2>2. CASE r.kind \in {"status", "error"} /\ x.invalid # <<>>
    <3>1. Head(x.invalid) \in Cb /\ Tail(x.invalid) \in Seq(Cb)
      BY <1>1, <2>2, HeadTailProperties
    <3>2. [x EXCEPT !.invalid = Tail(@)] \in Context
      BY <3>1 DEF Context
    <3>3. QED BY <1>3, <2>2, <3>1, <3>2 DEF CallbackFor, GetSubscribeCallback
  <2>3. CASE /\ ~(r.kind \in {"subscribe", "unsubscribe", "message"} /\ r.topic \in DOMAIN x.subs)
             /\ ~(r.kind \in {"status", "error"} /\ x.invalid # <<>>)
    BY <1>3, <2>3 DEF CallbackFor, GetSubscribeCallback
  <2>4. QED BY <2>1, <2>2, <2>3
<1>4. CASE x.replies = <<>> /\ "SUBSCRIBED" \notin x.flags
  BY <1>4 DEF CallbackFor
<1>5. QED BY <1>2, <1>3, <1>4

\* The callbacks that are left, and the context without them.
LEMMA PendingType ==
  ASSUME NEW x \in Context, NEW p \in Pending(x)
  PROVE  p.cb \in Cb /\ p.ac \in Context
<1>1. /\ x.replies \in Seq(Cb) /\ x.invalid \in Seq(Cb) /\ x.subs \in Subs
  BY DEF Context
<1>2. CASE x.replies # <<>>
  <2>1. Head(x.replies) \in Cb /\ Tail(x.replies) \in Seq(Cb)
    BY <1>1, <1>2, HeadTailProperties
  <2>2. [x EXCEPT !.replies = Tail(@)] \in Context
    BY <2>1 DEF Context
  <2>3. QED BY <1>2, <2>1, <2>2, SMTT(30) DEF Pending
<1>3. CASE x.replies = <<>> /\ x.invalid # <<>>
  <2>1. Head(x.invalid) \in Cb /\ Tail(x.invalid) \in Seq(Cb)
    BY <1>1, <1>3, HeadTailProperties
  <2>2. [x EXCEPT !.invalid = Tail(@)] \in Context
    BY <2>1 DEF Context
  <2>3. QED BY <1>3, <2>1, <2>2, SMTT(30) DEF Pending
<1>4. CASE x.replies = <<>> /\ x.invalid = <<>>
  <2>1. PICK t \in DOMAIN x.subs :
          p = [cb |-> x.subs[t], ac |-> [x EXCEPT !.subs = Without(@, t)]]
    BY <1>4 DEF Pending
  <2>2. t \in Topics /\ x.subs[t] \in Cb /\ Without(x.subs, t) \in Subs
    BY <1>1, <2>1, SubsAre, WithoutType
  <2>3. [x EXCEPT !.subs = Without(@, t)] \in Context
    BY <2>2 DEF Context
  <2>4. QED BY <2>1, <2>2, <2>3
<1>5. QED BY <1>2, <1>3, <1>4

LEMMA CallType ==
  ASSUME TypeOK, NEW t \in Threads, NEW x \in Context, NEW c \in Cb, NEW r \in Got,
         NEW p \in Places, CallUser(t, x, c, r, p)
  PROVE  /\ ac' \in Context /\ calls' \in Seq(Call) /\ pc' \in [Threads -> Places]
         /\ mtx' \in Threads \cup {"free"} /\ crashed' \in {"no", "freed", "assert", "empty"}
<1>1. CASE fns = <<>>
  BY <1>1 DEF CallUser, TypeOK, ContextType, ThreadType, UserType
<1>2. CASE fns # <<>>
  <2>1. /\ ac' = [x EXCEPT !.flags = @ \cup {"IN_CALLBACK"}]
        /\ calls' = Append(calls, [fn |-> Head(fns), priv |-> c.id, got |-> r])
        /\ Release(t, p) /\ crashed' = crashed
    BY <1>2, Zenon DEF CallUser
  <2>2. ac' \in Context
    BY <2>1 DEF Context, Flags
  <2>3. Head(fns) \in Nat /\ calls \in Seq(Call)
    BY <1>2, HeadTailProperties DEF TypeOK, UserType
  <2>4. [fn |-> Head(fns), priv |-> c.id, got |-> r] \in Call
    BY <2>3 DEF Call, Cb
  <2>5. calls' \in Seq(Call)
    BY <2>1, <2>3, <2>4, AppendProperties
  <2>6. QED BY <2>1, <2>2, <2>5, GoType DEF TypeOK, ThreadType
<1>3. QED BY <1>1, <1>2

LEMMA TypeNetwork ==
  ASSUME TypeOK, Running, Network \/ ServerReads
  PROVE  TypeOK'
<1> USE DEF TypeOK
<1>1. CASE \E up \in BOOLEAN : Established(up)
  <2>1. PICK up \in BOOLEAN : Established(up)
    BY <1>1
  <2>2. link' \in Link /\ entry' \in Entry
    BY <2>1, EntryType DEF Established, PeerType, Link
  <2>3. /\ UNCHANGED user /\ UNCHANGED <<ac, cb>>
        /\ UNCHANGED <<freed, closed, hasty, mtx, pc, ev, crashed>>
        /\ UNCHANGED server /\ UNCHANGED <<fns, calls, downs>>
    BY <2>1, Zenon DEF Established
  <2>4. QED BY <2>2, <2>3 DEF user, ScriptType, ContextType, ThreadType, PeerType, UserType
<1>2. CASE ServerTells
  <2>1. \E r \in Got, b \in BOOLEAN :
          /\ link' = ServerSends(r)
          /\ server' = [server EXCEPT !.news = @ + 1, !.full = b]
    <3>1. ASSUME NEW t \in server.topics
          PROVE [kind |-> "message", id |-> 0, topic |-> t, left |-> 0] \in Got
      BY DEF PeerType, Server, Got
    <3>2. ASSUME NEW k \in {"status", "error", "garbage"}
          PROVE [kind |-> k, id |-> 0, topic |-> "", left |-> 0] \in Got
      BY DEF Got, Topics
    <3>3. ASSUME NEW r PROVE (r.kind \in {"error", "garbage"}) \in BOOLEAN
      OBVIOUS
    <3>4. QED BY <1>2, <3>1, <3>2, <3>3, ZenonT(30) DEF ServerTells
  <2>2. PICK r \in Got, b \in BOOLEAN :
          /\ link' = ServerSends(r)
          /\ server' = [server EXCEPT !.news = @ + 1, !.full = b]
    BY <2>1
  <2>3. link' \in Link
    <3>1. Append(link.toClient, r) \in Seq(Got)
      BY <2>2, AppendProperties DEF PeerType, Link
    <3>2. QED BY <2>2, <3>1 DEF ServerSends, PeerType, Link
  <2>4. server' \in Server /\ IsFiniteSet(server'.topics)
    <3>1. server.news + 1 \in Nat /\ server \in Server
      BY DEF PeerType, Server
    <3>2. [server EXCEPT !.news = @ + 1] \in Server
      BY <3>1 DEF Server
    <3>3. server' = [[server EXCEPT !.news = @ + 1] EXCEPT !.full = b]
      BY <2>2
    <3>4. server' \in Server
      BY <3>2, <3>3 DEF Server
    <3>5. server'.topics = server.topics
      BY <2>2 DEF PeerType, Server
    <3>6. QED BY <3>4, <3>5 DEF PeerType
  <2>5. /\ entry' = Woken(entry)
        /\ UNCHANGED user /\ UNCHANGED <<ac, cb>>
        /\ UNCHANGED <<freed, closed, hasty, mtx, pc, ev, crashed>>
        /\ UNCHANGED <<fns, calls, downs>>
    BY <1>2, Zenon DEF ServerTells
  <2>6. entry' \in Entry
    BY <2>5, EntryType DEF PeerType
  <2>7. QED BY <2>3, <2>4, <2>5, <2>6 DEF user, ScriptType, ContextType, ThreadType, PeerType, UserType
<1>3. CASE Breaks
  <2>1. PICK lost \in BOOLEAN :
          link' = [state |-> "broken", toServer |-> <<>>,
                   toClient |-> IF lost THEN <<>> ELSE link.toClient]
    BY <1>3 DEF Breaks
  <2>2. link' \in Link
    BY <2>1 DEF PeerType, Link
  <2>3. /\ entry' = Woken(entry)
        /\ UNCHANGED user /\ UNCHANGED <<ac, cb>>
        /\ UNCHANGED <<freed, closed, hasty, mtx, pc, ev, crashed>>
        /\ UNCHANGED server /\ UNCHANGED <<fns, calls, downs>>
    BY <1>3, Zenon DEF Breaks
  <2>4. entry' \in Entry
    BY <2>3, EntryType DEF PeerType
  <2>5. QED BY <2>2, <2>3, <2>4 DEF user, ScriptType, ContextType, ThreadType, PeerType, UserType
<1>4. CASE ServerReads
  <2> DEFINE c == Head(link.toServer)
  <2>1. /\ link.toServer # <<>>
        /\ link' = [ServerSends(Answer(c)) EXCEPT !.toServer = Tail(@)]
        /\ server' = [server EXCEPT
             !.topics = CASE c.kind = "subscribe" -> @ \cup {c.topic}
                          [] c.kind = "unsubscribe" -> @ \ {c.topic}
                          [] OTHER -> @,
             !.feeds = @ \/ c.kind = "monitor"]
    BY <1>4, Zenon DEF ServerReads
  <2>2. c \in Sent /\ Tail(link.toServer) \in Seq(Sent)
    BY <2>1, HeadTailProperties DEF PeerType, Link
  <2>3. Append(link.toClient, Answer(c)) \in Seq(Got)
    <3>1. Answer(c) \in Got
      BY <2>2, AnswerType
    <3>2. QED BY <3>1, AppendProperties DEF PeerType, Link
  <2>4. link' \in Link
    <3> HIDE DEF c
    <3>1. QED BY <2>1, <2>2, <2>3 DEF ServerSends, PeerType, Link
  <2>5. server' \in Server /\ IsFiniteSet(server'.topics)
    <3>1. /\ IsFiniteSet(server.topics \cup {c.topic}) /\ IsFiniteSet(server.topics \ {c.topic})
      BY FS_AddElement, FS_RemoveElement DEF PeerType
    <3>2. c.topic \in Topics
      BY <2>2 DEF Sent
    <3> HIDE DEF c
    <3>3. CASE c.kind = "subscribe"
      BY <2>1, <3>1, <3>2, <3>3 DEF PeerType, Server
    <3>4. CASE c.kind = "unsubscribe"
      BY <2>1, <3>1, <3>2, <3>4 DEF PeerType, Server
    <3>5. CASE c.kind \notin {"subscribe", "unsubscribe"}
      BY <2>1, <3>5 DEF PeerType, Server
    <3>6. QED BY <3>3, <3>4, <3>5
  <2>6. /\ entry' = Woken(entry)
        /\ UNCHANGED user /\ UNCHANGED <<ac, cb>>
        /\ UNCHANGED <<freed, closed, hasty, mtx, pc, ev, crashed>>
        /\ UNCHANGED <<fns, calls, downs>>
    BY <1>4, Zenon DEF ServerReads
  <2>7. entry' \in Entry
    BY <2>6, EntryType DEF PeerType
  <2>8. QED BY <2>4, <2>5, <2>6, <2>7 DEF user, ScriptType, ContextType, ThreadType, PeerType, UserType
<1>5. QED BY <1>1, <1>2, <1>3, <1>4 DEF Network

\* Steps that leave the user, the server and the history alone.
LEMMA TypeHandler ==
  ASSUME TypeOK, Running,
         EpollWait \/ OnActive \/ HandleConnect \/ ConnectReturn \/ RefusedReturn
  PROVE  TypeOK'
<1> USE DEF TypeOK
<1>0. \A p \in {"idle", "picked", "read", "write", "loop", "connected", "refused", "free"} : p \in Places
  BY DEF Places
<1>1. CASE EpollWait
  <2>1. /\ entry' = [entry EXCEPT !.edge = FALSE] /\ ev' = Mask(link, entry.armed)
        /\ pc' = [pc EXCEPT !["poller"] = IF ev' = {} THEN "idle" ELSE "picked"]
        /\ UNCHANGED user /\ UNCHANGED <<ac, cb>>
        /\ UNCHANGED <<freed, closed, hasty, mtx, crashed>>
        /\ UNCHANGED <<link, server>> /\ UNCHANGED <<fns, calls, downs>>
    BY <1>1, Zenon DEF EpollWait
  <2>2. ev' \subseteq {"R", "W"}
    BY <2>1 DEF Mask
  <2>3. entry' \in Entry
    BY <2>1, EntryType DEF PeerType
  <2>4. pc' \in [Threads -> Places]
    BY <1>0, <2>1 DEF ThreadType
  <2>5. QED BY <2>1, <2>2, <2>3, <2>4 DEF user, ScriptType, ContextType, ThreadType, PeerType, UserType
<1>2. CASE OnActive
  <2>1. /\ Hold("poller", IF "R" \in ev THEN "read" ELSE "write")
        /\ UNCHANGED user /\ UNCHANGED <<ac, cb>>
        /\ UNCHANGED <<freed, closed, hasty, ev, crashed>>
        /\ UNCHANGED <<link, entry, server>> /\ UNCHANGED <<fns, calls, downs>>
    BY <1>2, Zenon DEF OnActive
  <2>2. pc' \in [Threads -> Places] /\ mtx' \in Threads \cup {"free"}
    BY <1>0, <2>1, GoType DEF Threads
  <2>3. QED BY <2>1, <2>2 DEF user, ScriptType, ContextType, ThreadType, PeerType, UserType
<1>3. CASE HandleConnect
  <2>1. /\ \/ /\ ac' = [ac EXCEPT !.err = TRUE] /\ entry' = [entry EXCEPT !.added = FALSE]
              /\ Release("poller", "refused")
           \/ /\ ac' = [ac EXCEPT !.flags = @ \cup {"CONNECTED"}]
              /\ Release("poller", "connected") /\ UNCHANGED entry
        /\ UNCHANGED user /\ UNCHANGED cb
        /\ UNCHANGED <<freed, closed, hasty, ev, crashed>>
        /\ UNCHANGED <<link, server>> /\ UNCHANGED <<fns, calls, downs>>
    BY <1>3, Zenon DEF HandleConnect
  <2>2. pc' \in [Threads -> Places] /\ mtx' \in Threads \cup {"free"}
    BY <1>0, <2>1, GoType DEF Threads
  <2>3. ac' \in Context
    BY <2>1 DEF ContextType, Context, Flags
  <2>4. entry' \in Entry
    BY <2>1, EntryType DEF PeerType
  <2>5. QED BY <2>1, <2>2, <2>3, <2>4 DEF user, ScriptType, ContextType, ThreadType, PeerType, UserType
<1>4. CASE ConnectReturn
  <2>1. /\ Hold("poller", IF "R" \in ev THEN "read" ELSE "write")
        /\ UNCHANGED user /\ UNCHANGED <<ac, cb>>
        /\ UNCHANGED <<freed, closed, hasty, ev, crashed>>
        /\ UNCHANGED <<link, entry, server>> /\ UNCHANGED <<fns, calls, downs>>
    BY <1>4, Zenon DEF ConnectReturn
  <2>2. pc' \in [Threads -> Places] /\ mtx' \in Threads \cup {"free"}
    BY <1>0, <2>1, GoType DEF Threads
  <2>3. QED BY <2>1, <2>2 DEF user, ScriptType, ContextType, ThreadType, PeerType, UserType
<1>5. CASE RefusedReturn
  <2>1. /\ ac' = Disconnect(ac, TRUE) /\ Hold("poller", "free")
        /\ UNCHANGED user /\ UNCHANGED cb
        /\ UNCHANGED <<freed, closed, hasty, ev, crashed>>
        /\ UNCHANGED <<link, entry, server>> /\ UNCHANGED <<fns, calls, downs>>
    BY <1>5, Zenon DEF RefusedReturn
  <2>2. pc' \in [Threads -> Places] /\ mtx' \in Threads \cup {"free"}
    BY <1>0, <2>1, GoType DEF Threads
  <2>3. ac' \in Context
    BY <2>1, DisconnectType DEF ContextType
  <2>4. QED BY <2>1, <2>2, <2>3 DEF user, ScriptType, ContextType, ThreadType, PeerType, UserType
<1>6. QED BY <1>1, <1>2, <1>3, <1>4, <1>5

LEMMA TypeRead ==
  ASSUME TypeOK, Running, HandleRead
  PROVE  TypeOK'
<1> USE DEF TypeOK
<1>1. /\ UNCHANGED user /\ UNCHANGED server /\ UNCHANGED <<fns, calls, downs>>
      /\ UNCHANGED <<freed, closed, hasty, ev, crashed>>
  BY Zenon DEF HandleRead
<1>2. "free" \in Places /\ "loop" \in Places /\ "poller" \in Threads /\ NullCb \in Cb
  BY DEF Places, Threads, NullCb, Cb
<1>3. CASE /\ ac' = Disconnect(ac, TRUE) /\ Hold("poller", "free")
           /\ UNCHANGED <<link, entry, cb>>
  <2>1. pc' \in [Threads -> Places] /\ mtx' \in Threads \cup {"free"}
    BY <1>2, <1>3, GoType
  <2>2. ac' \in Context
    BY <1>3, DisconnectType DEF ContextType
  <2>3. QED BY <1>1, <1>3, <2>1, <2>2 DEF user, ScriptType, ContextType, ThreadType, PeerType, UserType
<1>4. CASE \E k \in 0 .. Len(link.toClient) :
            /\ ac' = [ac EXCEPT !.ibuf = @ \o SubSeq(link.toClient, 1, k)]
            /\ link' = [link EXCEPT !.toClient = SubSeq(@, k + 1, Len(@))]
            /\ entry' = AddRead(entry, link')
            /\ cb' = NullCb /\ Hold("poller", "loop")
  <2>1. PICK k \in 0 .. Len(link.toClient) :
            /\ ac' = [ac EXCEPT !.ibuf = @ \o SubSeq(link.toClient, 1, k)]
            /\ link' = [link EXCEPT !.toClient = SubSeq(@, k + 1, Len(@))]
            /\ entry' = AddRead(entry, link')
            /\ cb' = NullCb /\ Hold("poller", "loop")
    BY <1>4
  <2>2. link.toClient \in Seq(Got) /\ ac.ibuf \in Seq(Got)
    BY DEF PeerType, Link, ContextType, Context
  <2>3. /\ SubSeq(link.toClient, 1, k) \in Seq(Got)
        /\ SubSeq(link.toClient, k + 1, Len(link.toClient)) \in Seq(Got)
    BY <2>2, CutType
  <2>4. ac.ibuf \o SubSeq(link.toClient, 1, k) \in Seq(Got)
    BY <2>2, <2>3, ConcatProperties
  <2>5. ac' \in Context
    BY <2>1, <2>4 DEF ContextType, Context
  <2>6. link' \in Link /\ entry' \in Entry
    BY <2>1, <2>3, EntryType DEF PeerType, Link
  <2>7. pc' \in [Threads -> Places] /\ mtx' \in Threads \cup {"free"}
    BY <1>2, <2>1, GoType
  <2>8. QED BY <1>1, <1>2, <2>1, <2>5, <2>6, <2>7 DEF user, ScriptType, ContextType, ThreadType, PeerType, UserType
<1>5. QED BY <1>3, <1>4 DEF HandleRead

LEMMA TypeWrite ==
  ASSUME TypeOK, Running, HandleWrite
  PROVE  TypeOK'
<1> USE DEF TypeOK
<1>1. /\ UNCHANGED user /\ UNCHANGED server /\ UNCHANGED <<fns, calls, downs>>
      /\ UNCHANGED <<freed, closed, hasty, cb, crashed>>
  BY Zenon DEF HandleWrite
<1>2. "free" \in Places /\ "poller" \in Threads
  BY DEF Places, Threads
<1>3. CASE /\ ac' = Disconnect(ac, TRUE) /\ Hold("poller", "free")
           /\ UNCHANGED <<link, entry, ev>>
  <2>1. pc' \in [Threads -> Places] /\ mtx' \in Threads \cup {"free"}
    BY <1>2, <1>3, GoType
  <2>2. ac' \in Context
    BY <1>3, DisconnectType DEF ContextType
  <2>3. QED BY <1>1, <1>3, <2>1, <2>2 DEF user, ScriptType, ContextType, ThreadType, PeerType, UserType
<1>4. CASE \E k \in 0 .. Len(ac.obuf) :
               /\ ac' = [ac EXCEPT !.obuf = SubSeq(@, k + 1, Len(@))]
               /\ link' = [link EXCEPT !.toServer = @ \o SubSeq(ac.obuf, 1, k)]
               /\ entry' = AddRead(Rearm(entry, link', ac'.obuf = <<>>), link')
               /\ Leave("poller")
  <2>1. PICK k \in 0 .. Len(ac.obuf) :
               /\ ac' = [ac EXCEPT !.obuf = SubSeq(@, k + 1, Len(@))]
               /\ link' = [link EXCEPT !.toServer = @ \o SubSeq(ac.obuf, 1, k)]
               /\ entry' = AddRead(Rearm(entry, link', ac'.obuf = <<>>), link')
               /\ Leave("poller")
    BY <1>4
  <2>2. ac.obuf \in Seq(Sent) /\ link.toServer \in Seq(Sent)
    BY DEF PeerType, Link, ContextType, Context
  <2>3. /\ SubSeq(ac.obuf, 1, k) \in Seq(Sent)
        /\ SubSeq(ac.obuf, k + 1, Len(ac.obuf)) \in Seq(Sent)
    BY <2>2, CutType
  <2>4. link.toServer \o SubSeq(ac.obuf, 1, k) \in Seq(Sent)
    BY <2>2, <2>3, ConcatProperties
  <2>5. ac' \in Context
    BY <2>1, <2>3 DEF ContextType, Context
  <2>6. link' \in Link
    BY <2>1, <2>4 DEF PeerType, Link
  <2>7. entry' \in Entry
    BY <2>1, EntryType DEF PeerType, Rearm
  <2>8. /\ pc' \in [Threads -> Places] /\ mtx' \in Threads \cup {"free"}
        /\ ev' \subseteq {"R", "W"}
    BY <1>2, <2>1, LeaveType
  <2>9. QED BY <1>1, <2>5, <2>6, <2>7, <2>8 DEF user, ScriptType, ContextType, ThreadType, PeerType, UserType
<1>5. QED BY <1>3, <1>4, Zenon DEF HandleWrite

LEMMA TypeReply ==
  ASSUME TypeOK, Running, NoMoreReplies \/ BadReply \/ ProcessReply
  PROVE  TypeOK'
<1> USE DEF TypeOK
<1>0. /\ "free" \in Places /\ "callback" \in Places /\ "poller" \in Threads
      /\ ac \in Context /\ ac.ibuf \in Seq(Got) /\ ac.replies \in Seq(Cb) /\ cb \in Cb
  BY DEF Places, Threads, ContextType, Context
<1>1. CASE NoMoreReplies
  <2>1. /\ UNCHANGED user /\ UNCHANGED <<link, entry, server>> /\ UNCHANGED <<fns, calls, downs>>
        /\ UNCHANGED <<freed, closed, hasty, cb, crashed>>
    BY <1>1, Zenon DEF NoMoreReplies
  <2>2. CASE ac' = Disconnect(ac, FALSE) /\ Hold("poller", "free") /\ UNCHANGED ev
    <3>1. pc' \in [Threads -> Places] /\ mtx' \in Threads \cup {"free"}
      BY <1>0, <2>2, GoType
    <3>2. ac' \in Context
      BY <1>0, <2>2, DisconnectType
    <3>3. QED BY <2>1, <2>2, <3>1, <3>2 DEF user, ScriptType, ContextType, ThreadType, PeerType, UserType
  <2>3. CASE /\ ac' = [ac EXCEPT !.replies =
                        IF "MONITORING" \in ac.flags THEN Append(@, cb) ELSE @]
             /\ Leave("poller")
    <3>1. Append(ac.replies, cb) \in Seq(Cb)
      BY <1>0, AppendProperties
    <3>2. ac' \in Context
      BY <1>0, <2>3, <3>1 DEF Context
    <3>3. /\ pc' \in [Threads -> Places] /\ mtx' \in Threads \cup {"free"}
          /\ ev' \subseteq {"R", "W"}
      BY <1>0, <2>3, LeaveType
    <3>4. QED BY <2>1, <3>2, <3>3 DEF user, ScriptType, ContextType, ThreadType, PeerType, UserType
  <2>4. QED BY <1>1, <2>2, <2>3, Zenon DEF NoMoreReplies
<1>2. CASE BadReply
  <2>1. /\ UNCHANGED user /\ UNCHANGED <<link, entry, server>> /\ UNCHANGED <<fns, calls, downs>>
        /\ UNCHANGED <<freed, closed, hasty, ev, cb, crashed>>
        /\ ac.ibuf # <<>>
        /\ ac' = Disconnect([ac EXCEPT !.ibuf = Tail(@)], TRUE) /\ Hold("poller", "free")
    BY <1>2, Zenon DEF BadReply
  <2>2. pc' \in [Threads -> Places] /\ mtx' \in Threads \cup {"free"}
    BY <1>0, <2>1, GoType
  <2>3. [ac EXCEPT !.ibuf = Tail(@)] \in Context
    BY <1>0, <2>1, HeadTailProperties DEF Context
  <2>4. ac' \in Context
    BY <2>1, <2>3, DisconnectType
  <2>5. QED BY <2>1, <2>2, <2>4 DEF user, ScriptType, ContextType, ThreadType, PeerType, UserType
<1>3. CASE ProcessReply
  <2> DEFINE r == Head(ac.ibuf)
             x == CallbackFor([ac EXCEPT !.ibuf = Tail(@)], r)
  <2>1. /\ UNCHANGED user /\ UNCHANGED <<link, entry, server>> /\ UNCHANGED <<fns, downs>>
        /\ UNCHANGED <<freed, closed, hasty, ev>>
        /\ ac.ibuf # <<>>
    BY <1>3, Zenon DEF ProcessReply
  <2>2. r \in Got /\ [ac EXCEPT !.ibuf = Tail(@)] \in Context
    BY <1>0, <2>1, HeadTailProperties DEF Context
  <2>3. x.cb \in Cb /\ x.ac \in Context
    BY <1>0, <2>2, CallbackForType
  <2> HIDE DEF r, x
  <2>4. CASE crashed' = "assert" /\ UNCHANGED <<ac, cb, calls, pc, mtx>>
    BY <2>1, <2>4 DEF user, ScriptType, ContextType, ThreadType, PeerType, UserType
  <2>5. CASE /\ cb' = x.cb
             /\ CallUser("poller", x.ac, x.cb, r, "callback")
    <3>1. /\ ac' \in Context /\ calls' \in Seq(Call) /\ pc' \in [Threads -> Places]
          /\ mtx' \in Threads \cup {"free"} /\ crashed' \in {"no", "freed", "assert", "empty"}
      BY <1>0, <2>2, <2>3, <2>5, CallType
    <3>2. QED BY <2>1, <2>3, <2>5, <3>1 DEF user, ScriptType, ContextType, ThreadType, PeerType, UserType
  <2>6. CASE cb' = x.cb /\ ac' = x.ac /\ UNCHANGED <<calls, pc, mtx, crashed>>
    BY <2>1, <2>3, <2>6 DEF user, ScriptType, ContextType, ThreadType, PeerType, UserType
  <2>7. QED BY <1>3, <2>4, <2>5, <2>6, Zenon DEF ProcessReply, r, x
<1>4. QED BY <1>1, <1>2, <1>3

LEMMA TypeBoth ==
  ASSUME TypeOK, Running, NEW t \in Threads, Both(t)
  PROVE  TypeOK'
<1> USE DEF TypeOK
<1>0. /\ \A p \in {"free", "loop", "nil", "unlocked", "disconnected", "idle"} : p \in Places
      /\ ac \in Context /\ ac.flags \subseteq Flags /\ fns \in Seq(Nat) /\ Nil \in Got
  BY DEF Places, ContextType, Context, UserType, Nil, Got, Topics
<1>1. CASE CallbackReturn(t)
  <2>1. /\ UNCHANGED user /\ UNCHANGED <<link, entry, server>> /\ UNCHANGED <<calls, downs>>
        /\ UNCHANGED <<freed, closed, hasty, cb, ev>>
    BY <1>1, Zenon DEF CallbackReturn
  <2>2. CASE crashed' = "empty" /\ UNCHANGED <<ac, fns, pc, mtx>>
    BY <2>1, <2>2 DEF user, ScriptType, ContextType, ThreadType, PeerType, UserType
  <2>3. CASE /\ fns # <<>> /\ fns' = Tail(fns)
             /\ ac' = [ac EXCEPT !.flags = @ \ {"IN_CALLBACK"}]
             /\ Hold(t, IF pc[t] = "callback" THEN "loop" ELSE "free")
             /\ UNCHANGED crashed
    <3>1. fns' \in Seq(Nat)
      BY <1>0, <2>3, HeadTailProperties
    <3>2. ac' \in Context
      BY <1>0, <2>3 DEF Context
    <3>3. pc' \in [Threads -> Places] /\ mtx' \in Threads \cup {"free"}
      BY <1>0, <2>3, GoType
    <3>4. QED BY <2>1, <2>3, <3>1, <3>2, <3>3 DEF user, ScriptType, ContextType, ThreadType, PeerType, UserType
  <2>4. QED BY <1>1, <2>2, <2>3, Zenon DEF CallbackReturn
<1>2. CASE RunPending(t)
  <2>1. /\ UNCHANGED user /\ UNCHANGED <<link, entry, server>> /\ UNCHANGED <<fns, downs>>
        /\ UNCHANGED <<freed, closed, hasty, cb, ev>>
    BY <1>2, Zenon DEF RunPending
  <2>2. PICK x \in Pending(ac) :
          IF x.cb.fn THEN CallUser(t, x.ac, x.cb, Nil, "nil")
          ELSE ac' = x.ac /\ UNCHANGED <<calls, pc, mtx, crashed>>
    BY <1>2, Zenon DEF RunPending
  <2>3. x.cb \in Cb /\ x.ac \in Context
    BY <1>0, <2>2, PendingType
  <2>4. CASE CallUser(t, x.ac, x.cb, Nil, "nil")
    <3>1. /\ ac' \in Context /\ calls' \in Seq(Call) /\ pc' \in [Threads -> Places]
          /\ mtx' \in Threads \cup {"free"} /\ crashed' \in {"no", "freed", "assert", "empty"}
      BY <1>0, <2>3, <2>4, CallType
    <3>2. QED BY <2>1, <3>1 DEF user, ScriptType, ContextType, ThreadType, PeerType, UserType
  <2>5. CASE ac' = x.ac /\ UNCHANGED <<calls, pc, mtx, crashed>>
    <3>1. ac' \in Context
      BY <2>3, <2>5
    <3>2. UNCHANGED <<calls, pc, mtx, crashed>>
      BY <2>5
    <3>3. QED BY <2>1, <3>1, <3>2 DEF user, ScriptType, ContextType, ThreadType, PeerType, UserType
  <2>6. QED BY <2>2, <2>4, <2>5
<1>3. CASE Cleanup(t)
  <2>1. /\ UNCHANGED user /\ UNCHANGED <<link, server>> /\ UNCHANGED <<fns, calls, downs>>
        /\ UNCHANGED <<ac, closed, hasty, cb, crashed>>
        /\ entry' = [entry EXCEPT !.added = FALSE]
        /\ \/ Release(t, "unlocked") /\ UNCHANGED <<freed, ev>>
           \/ freed' = TRUE /\ Leave(t)
    BY <1>3, Zenon DEF Cleanup
  <2>2. entry' \in Entry
    BY <2>1, EntryType DEF PeerType
  <2>3. /\ pc' \in [Threads -> Places] /\ mtx' \in Threads \cup {"free"}
        /\ ev' \subseteq {"R", "W"} /\ freed' \in BOOLEAN
    BY <1>0, <2>1, LeaveType, GoType DEF ThreadType
  <2>4. QED BY <2>1, <2>2, <2>3 DEF user, ScriptType, ContextType, ThreadType, PeerType, UserType
<1>4. CASE DisconnectCallback(t)
  <2>1. /\ UNCHANGED user /\ UNCHANGED <<link, entry, server>> /\ UNCHANGED <<fns, calls>>
        /\ UNCHANGED <<ac, freed, hasty, mtx, cb, ev, crashed>>
        /\ closed' = TRUE /\ downs' = downs + 1
        /\ pc' = [pc EXCEPT ![t] = "disconnected"]
    BY <1>4, Zenon DEF DisconnectCallback
  <2>2. pc' \in [Threads -> Places] /\ downs' \in Nat
    BY <1>0, <2>1 DEF ThreadType, UserType
  <2>3. QED BY <2>1, <2>2 DEF user, ScriptType, ContextType, ThreadType, PeerType, UserType
<1>5. CASE DisconnectReturn(t)
  <2>1. /\ UNCHANGED user /\ UNCHANGED <<link, entry, server>> /\ UNCHANGED <<fns, calls, downs>>
        /\ UNCHANGED <<ac, closed, hasty, cb, crashed>>
        /\ freed' = TRUE /\ Leave(t)
    BY <1>5, Zenon DEF DisconnectReturn
  <2>2. /\ pc' \in [Threads -> Places] /\ mtx' \in Threads \cup {"free"}
        /\ ev' \subseteq {"R", "W"}
    BY <2>1, LeaveType
  <2>3. QED BY <2>1, <2>2 DEF user, ScriptType, ContextType, ThreadType, PeerType, UserType
<1>6. CASE Fault(t)
  <2>1. /\ UNCHANGED user /\ UNCHANGED <<link, entry, server>> /\ UNCHANGED <<fns, calls, downs>>
        /\ UNCHANGED <<ac, closed, freed, hasty, cb, mtx, pc, ev>>
        /\ crashed' = "freed"
    BY <1>6, Zenon DEF Fault
  <2>2. QED BY <2>1 DEF user, ScriptType, ContextType, ThreadType, PeerType, UserType
<1>7. QED BY <1>1, <1>2, <1>3, <1>4, <1>5, <1>6 DEF Both

LEMMA PutType ==
  ASSUME NEW x \in Context, NEW c \in [kind : Kinds, topic : Topics, fn : BOOLEAN],
         NEW id \in Nat
  PROVE  PutCallback(x, c, id) \in Context
<1> DEFINE new == [id |-> id, fn |-> c.fn]
<1>1. new \in Cb /\ x.replies \in Seq(Cb) /\ x.invalid \in Seq(Cb) /\ x.subs \in Subs
  BY DEF Cb, Context
<1> HIDE DEF new
<1>2. /\ Append(x.replies, new) \in Seq(Cb) /\ Append(x.invalid, new) \in Seq(Cb)
  BY <1>1, AppendProperties
<1>3. With(x.subs, c.topic, new) \in Subs
  BY <1>1, WithType
<1>4. /\ [x EXCEPT !.flags = @ \cup {"SUBSCRIBED"}, !.subs = With(@, c.topic, new)] \in Context
      /\ [x EXCEPT !.flags = @ \cup {"MONITORING"}, !.replies = Append(@, new)] \in Context
      /\ [x EXCEPT !.invalid = Append(@, new)] \in Context
      /\ [x EXCEPT !.replies = Append(@, new)] \in Context
  BY <1>2, <1>3 DEF Context, Flags
<1>5. QED BY <1>4 DEF PutCallback, new

LEMMA TypeUserStep ==
  ASSUME TypeOK, Running, User
  PROVE  TypeOK'
<1> USE DEF TypeOK
<1>1. CASE redisAsyncCommand
  <2> DEFINE c == script[next]
  <2>1. /\ next <= Len(script) /\ next' = next + 1 /\ UNCHANGED script
        /\ UNCHANGED <<freed, closed, mtx, pc, ev, hasty>> /\ UNCHANGED cb
        /\ UNCHANGED <<link, server>> /\ UNCHANGED <<calls, downs>>
    BY <1>1, Zenon DEF redisAsyncCommand
  <2>2. /\ next \in 1 .. Len(script) /\ next \in Nat
        /\ c \in [kind : Kinds, topic : Topics, fn : BOOLEAN]
    <3>1. script \in Seq([kind : Kinds, topic : STRING, fn : BOOLEAN]) /\ next \in 1 .. Len(script)
      BY <2>1, ScriptIs DEF ScriptType
    <3>2. c \in [kind : Kinds, topic : STRING, fn : BOOLEAN]
      BY <3>1, ElementOfSeq
    <3>3. c \in [kind : Kinds, topic : Topics, fn : BOOLEAN]
      <4> HIDE DEF c
      <4>1. STRING \subseteq Topics
        BY DEF Topics
      <4>2. QED BY <3>2, <4>1
    <3>4. QED BY <3>1, <3>3, ScriptIs DEF ScriptType
  <2>3. ScriptType'
    BY <2>1, <2>2, ScriptIs DEF ScriptType
  <2>4. CASE UNCHANGED <<ac, fns, entry, accepted, crashed>>
    BY <2>1, <2>3, <2>4 DEF user, ScriptType, ContextType, ThreadType, PeerType, UserType
  <2>5. CASE crashed' = "freed" /\ UNCHANGED <<ac, fns, entry, accepted>>
    BY <2>1, <2>3, <2>5 DEF user, ScriptType, ContextType, ThreadType, PeerType, UserType
  <2>6. CASE /\ ac' = [PutCallback(ac, c, next) EXCEPT
                         !.obuf = Append(@, [kind |-> c.kind, topic |-> c.topic, id |-> next])]
             /\ entry' = AddWrite(entry, link)
             /\ fns' = IF c.fn THEN Append(fns, next) ELSE fns
             /\ accepted' = IF c.fn THEN accepted \cup {next} ELSE accepted
             /\ UNCHANGED crashed
    <3>1. PutCallback(ac, c, next) \in Context
      BY <2>2, PutType DEF ContextType
    <3>2. [kind |-> c.kind, topic |-> c.topic, id |-> next] \in Sent
      <4> HIDE DEF c
      <4>1. QED BY <2>2 DEF Sent
    <3>3. ac' \in Context
      <4>1. PutCallback(ac, c, next).obuf \in Seq(Sent)
        BY <3>1 DEF Context
      <4>2. Append(PutCallback(ac, c, next).obuf,
                   [kind |-> c.kind, topic |-> c.topic, id |-> next]) \in Seq(Sent)
        BY <3>2, <4>1, AppendProperties
      <4> HIDE DEF c
      <4>3. QED BY <2>6, <3>1, <4>2 DEF Context
    <3>4. entry' \in Entry
      BY <2>6, EntryType DEF PeerType
    <3>5. fns' \in Seq(Nat) /\ accepted' \subseteq Nat
      <4>1. Append(fns, next) \in Seq(Nat)
        BY <2>2, AppendProperties DEF UserType
      <4> HIDE DEF c
      <4>2. QED BY <2>2, <2>6, <4>1 DEF UserType
    <3> HIDE DEF c
    <3>6. crashed' = crashed
      BY <2>6
    <3>7. QED BY <2>1, <2>3, <3>3, <3>4, <3>5, <3>6 DEF user, ScriptType, ContextType, ThreadType, PeerType, UserType
  <2>7. QED BY <1>1, <2>4, <2>5, <2>6, Zenon DEF redisAsyncCommand
<1>2. CASE Close
  <2>1. /\ UNCHANGED user /\ UNCHANGED <<link, entry, server>> /\ UNCHANGED <<fns, calls, downs>>
        /\ UNCHANGED <<freed, cb, ev>> /\ closed' = TRUE
    BY <1>2, Zenon DEF Close
  <2>2. CASE crashed' = "freed" /\ UNCHANGED <<ac, pc, mtx, hasty>>
    BY <2>1, <2>2 DEF user, ScriptType, ContextType, ThreadType, PeerType, UserType
  <2>3. CASE /\ ac' = [ac EXCEPT !.flags = @ \cup {"DISCONNECTING"}]
             /\ hasty' = (hasty \/ "IN_CALLBACK" \notin ac.flags)
             /\ Hold("user", "free") \/ UNCHANGED <<pc, mtx>>
             /\ UNCHANGED crashed
    <3>1. ac' \in Context
      BY <2>3 DEF ContextType, Context, Flags
    <3>2. pc' \in [Threads -> Places] /\ mtx' \in Threads \cup {"free"}
      <4>1. "user" \in Threads /\ "free" \in Places
        BY DEF Threads, Places
      <4>2. QED BY <2>3, <4>1, GoType DEF ThreadType
    <3>3. hasty' \in BOOLEAN /\ crashed' = crashed
      BY <2>3 DEF ThreadType
    <3>4. QED BY <2>1, <3>1, <3>2, <3>3 DEF user, ScriptType, ContextType, ThreadType, PeerType, UserType
  <2>4. QED BY <1>2, <2>2, <2>3, Zenon DEF Close
<1>3. QED BY <1>1, <1>2 DEF User

LEMMA TypeStep == TypeOK /\ [Next]_vars => TypeOK'
<1> SUFFICES ASSUME TypeOK, [Next]_vars PROVE TypeOK'
  OBVIOUS
<1>1. CASE UNCHANGED vars
  BY <1>1 DEF vars, TypeOK, ScriptType, ContextType, ThreadType, PeerType, UserType
<1>2. CASE Next
  BY <1>2, TypeHandler, TypeRead, TypeWrite, TypeReply, TypeBoth, TypeUserStep, TypeNetwork
     DEF Next, Poll
<1>3. QED BY <1>1, <1>2

\* Every variable keeps its type: what is read and sent are replies and commands, and
\* each entry of a list of callbacks is one (async.c, RedisCli.cpp).
THEOREM TypeCorrect == Spec => []TypeOK
  BY TypeInit, TypeStep, PTL DEF Spec


-----------------------------------------------------------------------------
(* The lock and the end of a connection.                                       *)

Locked == {"read", "write", "loop", "free"}
Ending == {"free", "nil", "unlocked", "disconnected"}

\* RedisConn::mtx is held exactly in the handlers.
Locks == \A t \in Threads : mtx = t <=> pc[t] \in Locked

\* A thread in __redisAsyncFree: no command is accepted, the entry of epoll is removed
\* before the disconnect callback, which closes the connection before the context is
\* freed.  Unless the user closes it outside a callback for a reply, only OnActive
\* comes there, and it is back, or on its way to redisAsyncHandleWrite, when the
\* context is freed.
Phases ==
  /\ \A t \in Threads :
       /\ pc[t] \in Ending => "DISCONNECTING" \in ac.flags
       /\ pc[t] \in {"unlocked", "disconnected"} => ~entry.added
       /\ pc[t] = "disconnected" => closed
  /\ freed => "DISCONNECTING" \in ac.flags /\ ~entry.added /\ ("CONNECTED" \in ac.flags => closed)
  /\ pc["user"] \in Ending \cup {"idle"}
  /\ ~hasty => pc["user"] = "idle"
  /\ ~hasty /\ freed => pc["poller"] \in {"idle", "write"}
  /\ ~hasty /\ downs > 0 => freed \/ pc["poller"] = "disconnected"
  /\ crashed = "freed" => hasty \/ pc["poller"] = "write"

\* A step of thread t takes it to another place, with the lock where it needs it.
Move(t) ==
  /\ mtx \in {t, "free"}
  /\ \E p \in Places : IF p \in Locked THEN Hold(t, p) ELSE Release(t, p)

LEMMA MoveKeepsLocks ==
  ASSUME ThreadType, Locks, NEW t \in Threads, Move(t)
  PROVE  Locks'
  BY DEF ThreadType, Locks, Move, Hold, Release, Threads, Locked

LEMMA LeaveMoves ==
  ASSUME ThreadType, NEW t \in Threads, mtx = t \/ mtx = "free", Leave(t)
  PROVE  Move(t) /\ pc'[t] \in {"idle", "write"} /\ (t = "user" => pc'[t] = "idle")
         /\ \A u \in Threads : u # t => pc'[u] = pc[u]
<1>1. \/ Hold(t, "write") /\ t = "poller" 
      \/ Release(t, "idle")
  BY Zenon DEF Leave
<1>2. "write" \in Places /\ "idle" \in Places /\ "write" \in Locked /\ "idle" \notin Locked
  BY DEF Places, Locked
<1>3. Move(t)
  BY <1>1, <1>2 DEF Move
<1>4. QED BY <1>1, <1>3 DEF Hold, Release, ThreadType, Threads

LEMMA EntryKept ==
  ASSUME NEW e \in Entry, NEW l
  PROVE  /\ Woken(e).added = e.added /\ AddWrite(e, l).added = e.added
         /\ DelWrite(e, l).added = e.added /\ AddRead(e, l).added = e.added
  BY DEF Entry, Woken, AddWrite, DelWrite, AddRead

\* Flags that only the end of a connection, or its start, sets.
LEMMA CallbackForKeeps ==
  ASSUME cb \in Cb, NEW x \in Context, NEW r \in Got, NEW f, f # "SUBSCRIBED"
  PROVE  f \in CallbackFor(x, r).ac.flags <=> f \in x.flags
<1>1. \/ CallbackFor(x, r).ac = [x EXCEPT !.replies = Tail(@)]
      \/ CallbackFor(x, r).ac = [x EXCEPT !.subs = Without(@, r.topic),
                                   !.flags = IF r.left = 0 THEN @ \ {"SUBSCRIBED"} ELSE @]
      \/ CallbackFor(x, r).ac = [x EXCEPT !.invalid = Tail(@)]
      \/ CallbackFor(x, r).ac = x
  BY DEF CallbackFor, GetSubscribeCallback
<1>2. QED BY <1>1 DEF Context

LEMMA PendingKeeps ==
  ASSUME NEW x \in Context, NEW p \in Pending(x)
  PROVE  p.ac.flags = x.flags
<1>1. \/ p.ac = [x EXCEPT !.replies = Tail(@)]
      \/ p.ac = [x EXCEPT !.invalid = Tail(@)]
      \/ \E t \in DOMAIN x.subs : p.ac = [x EXCEPT !.subs = Without(@, t)]
  BY SMTT(30) DEF Pending
<1>2. QED BY <1>1 DEF Context

LEMMA PutKeeps ==
  ASSUME NEW x \in Context, NEW c, NEW id
  PROVE  /\ \A f : f \notin {"SUBSCRIBED", "MONITORING"} =>
              (f \in PutCallback(x, c, id).flags <=> f \in x.flags)
         /\ x.flags \subseteq PutCallback(x, c, id).flags
<1> DEFINE new == [id |-> id, fn |-> c.fn]
<1>1. \/ PutCallback(x, c, id) = 
            [x EXCEPT !.flags = @ \cup {"SUBSCRIBED"}, !.subs = With(@, c.topic, new)]
      \/ PutCallback(x, c, id) = x
      \/ PutCallback(x, c, id) = 
            [x EXCEPT !.flags = @ \cup {"MONITORING"}, !.replies = Append(@, new)]
      \/ PutCallback(x, c, id) = [x EXCEPT !.invalid = Append(@, new)]
      \/ PutCallback(x, c, id) = [x EXCEPT !.replies = Append(@, new)]
  BY DEF PutCallback
<1> HIDE DEF new
<1>2. QED BY <1>1 DEF Context

\* What a step keeps of the flags of the context and of the entry.
Grows ==
  /\ "DISCONNECTING" \in ac.flags => "DISCONNECTING" \in ac'.flags
  /\ "CONNECTED" \in ac.flags => "CONNECTED" \in ac'.flags
  /\ freed => ("CONNECTED" \in ac'.flags => "CONNECTED" \in ac.flags)
  /\ entry'.added => entry.added

LEMMA CallGrows ==
  ASSUME TypeOK, NEW t, NEW x \in Context, NEW c, NEW r, NEW p,
         CallUser(t, x, c, r, p),
         \A f \in {"DISCONNECTING", "CONNECTED"} : f \in ac.flags <=> f \in x.flags
  PROVE  \A f \in {"DISCONNECTING", "CONNECTED"} : f \in ac.flags <=> f \in ac'.flags
<1>1. ac' = ac \/ ac' = [x EXCEPT !.flags = @ \cup {"IN_CALLBACK"}]
  BY Zenon DEF CallUser
<1>2. QED BY <1>1 DEF Context

LEMMA DisconnectFlags ==
  ASSUME NEW x \in Context
  PROVE  /\ Disconnect(x, TRUE).flags = x.flags \cup {"DISCONNECTING"}
         /\ \/ Disconnect(x, FALSE).flags = x.flags \cup {"DISCONNECTING"}
            \/ Disconnect(x, FALSE).flags = x.flags
  BY DEF Disconnect, Context

LEMMA GrowsPoll ==
  ASSUME TypeOK, Poll
  PROVE  Grows
<1>0. ac \in Context /\ entry \in Entry /\ cb \in Cb /\ ac.ibuf \in Seq(Got)
  BY DEF TypeOK, ContextType, Context, PeerType
<1>1. CASE EpollWait \/ OnActive \/ ConnectReturn
  <2>1. ac' = ac /\ (entry' = entry \/ entry' = [entry EXCEPT !.edge = FALSE])
    BY <1>1, Zenon DEF EpollWait, OnActive, ConnectReturn
  <2>2. QED BY <1>0, <2>1 DEF Grows, Entry
<1>2. CASE HandleConnect
  <2>1. /\ ~freed
        /\ \/ ac' = [ac EXCEPT !.err = TRUE] /\ entry' = [entry EXCEPT !.added = FALSE]
           \/ ac' = [ac EXCEPT !.flags = @ \cup {"CONNECTED"}] /\ entry' = entry
    BY <1>2, Zenon DEF HandleConnect, Handling, At
  <2>2. QED BY <1>0, <2>1 DEF Grows, Context, Entry
<1>3. CASE RefusedReturn
  <2>1. ac' = Disconnect(ac, TRUE) /\ entry' = entry
    BY <1>3, Zenon DEF RefusedReturn
  <2>2. ac'.flags = ac.flags \cup {"DISCONNECTING"}
    BY <1>0, <2>1, DisconnectFlags, Zenon
  <2>3. QED BY <2>1, <2>2 DEF Grows
<1>4. CASE HandleRead
  <2>1. CASE ac' = Disconnect(ac, TRUE) /\ entry' = entry
    <3>1. ac'.flags = ac.flags \cup {"DISCONNECTING"}
      BY <1>0, <2>1, DisconnectFlags, Zenon
    <3>2. QED BY <2>1, <3>1 DEF Grows
  <2>2. CASE \E k \in 0 .. Len(link.toClient) :
               /\ ac' = [ac EXCEPT !.ibuf = @ \o SubSeq(link.toClient, 1, k)]
               /\ entry' = AddRead(entry, link')
    BY <1>0, <2>2, EntryKept DEF Grows, Context
  <2>3. QED BY <1>4, <2>1, <2>2, Zenon DEF HandleRead
<1>5. CASE HandleWrite
  <2>1. CASE ac' = Disconnect(ac, TRUE) /\ entry' = entry
    <3>1. ac'.flags = ac.flags \cup {"DISCONNECTING"}
      BY <1>0, <2>1, DisconnectFlags, Zenon
    <3>2. QED BY <2>1, <3>1 DEF Grows
  <2>2. CASE \E k \in 0 .. Len(ac.obuf) :
               /\ ac' = [ac EXCEPT !.obuf = SubSeq(@, k + 1, Len(@))]
               /\ entry' = AddRead(Rearm(entry, link', ac'.obuf = <<>>), link')
    <3>1. /\ Rearm(entry, link', ac'.obuf = <<>>) \in Entry
          /\ Rearm(entry, link', ac'.obuf = <<>>).added = entry.added
      BY <1>0, EntryType, EntryKept DEF Rearm
    <3>2. entry'.added = entry.added
      <4>1. \E e \in Entry : e.added = entry.added /\ entry' = AddRead(e, link')
        BY <2>2, <3>1, Zenon
      <4>2. QED BY <4>1, EntryKept
    <3>3. ac'.flags = ac.flags
      BY <1>0, <2>2 DEF Context
    <3>4. QED BY <3>2, <3>3 DEF Grows
  <2>3. QED BY <1>5, <2>1, <2>2, Zenon DEF HandleWrite
<1>6. CASE NoMoreReplies
  <2>1. /\ entry' = entry
        /\ \/ ac' = Disconnect(ac, FALSE)
           \/ ac' = [ac EXCEPT !.replies =
                      IF "MONITORING" \in ac.flags THEN Append(@, cb) ELSE @]
    BY <1>6, Zenon DEF NoMoreReplies
  <2>2. ac'.flags = ac.flags \/ ac'.flags = ac.flags \cup {"DISCONNECTING"}
    BY <1>0, <2>1, DisconnectFlags DEF Context
  <2>3. QED BY <2>1, <2>2 DEF Grows
<1>7. CASE BadReply
  <2>1. entry' = entry /\ ac' = Disconnect([ac EXCEPT !.ibuf = Tail(@)], TRUE) /\ ac.ibuf # <<>>
    BY <1>7, Zenon DEF BadReply
  <2>2. [ac EXCEPT !.ibuf = Tail(@)] \in Context /\ [ac EXCEPT !.ibuf = Tail(@)].flags = ac.flags
    BY <1>0, <2>1, HeadTailProperties DEF Context
  <2>3. ac'.flags = ac.flags \cup {"DISCONNECTING"}
    BY <2>1, <2>2, DisconnectFlags, Zenon
  <2>4. QED BY <2>1, <2>3 DEF Grows
<1>8. CASE ProcessReply
  <2> DEFINE r == Head(ac.ibuf)
             y == [ac EXCEPT !.ibuf = Tail(@)]
             x == CallbackFor(y, r)
  <2>1. /\ entry' = entry /\ ac.ibuf # <<>>
        /\ \/ ac' = ac
           \/ ac' = x.ac
           \/ CallUser("poller", x.ac, x.cb, r, "callback")
    BY <1>8, Zenon DEF ProcessReply
  <2>2. r \in Got /\ y \in Context /\ y.flags = ac.flags
    BY <1>0, <2>1, HeadTailProperties DEF Context
  <2> HIDE DEF r, y
  <2>3. x.ac \in Context
    BY <1>0, <2>2, CallbackForType
  <2>4. \A f \in {"DISCONNECTING", "CONNECTED"} : f \in x.ac.flags <=> f \in ac.flags
    BY <1>0, <2>2, CallbackForKeeps
  <2> HIDE DEF x
  <2>5. \A f \in {"DISCONNECTING", "CONNECTED"} : f \in ac'.flags <=> f \in ac.flags
    BY <2>1, <2>3, <2>4, CallGrows
  <2>6. QED BY <2>1, <2>5 DEF Grows
<1>9. QED BY <1>1, <1>2, <1>3, <1>4, <1>5, <1>6, <1>7, <1>8 DEF Poll

LEMMA GrowsOther ==
  ASSUME TypeOK, (\E t \in Threads : Both(t)) \/ User \/ Network \/ ServerReads
  PROVE  Grows
<1>0. ac \in Context /\ entry \in Entry
  BY DEF TypeOK, ContextType, PeerType
<1>1. CASE Network \/ ServerReads
  <2>1. ac' = ac /\ entry' = Woken(entry)
    BY <1>1, Zenon DEF Network, ServerReads, Established, ServerTells, Breaks
  <2>2. QED BY <1>0, <2>1, EntryKept DEF Grows
<1>2. CASE redisAsyncCommand
  <2>1. \/ ac' = ac /\ entry' = entry
        \/ /\ ac' = [PutCallback(ac, script[next], next) EXCEPT
                         !.obuf = Append(@, [kind |-> script[next].kind, topic |-> script[next].topic, id |-> next])]
           /\ entry' = AddWrite(entry, link)
    BY <1>2, Zenon DEF redisAsyncCommand
  <2>2. CASE ac' = ac /\ entry' = entry
    BY <2>2 DEF Grows
  <2>3. CASE ac' # ac \/ entry' # entry
    <3>1. ac'.flags = PutCallback(ac, script[next], next).flags
      <4>1. next \in 1 .. Len(script) /\ script \in Seq([kind : Kinds, topic : STRING, fn : BOOLEAN])
        <5>1. next <= Len(script)
          BY <1>2, Zenon DEF redisAsyncCommand
        <5>2. QED BY <5>1, ScriptIs DEF TypeOK, ScriptType
      <4>2. script[next] \in [kind : Kinds, topic : STRING, fn : BOOLEAN] /\ next \in Nat
        BY <4>1, ElementOfSeq, ScriptIs DEF TypeOK
      <4> DEFINE c == script[next]
      <4>3. c \in [kind : Kinds, topic : Topics, fn : BOOLEAN]
        <5>1. STRING \subseteq Topics
          BY DEF Topics
        <5>2. c \in [kind : Kinds, topic : STRING, fn : BOOLEAN]
          BY <4>2
        <5> HIDE DEF c
        <5>3. QED BY <5>1, <5>2
      <4> HIDE DEF c
      <4>4. PutCallback(ac, c, next) \in Context
        BY <1>0, <4>2, <4>3, PutType
      <4>5. \E e : ac' = [PutCallback(ac, c, next) EXCEPT !.obuf = e]
        BY <2>1, <2>3 DEF c
      <4>6. ac'.flags = PutCallback(ac, c, next).flags
        BY <4>4, <4>5 DEF Context
      <4>7. QED BY <4>6 DEF c
    <3>2. entry'.added = entry.added
      BY <1>0, <2>1, <2>3, EntryKept
    <3>3. QED BY <1>0, <3>1, <3>2, PutKeeps DEF Grows
  <2>4. QED BY <2>2, <2>3
<1>3. CASE Close
  <2>1. entry' = entry /\ (ac' = ac \/ ac' = [ac EXCEPT !.flags = @ \cup {"DISCONNECTING"}])
    BY <1>3, Zenon DEF Close
  <2>2. QED BY <1>0, <2>1 DEF Grows, Context
<1>4. ASSUME NEW t \in Threads, Both(t) PROVE Grows
  <2>1. CASE CallbackReturn(t)
    <3>1. entry' = entry /\ (ac' = ac \/ ac' = [ac EXCEPT !.flags = @ \ {"IN_CALLBACK"}])
      BY <2>1, Zenon DEF CallbackReturn
    <3>2. QED BY <1>0, <3>1 DEF Grows, Context
  <2>2. CASE RunPending(t)
    <3>1. PICK x \in Pending(ac) :
            /\ entry' = entry
            /\ \/ CallUser(t, x.ac, x.cb, Nil, "nil")
               \/ ac' = x.ac
      BY <2>2, Zenon DEF RunPending
    <3>2. x.ac \in Context /\ x.ac.flags = ac.flags
      BY <1>0, <3>1, PendingType, PendingKeeps
    <3>3. \A f \in {"DISCONNECTING", "CONNECTED"} : f \in ac'.flags <=> f \in ac.flags
      BY <3>1, <3>2, CallGrows
    <3>4. QED BY <3>1, <3>3 DEF Grows
  <2>3. CASE Cleanup(t)
    <3>1. ac' = ac /\ entry' = [entry EXCEPT !.added = FALSE]
      BY <2>3, Zenon DEF Cleanup
    <3>2. QED BY <1>0, <3>1 DEF Grows, Entry
  <2>4. CASE DisconnectCallback(t) \/ DisconnectReturn(t) \/ Fault(t)
    <3>1. ac' = ac /\ entry' = entry
      BY <2>4, Zenon DEF DisconnectCallback, DisconnectReturn, Fault
    <3>2. QED BY <3>1 DEF Grows
  <2>5. QED BY <1>4, <2>1, <2>2, <2>3, <2>4 DEF Both
<1>5. QED BY <1>1, <1>2, <1>3, <1>4 DEF User

\* A step of the poller outside __redisAsyncFree.
PollEffect ==
  /\ UNCHANGED <<freed, closed, hasty, downs>>
  /\ pc'["user"] = pc["user"] /\ pc["poller"] \notin Ending
  /\ pc'["poller"] \notin Ending \ {"free"}
  /\ pc'["poller"] = "free" => "DISCONNECTING" \in ac'.flags
  /\ crashed' # "freed"
  /\ freed => pc["poller"] \in {"idle", "picked"}
  /\ pc["poller"] = "idle" => entry.added
  /\ pc["poller"] # "callback" /\ (pc'["poller"] = "callback" => ProcessReply)
  /\ calls' # calls => pc["poller"] = "loop"

LEMMA PollEffects ==
  ASSUME TypeOK, Locks, Running, Poll
  PROVE  PollEffect /\ Locks'
<1>0. /\ ac \in Context /\ cb \in Cb /\ ac.ibuf \in Seq(Got) /\ ThreadType
      /\ pc \in [Threads -> Places] /\ crashed = "no"
      /\ "poller" \in Threads /\ "user" \in Threads
  BY DEF TypeOK, ContextType, Context, ThreadType, Running, Threads
<1>1. CASE EpollWait
  <2>1. /\ pc["poller"] = "idle" /\ entry.added
        /\ pc' = [pc EXCEPT !["poller"] = IF ev' = {} THEN "idle" ELSE "picked"]
        /\ UNCHANGED <<freed, closed, hasty, downs, calls, crashed, mtx>>
    BY <1>1, Zenon DEF EpollWait
  <2>2. pc'["user"] = pc["user"] /\ pc'["poller"] \in {"idle", "picked"}
    BY <1>0, <2>1
  <2>3. Locks'
    BY <1>0, <2>1, <2>2 DEF Locks, Locked, Threads
  <2>4. QED BY <1>0, <2>1, <2>2, <2>3 DEF PollEffect, Ending
<1>2. CASE OnActive
  <2>1. /\ Hold("poller", IF "R" \in ev THEN "read" ELSE "write") /\ mtx = "free"
        /\ UNCHANGED <<freed, closed, hasty, downs, calls, crashed>>
        /\ pc["poller"] = "picked"
    BY <1>2, Zenon DEF OnActive
  <2>2. pc'["user"] = pc["user"] /\ pc'["poller"] \in {"read", "write"}
    BY <1>0, <2>1 DEF Hold
  <2>3. Move("poller")
    BY <2>1 DEF Move, Places, Locked
  <2>4. QED BY <1>0, <2>1, <2>2, <2>3, MoveKeepsLocks DEF PollEffect, Ending
<1>10. CASE ConnectReturn
  <2>1. /\ Hold("poller", IF "R" \in ev THEN "read" ELSE "write") /\ mtx = "free"
        /\ UNCHANGED <<freed, closed, hasty, downs, calls, crashed>>
        /\ pc["poller"] = "connected" /\ ~freed
    BY <1>10, Zenon DEF ConnectReturn, Back
  <2>2. pc'["user"] = pc["user"] /\ pc'["poller"] \in {"read", "write"}
    BY <1>0, <2>1 DEF Hold
  <2>3. Move("poller")
    BY <2>1 DEF Move, Places, Locked
  <2>4. QED BY <1>0, <2>1, <2>2, <2>3, MoveKeepsLocks DEF PollEffect, Ending
<1>3. CASE HandleConnect
  <2>1. /\ Release("poller", "refused") \/ Release("poller", "connected")
        /\ mtx = "poller" /\ ~freed /\ pc["poller"] \in {"read", "write"}
        /\ UNCHANGED <<freed, closed, hasty, downs, calls, crashed>>
    BY <1>3, Zenon DEF HandleConnect, Handling, At
  <2>2. pc'["user"] = pc["user"] /\ pc'["poller"] \in {"refused", "connected"}
    BY <1>0, <2>1 DEF Release
  <2>3. Move("poller")
    BY <2>1 DEF Move, Places, Locked
  <2>4. QED BY <1>0, <2>1, <2>2, <2>3, MoveKeepsLocks DEF PollEffect, Ending
<1>4. CASE RefusedReturn
  <2>1. /\ Hold("poller", "free") /\ ac' = Disconnect(ac, TRUE)
        /\ mtx = "free" /\ ~freed /\ pc["poller"] = "refused"
        /\ UNCHANGED <<freed, closed, hasty, downs, calls, crashed>>
    BY <1>4, Zenon DEF RefusedReturn, Back
  <2>2. pc'["user"] = pc["user"] /\ pc'["poller"] = "free"
    BY <1>0, <2>1 DEF Hold
  <2>3. Move("poller")
    BY <2>1 DEF Move, Places, Locked
  <2>4. ac'.flags = ac.flags \cup {"DISCONNECTING"}
    BY <1>0, <2>1, DisconnectFlags, Zenon
  <2>5. QED BY <1>0, <2>1, <2>2, <2>3, <2>4, MoveKeepsLocks DEF PollEffect, Ending
<1>5. CASE HandleRead \/ HandleWrite
  <2>1. /\ mtx = "poller" /\ ~freed /\ pc["poller"] \in {"read", "write"}
        /\ UNCHANGED <<freed, closed, hasty, downs, calls, crashed>>
    BY <1>5, Zenon DEF HandleRead, HandleWrite, At
  <2>2. CASE ac' = Disconnect(ac, TRUE) /\ Hold("poller", "free")
    <3>1. pc'["user"] = pc["user"] /\ pc'["poller"] = "free"
      BY <1>0, <2>2 DEF Hold
    <3>2. Move("poller")
      BY <2>1, <2>2 DEF Move, Places, Locked
    <3>3. ac'.flags = ac.flags \cup {"DISCONNECTING"}
      BY <1>0, <2>2, DisconnectFlags, Zenon
    <3>4. QED BY <1>0, <2>1, <3>1, <3>2, <3>3, MoveKeepsLocks DEF PollEffect, Ending
  <2>3. CASE Hold("poller", "loop")
    <3>1. pc'["user"] = pc["user"] /\ pc'["poller"] = "loop"
      BY <1>0, <2>3 DEF Hold
    <3>2. Move("poller")
      BY <2>1, <2>3 DEF Move, Places, Locked
    <3>3. QED BY <1>0, <2>1, <3>1, <3>2, MoveKeepsLocks DEF PollEffect, Ending
  <2>4. CASE Leave("poller")
    <3>1. Move("poller") /\ pc'["poller"] \in {"idle", "write"} /\ pc'["user"] = pc["user"]
      BY <1>0, <2>1, <2>4, LeaveMoves
    <3>2. QED BY <1>0, <2>1, <3>1, MoveKeepsLocks DEF PollEffect, Ending
  <2>5. \/ ac' = Disconnect(ac, TRUE) /\ Hold("poller", "free")
        \/ Hold("poller", "loop") \/ Leave("poller")
    BY <1>5, Zenon DEF HandleRead, HandleWrite
  <2>6. QED BY <2>2, <2>3, <2>4, <2>5
<1>6. CASE NoMoreReplies
  <2>1. /\ mtx = "poller" /\ ~freed /\ pc["poller"] = "loop"
        /\ UNCHANGED <<freed, closed, hasty, downs, calls, crashed>>
    BY <1>6, Zenon DEF NoMoreReplies, At
  <2>2. CASE Drained(ac) /\ ac' = Disconnect(ac, FALSE) /\ Hold("poller", "free")
    <3>1. pc'["user"] = pc["user"] /\ pc'["poller"] = "free"
      BY <1>0, <2>2 DEF Hold
    <3>2. Move("poller")
      BY <2>1, <2>2 DEF Move, Places, Locked
    <3>3. ac'.flags = ac.flags \/ ac'.flags = ac.flags \cup {"DISCONNECTING"}
      BY <1>0, <2>2, DisconnectFlags, Zenon
    <3>4. "DISCONNECTING" \in ac'.flags
      BY <2>2, <3>3 DEF Drained
    <3>5. QED BY <1>0, <2>1, <3>1, <3>2, <3>4, MoveKeepsLocks DEF PollEffect, Ending
  <2>3. CASE Leave("poller")
    <3>1. Move("poller") /\ pc'["poller"] \in {"idle", "write"} /\ pc'["user"] = pc["user"]
      BY <1>0, <2>1, <2>3, LeaveMoves
    <3>2. QED BY <1>0, <2>1, <3>1, MoveKeepsLocks DEF PollEffect, Ending
  <2>4. QED BY <1>6, <2>2, <2>3, Zenon DEF NoMoreReplies
<1>7. CASE BadReply
  <2>1. /\ mtx = "poller" /\ ~freed /\ pc["poller"] = "loop" /\ Hold("poller", "free")
        /\ UNCHANGED <<freed, closed, hasty, downs, calls, crashed>>
        /\ ac.ibuf # <<>> /\ ac' = Disconnect([ac EXCEPT !.ibuf = Tail(@)], TRUE)
    BY <1>7, Zenon DEF BadReply, At
  <2>2. pc'["user"] = pc["user"] /\ pc'["poller"] = "free"
    BY <1>0, <2>1 DEF Hold
  <2>3. Move("poller")
    BY <2>1 DEF Move, Places, Locked
  <2>4. [ac EXCEPT !.ibuf = Tail(@)] \in Context
    BY <1>0, <2>1, HeadTailProperties DEF Context
  <2>5. ac'.flags = [ac EXCEPT !.ibuf = Tail(@)].flags \cup {"DISCONNECTING"}
    BY <2>1, <2>4, DisconnectFlags, Zenon
  <2>6. QED BY <1>0, <2>1, <2>2, <2>3, <2>5, MoveKeepsLocks DEF PollEffect, Ending
<1>8. CASE ProcessReply
  <2>1. /\ mtx = "poller" /\ ~freed /\ pc["poller"] = "loop"
        /\ UNCHANGED <<freed, closed, hasty, downs>>
        /\ \/ UNCHANGED <<pc, mtx>>
           \/ Release("poller", "callback")
        /\ crashed' = crashed \/ crashed' = "assert" \/ crashed' = "empty"
    BY <1>8, Zenon DEF ProcessReply, At, CallUser
  <2>2. CASE UNCHANGED <<pc, mtx>>
    BY <1>0, <2>1, <2>2 DEF PollEffect, Ending, Locks
  <2>3. CASE Release("poller", "callback")
    <3>1. pc'["user"] = pc["user"] /\ pc'["poller"] = "callback"
      BY <1>0, <2>3 DEF Release
    <3>2. Move("poller")
      BY <2>1, <2>3 DEF Move, Places, Locked
    <3>3. QED BY <1>0, <1>8, <2>1, <3>1, <3>2, MoveKeepsLocks DEF PollEffect, Ending
  <2>4. QED BY <2>1, <2>2, <2>3
<1>11. QED BY <1>1, <1>2, <1>3, <1>4, <1>5, <1>6, <1>7, <1>8, <1>10 DEF Poll

LEMMA PhasesPoll ==
  ASSUME TypeOK, Locks, Phases, Running, Poll
  PROVE  Locks' /\ Phases'
<1>1. Grows /\ PollEffect /\ Locks'
  BY GrowsPoll, PollEffects
<1>2. ASSUME NEW t \in Threads
      PROVE /\ pc'[t] \in Ending => "DISCONNECTING" \in ac'.flags
            /\ pc'[t] \in {"unlocked", "disconnected"} => ~entry'.added
            /\ pc'[t] = "disconnected" => closed'
  <2>1. CASE t = "poller"
    BY <1>1, <2>1 DEF Grows, PollEffect, Phases, Ending
  <2>2. CASE t = "user"
    BY <1>1, <2>2 DEF Grows, PollEffect, Phases, Threads
  <2>3. QED BY <2>1, <2>2 DEF Threads
<1>3. "poller" \in Threads /\ "user" \in Threads
  BY DEF Threads
<1>4. freed => "DISCONNECTING" \in ac'.flags /\ ~entry'.added /\ ("CONNECTED" \in ac'.flags => closed')
  BY <1>1 DEF Grows, PollEffect, Phases
<1>5. ~hasty => ~freed
  BY <1>1 DEF PollEffect, Phases
<1>6. /\ pc'["user"] \in Ending \cup {"idle"} /\ (~hasty' => pc'["user"] = "idle")
      /\ ~hasty' /\ freed' => pc'["poller"] \in {"idle", "write"}
      /\ ~hasty' /\ downs' > 0 => freed' \/ pc'["poller"] = "disconnected"
      /\ crashed' = "freed" => hasty' \/ pc'["poller"] = "write"
  BY <1>1, <1>5 DEF PollEffect, Phases, Ending
<1>7. freed' = freed
  BY <1>1 DEF PollEffect
<1>8. QED BY <1>1, <1>2, <1>4, <1>6, <1>7 DEF Phases

\* A step of thread t that runs callbacks or frees the context.
LEMMA PhasesBoth ==
  ASSUME TypeOK, Locks, Phases, Running, NEW t \in Threads, Both(t)
  PROVE  /\ Locks' /\ Phases'
         /\ ~hasty /\ downs > 0 => downs' = downs /\ calls' = calls
<1>0. /\ ThreadType /\ pc \in [Threads -> Places] /\ crashed = "no" /\ entry \in Entry
      /\ "poller" \in Threads /\ "user" \in Threads /\ Grows /\ downs \in Nat
      /\ t = "poller" \/ t = "user"
  BY GrowsOther DEF TypeOK, ThreadType, PeerType, UserType, Running, Threads
<1>1. CASE CallbackReturn(t) \/ RunPending(t)
  <2>1. /\ UNCHANGED <<freed, closed, hasty, downs, entry>> /\ ~freed
        /\ \/ pc[t] \in {"callback", "nil"} /\ mtx = "free" /\ calls' = calls
           \/ pc[t] = "free" /\ mtx = t
        /\ \/ pc' = pc /\ mtx' = mtx
           \/ pc[t] = "callback" /\ Hold(t, "loop")
           \/ pc[t] = "nil" /\ Hold(t, "free")
           \/ pc[t] = "free" /\ Release(t, "nil")
        /\ crashed' = crashed \/ crashed' = "empty"
    <3>1. CASE CallbackReturn(t)
      BY <3>1, Zenon DEF CallbackReturn, Back
    <3>2. CASE RunPending(t)
      BY <3>2, Zenon DEF RunPending, At, CallUser
    <3>3. QED BY <1>1, <3>1, <3>2
  <2>2. Locks'
    <3>1. CASE pc' = pc /\ mtx' = mtx
      BY <3>1 DEF Locks
    <3>2. CASE ~(pc' = pc /\ mtx' = mtx)
      <4>1. Move(t)
        BY <2>1, <3>2 DEF Move, Places, Locked
      <4>2. QED BY <1>0, <4>1, MoveKeepsLocks
    <3>3. QED BY <3>1, <3>2
  <2>3. /\ pc'[t] \in Ending => pc[t] \in Ending
        /\ pc'[t] \in {"unlocked", "disconnected"} => pc'[t] = pc[t]
        /\ pc[t] \in {"callback", "nil", "free"}
        /\ pc'[t] \in {"loop", "callback", "nil", "free"}
        /\ t = "user" => pc'[t] # "loop" /\ pc'[t] # "callback"
        /\ \A u \in Threads : u # t => pc'[u] = pc[u]
    BY <1>0, <2>1 DEF Hold, Release, Phases, Ending
  <2>4. ASSUME NEW u \in Threads
        PROVE /\ pc'[u] \in Ending => "DISCONNECTING" \in ac'.flags
              /\ pc'[u] \in {"unlocked", "disconnected"} => ~entry'.added
              /\ pc'[u] = "disconnected" => closed'
    <3>1. CASE u = t
      BY <1>0, <2>1, <2>3, <3>1 DEF Phases, Grows
    <3>2. CASE u # t
      BY <1>0, <2>1, <2>3, <3>2 DEF Phases, Grows
    <3>3. QED BY <3>1, <3>2
  <2>5. ~hasty => t = "poller" /\ downs = 0 
    BY <1>0, <2>1, <2>3 DEF Phases
  <2>6. /\ pc'["user"] \in Ending \cup {"idle"} /\ (~hasty' => pc'["user"] = "idle")
        /\ ~hasty' /\ freed' => pc'["poller"] \in {"idle", "write"}
        /\ ~hasty' /\ downs' > 0 => freed' \/ pc'["poller"] = "disconnected"
        /\ crashed' = "freed" => hasty' \/ pc'["poller"] = "write"
    BY <1>0, <2>1, <2>3, <2>5 DEF Phases, Ending
  <2>7. freed' = freed
    BY <2>1
  <2>8. Phases'
    BY <2>1, <2>4, <2>6, <2>7 DEF Phases
  <2>9. QED BY <2>2, <2>5, <2>8
<1>2. CASE Cleanup(t) \/ DisconnectReturn(t)
  <2>1. /\ UNCHANGED <<ac, closed, hasty, downs, calls, crashed>>
        /\ ~freed /\ mtx \in {t, "free"} /\ pc[t] \in {"free", "disconnected"}
    BY <1>2, Zenon DEF Cleanup, At, DisconnectReturn, Back
  <2>11. \/ entry' = [entry EXCEPT !.added = FALSE]
         \/ pc[t] = "disconnected" /\ entry' = entry
    BY <1>2, Zenon DEF Cleanup, DisconnectReturn, Back
  <2>12. \/ Release(t, "unlocked") /\ freed' = freed /\ pc[t] = "free"
         \/ /\ freed' = TRUE /\ Leave(t)
            /\ "CONNECTED" \notin ac.flags \/ pc[t] = "disconnected"
    BY <1>2, Zenon DEF Cleanup, At, DisconnectReturn, Back
  <2>2. /\ Move(t) /\ \A u \in Threads : u # t => pc'[u] = pc[u]
        /\ pc'[t] \in {"unlocked", "idle", "write"} /\ (t = "user" => pc'[t] # "write")
        /\ pc'[t] = "unlocked" <=> ~freed'
    <3>1. CASE Release(t, "unlocked") /\ freed' = freed
      BY <1>0, <2>1, <2>11, <2>12, <3>1 DEF Move, Places, Locked, Release
    <3>2. CASE freed' = TRUE /\ Leave(t)
      BY <1>0, <2>1, <2>11, <2>12, <3>2, LeaveMoves
    <3>3. QED BY <2>1, <2>11, <2>12, <3>1, <3>2
  <2>3. Locks'
    BY <1>0, <2>2, MoveKeepsLocks
  <2>4. ~entry'.added /\ "DISCONNECTING" \in ac'.flags
        /\ (freed' => ("CONNECTED" \in ac'.flags => closed'))
    BY <1>0, <2>1, <2>11, <2>12, <2>2 DEF Phases, Entry, Ending
  <2>5. ASSUME NEW u \in Threads
        PROVE /\ pc'[u] \in Ending => "DISCONNECTING" \in ac'.flags
              /\ pc'[u] \in {"unlocked", "disconnected"} => ~entry'.added
              /\ pc'[u] = "disconnected" => closed'
    BY <2>1, <2>11, <2>12, <2>2, <2>4 DEF Phases
  <2>6. ~hasty => t = "poller" 
    BY <1>0, <2>1 DEF Phases
  <2>7. ~hasty /\ downs > 0 => freed'
    BY <1>0, <2>1, <2>11, <2>12, <2>2, <2>6 DEF Phases
  <2>8. /\ pc'["user"] \in Ending \cup {"idle"} /\ (~hasty' => pc'["user"] = "idle")
        /\ ~hasty' /\ freed' => pc'["poller"] \in {"idle", "write"}
        /\ ~hasty' /\ downs' > 0 => freed' \/ pc'["poller"] = "disconnected"
        /\ crashed' = "freed" => hasty' \/ pc'["poller"] = "write"
    BY <1>0, <2>1, <2>11, <2>12, <2>2, <2>6, <2>7 DEF Phases, Ending
  <2>9. Phases'
    BY <2>4, <2>5, <2>8 DEF Phases
  <2>10. QED BY <2>1, <2>3, <2>9
<1>3. CASE DisconnectCallback(t)
  <2>1. /\ UNCHANGED <<ac, freed, hasty, mtx, entry, calls, crashed>>
        /\ closed' = TRUE /\ downs' = downs + 1 /\ pc[t] = "unlocked"
        /\ pc' = [pc EXCEPT ![t] = "disconnected"]
    BY <1>3, Zenon DEF DisconnectCallback
  <2>2. pc'[t] = "disconnected" /\ \A u \in Threads : u # t => pc'[u] = pc[u]
    BY <1>0, <2>1
  <2>3. Locks'
    BY <1>0, <2>1, <2>2 DEF Locks, Locked
  <2>4. ~hasty => t = "poller" /\ ~freed /\ downs = 0
    BY <1>0, <2>1 DEF Phases
  <2>5. ~entry.added /\ "DISCONNECTING" \in ac.flags
    BY <1>0, <2>1 DEF Phases, Ending
  <2>6. ASSUME NEW u \in Threads
        PROVE /\ pc'[u] \in Ending => "DISCONNECTING" \in ac'.flags
              /\ pc'[u] \in {"unlocked", "disconnected"} => ~entry'.added
              /\ pc'[u] = "disconnected" => closed'
    BY <2>1, <2>2, <2>5
  <2>7. /\ pc'["user"] \in Ending \cup {"idle"} /\ (~hasty' => pc'["user"] = "idle")
        /\ ~hasty' /\ freed' => pc'["poller"] \in {"idle", "write"}
        /\ ~hasty' /\ downs' > 0 => freed' \/ pc'["poller"] = "disconnected"
        /\ crashed' = "freed" => hasty' \/ pc'["poller"] = "write"
    BY <1>0, <2>1, <2>2, <2>4 DEF Phases, Ending
  <2>8. Phases'
    BY <2>1, <2>5, <2>6, <2>7 DEF Phases
  <2>9. QED BY <2>3, <2>4, <2>8
<1>4. CASE Fault(t)
  <2>1. /\ UNCHANGED <<ac, freed, closed, hasty, mtx, pc, entry, calls, downs>> /\ freed
        /\ crashed' = "freed"
        /\ \/ mtx = t
           \/ pc[t] \in {"connected", "refused", "callback", "nil", "disconnected"}
    BY <1>4, Zenon DEF Fault
  <2>2. ~hasty => pc["poller"] = "write"
    BY <1>0, <2>1 DEF Phases, Locks, Locked
  <2>3. QED BY <2>1, <2>2 DEF Phases, Locks
<1>5. QED BY <1>1, <1>2, <1>3, <1>4 DEF Both

LEMMA PhasesOther ==
  ASSUME TypeOK, Locks, Phases, Running, User \/ Network \/ ServerReads
  PROVE  /\ Locks' /\ Phases' /\ downs' = downs /\ calls' = calls
<1>0. /\ ThreadType /\ pc \in [Threads -> Places] /\ crashed = "no"
      /\ "poller" \in Threads /\ "user" \in Threads /\ Grows
  BY GrowsOther DEF TypeOK, ThreadType, Running, Threads
<1>1. CASE UNCHANGED <<freed, closed, hasty, mtx, pc, calls, downs, crashed>>
  BY <1>0, <1>1 DEF Phases, Locks, Grows
<1>2. CASE Network \/ ServerReads
  <2>1. UNCHANGED <<freed, closed, hasty, mtx, pc, calls, downs, crashed>>
    BY <1>2, Zenon DEF Network, ServerReads, Established, ServerTells, Breaks
  <2>2. QED BY <1>1, <2>1
<1>3. CASE redisAsyncCommand
  <2>1. /\ "CONNECTED" \in ac.flags
        /\ UNCHANGED <<freed, closed, hasty, mtx, pc, calls, downs>>
    BY <1>3, Zenon DEF redisAsyncCommand, MayCall
  <2>3. crashed' = crashed \/ (~closed /\ freed)
    BY <1>3, Zenon DEF redisAsyncCommand
  <2>2. QED BY <1>1, <2>1, <2>3 DEF Phases
<1>4. CASE Close
  <2>1. /\ "CONNECTED" \in ac.flags /\ mtx = "free" /\ pc["user"] = "idle" /\ ~closed
        /\ closed' = TRUE /\ UNCHANGED <<freed, calls, downs, entry>>
    BY <1>4, Zenon DEF Close, MayCall
  <2>2. ~freed
    BY <2>1 DEF Phases
  <2>3. /\ ac' = [ac EXCEPT !.flags = @ \cup {"DISCONNECTING"}]
        /\ hasty' = (hasty \/ "IN_CALLBACK" \notin ac.flags) /\ crashed' = crashed
        /\ \/ UNCHANGED <<pc, mtx>>
           \/ "IN_CALLBACK" \notin ac.flags /\ Hold("user", "free")
    BY <1>4, <2>2, Zenon DEF Close, DisconnectsNow
  <2>4. "DISCONNECTING" \in ac'.flags
    BY <2>3 DEF TypeOK, ContextType, Context
  <2>5. CASE UNCHANGED <<pc, mtx>>
    BY <1>0, <2>1, <2>2, <2>3, <2>4, <2>5 DEF Phases, Locks
  <2>6. CASE "IN_CALLBACK" \notin ac.flags /\ Hold("user", "free")
    <3>1. pc'["user"] = "free" /\ pc'["poller"] = pc["poller"] /\ hasty'
      BY <1>0, <2>3, <2>6 DEF Hold
    <3>2. Move("user")
      BY <2>1, <2>6 DEF Move, Places, Locked
    <3>3. Locks'
      BY <1>0, <3>2, MoveKeepsLocks
    <3>4. ASSUME NEW u \in Threads
          PROVE /\ pc'[u] \in {"unlocked", "disconnected"} => ~entry'.added
                /\ pc'[u] = "disconnected" => closed'
      BY <2>1, <3>1, <3>4 DEF Phases, Threads
    <3>5. Phases'
      BY <2>1, <2>2, <2>4, <3>1, <3>4 DEF Phases, Ending
    <3>6. QED BY <2>1, <3>3, <3>5
  <2>7. QED BY <2>3, <2>5, <2>6
<1>5. QED BY <1>2, <1>3, <1>4 DEF User

LEMMA PhasesInit == Init => Locks /\ Phases
  BY DEF Init, Locks, Phases, Threads, Locked, Ending

LEMMA PhasesStep == TypeOK /\ Locks /\ Phases /\ [Next]_vars => Locks' /\ Phases'
<1> SUFFICES ASSUME TypeOK, Locks, Phases, [Next]_vars PROVE Locks' /\ Phases'
  OBVIOUS
<1>1. CASE UNCHANGED vars
  BY <1>1 DEF vars, Locks, Phases
<1>2. CASE Next
  BY <1>2, PhasesPoll, PhasesBoth, PhasesOther DEF Next
<1>3. QED BY <1>1, <1>2

LEMMA LastStep ==
  TypeOK /\ Locks /\ Phases /\ [Next]_vars
    => [~hasty /\ downs > 0 => downs' = downs /\ calls' = calls]_vars
<1> SUFFICES ASSUME TypeOK, Locks, Phases, Next, ~hasty, downs > 0
             PROVE  downs' = downs /\ calls' = calls
  OBVIOUS
<1>1. CASE Running /\ Poll
  <2>1. PollEffect
    BY <1>1, PollEffects
  <2>2. downs' = downs /\ pc["poller"] # "loop"
    <3>1. freed \/ pc["poller"] = "disconnected"
      BY DEF Phases
    <3>2. QED BY <2>1, <3>1 DEF PollEffect, Ending
  <2>3. QED BY <2>1, <2>2 DEF PollEffect
<1>2. CASE Running /\ \E t \in Threads : Both(t)
  BY <1>2, PhasesBoth
<1>3. CASE Running /\ (User \/ Network \/ ServerReads)
  BY <1>3, PhasesOther
<1>4. QED BY <1>1, <1>2, <1>3 DEF Next

\* After the disconnect callback no callback is made, and it is not made again, unless
\* the user called Close outside a callback for a reply (disconnectCallback,
\* __redisAsyncFree).
THEOREM DisconnectCallbackIsLast == Spec => DisconnectIsLast
<1>1. Spec => [](TypeOK /\ Locks /\ Phases)
  BY TypeInit, TypeStep, PhasesInit, PhasesStep, PTL DEF Spec
<1>2. QED BY <1>1, LastStep, PTL DEF Spec, DisconnectIsLast


-----------------------------------------------------------------------------
(* Lists.                                                                      *)

\* The functions of a list of callbacks, and what a list holds.
Ids(list) == {list[i].id : i \in {j \in 1 .. Len(list) : list[j].fn}}
Members(list) == {list[i] : i \in 1 .. Len(list)}
Privs(done) == {done[i].priv : i \in 1 .. Len(done)}

LEMMA IdsTail ==
  ASSUME NEW list \in Seq(Cb), list # <<>>
  PROVE  /\ list[1].fn => Ids(list) = Ids(Tail(list)) \cup {list[1].id}
         /\ ~list[1].fn => Ids(list) = Ids(Tail(list))
<1>1. /\ Tail(list) \in Seq(Cb) /\ Len(Tail(list)) = Len(list) - 1
      /\ \A i \in 1 .. Len(Tail(list)) : Tail(list)[i] = list[i + 1]
      /\ Len(list) \in Nat /\ Len(list) >= 1
  BY HeadTailProperties, EmptySeq
<1>2. ASSUME NEW x \in Ids(list), x \notin Ids(Tail(list))
      PROVE  list[1].fn /\ x = list[1].id
  <2>1. PICK i \in 1 .. Len(list) : list[i].fn /\ list[i].id = x
    BY <1>2 DEF Ids
  <2>2. CASE i = 1
    BY <2>1, <2>2
  <2>3. CASE i # 1
    <3>1. i - 1 \in 1 .. Len(Tail(list)) /\ Tail(list)[i - 1] = list[i]
      <4>1. i - 1 \in 1 .. Len(Tail(list))
        BY <1>1, <2>1, <2>3
      <4>2. Tail(list)[i - 1] = list[i - 1 + 1]
        BY <1>1, <4>1
      <4>3. QED BY <1>1, <2>1, <4>1, <4>2
    <3>2. x \in Ids(Tail(list))
      BY <2>1, <3>1 DEF Ids
    <3>3. QED BY <1>2, <3>2
  <2>4. QED BY <2>2, <2>3
<1>3. ASSUME NEW x \in Ids(Tail(list)) PROVE x \in Ids(list)
  <2>1. PICK i \in 1 .. Len(Tail(list)) : Tail(list)[i].fn /\ Tail(list)[i].id = x
    BY <1>3 DEF Ids
  <2>2. i + 1 \in 1 .. Len(list) /\ list[i + 1] = Tail(list)[i]
    BY <1>1, <2>1
  <2>3. QED BY <2>1, <2>2 DEF Ids
<1>4. list[1].fn => list[1].id \in Ids(list)
  BY <1>1 DEF Ids
<1>5. QED BY <1>2, <1>3, <1>4

LEMMA IdsAppend ==
  ASSUME NEW list \in Seq(Cb), NEW c \in Cb
  PROVE  /\ c.fn => Ids(Append(list, c)) = Ids(list) \cup {c.id}
         /\ ~c.fn => Ids(Append(list, c)) = Ids(list)
<1> DEFINE new == Append(list, c)
<1>1. /\ Len(new) = Len(list) + 1 /\ new[Len(list) + 1] = c
      /\ \A i \in 1 .. Len(list) : new[i] = list[i]
      /\ Len(list) \in Nat
  BY AppendProperties, LenProperties
<1> HIDE DEF new
<1>2. ASSUME NEW x \in Ids(new), x \notin Ids(list) PROVE c.fn /\ x = c.id
  <2>1. PICK i \in 1 .. Len(new) : new[i].fn /\ new[i].id = x
    BY <1>2 DEF Ids
  <2>2. CASE i = Len(list) + 1
    BY <1>1, <2>1, <2>2
  <2>3. CASE i # Len(list) + 1
    <3>1. i \in 1 .. Len(list) /\ new[i] = list[i]
      BY <1>1, <2>1, <2>3
    <3>2. QED BY <1>2, <2>1, <3>1 DEF Ids
  <2>4. QED BY <2>2, <2>3
<1>3. ASSUME NEW x \in Ids(list) PROVE x \in Ids(new)
  <2>1. PICK i \in 1 .. Len(list) : list[i].fn /\ list[i].id = x
    BY <1>3 DEF Ids
  <2>2. i \in 1 .. Len(new) /\ new[i] = list[i]
    BY <1>1, <2>1
  <2>3. QED BY <2>1, <2>2 DEF Ids
<1>4. c.fn => c.id \in Ids(new)
  <2>1. Len(list) + 1 \in 1 .. Len(new)
    BY <1>1
  <2>2. QED BY <1>1, <2>1 DEF Ids
<1>5. /\ c.fn => Ids(new) = Ids(list) \cup {c.id}
      /\ ~c.fn => Ids(new) = Ids(list)
  BY <1>2, <1>3, <1>4
<1>6. QED BY <1>5 DEF new

Rising(f) == \A i, j \in 1 .. Len(f) : i < j => f[i] < f[j]

LEMMA RisingTail ==
  ASSUME NEW f \in Seq(Nat), f # <<>>, Rising(f)
  PROVE  /\ Rising(Tail(f)) /\ Members(Tail(f)) = Members(f) \ {f[1]}
         /\ Head(f) = f[1] /\ f[1] \in Members(f)
         /\ \A x \in Members(f) : f[1] <= x
<1>1. /\ Tail(f) \in Seq(Nat) /\ Len(Tail(f)) = Len(f) - 1
      /\ \A i \in 1 .. Len(Tail(f)) : Tail(f)[i] = f[i + 1]
      /\ Len(f) \in Nat /\ Len(f) >= 1 /\ \A i \in 1 .. Len(f) : f[i] \in Nat
  BY HeadTailProperties, EmptySeq, ElementOfSeq
<1>2. Rising(Tail(f))
  BY <1>1 DEF Rising
<1>3. ASSUME NEW x \in Members(Tail(f)) PROVE x \in Members(f) \ {f[1]}
  <2>1. PICK i \in 1 .. Len(Tail(f)) : x = Tail(f)[i]
    BY <1>3 DEF Members
  <2>2. i + 1 \in 1 .. Len(f) /\ x = f[i + 1] /\ f[1] < f[i + 1] /\ f[1] \in Nat
    BY <1>1, <2>1 DEF Rising
  <2>3. QED BY <1>1, <2>2 DEF Members
<1>4. ASSUME NEW x \in Members(f), x # f[1] PROVE x \in Members(Tail(f))
  <2>1. PICK i \in 1 .. Len(f) : x = f[i]
    BY DEF Members
  <2>2. i - 1 \in 1 .. Len(Tail(f))
    BY <1>1, <1>4, <2>1
  <2>3. Tail(f)[i - 1] = f[i - 1 + 1]
    BY <1>1, <2>2
  <2>4. Tail(f)[i - 1] = x
    <3>1. i - 1 + 1 = i
      BY <1>1, <2>1
    <3>2. QED BY <2>1, <2>3, <3>1
  <2>5. QED BY <2>2, <2>4 DEF Members
<1>5. Head(f) = f[1] /\ f[1] \in Members(f)
  BY <1>1 DEF Members
<1>6. ASSUME NEW x \in Members(f) PROVE f[1] <= x
  BY <1>1 DEF Members, Rising
<1>7. QED BY <1>2, <1>3, <1>4, <1>5, <1>6

LEMMA RisingAppend ==
  ASSUME NEW f \in Seq(Nat), NEW x \in Nat, Rising(f), \A y \in Members(f) : y < x
  PROVE  /\ Append(f, x) \in Seq(Nat) /\ Rising(Append(f, x))
         /\ Members(Append(f, x)) = Members(f) \cup {x}
<1> DEFINE g == Append(f, x)
<1>1. /\ Len(g) = Len(f) + 1 /\ g[Len(f) + 1] = x /\ g \in Seq(Nat)
      /\ \A i \in 1 .. Len(f) : g[i] = f[i]
      /\ Len(f) \in Nat
  BY AppendProperties, LenProperties
<1> HIDE DEF g
<1>2. Rising(g)
  <2>1. ASSUME NEW i \in 1 .. Len(g), NEW j \in 1 .. Len(g), i < j PROVE g[i] < g[j]
    <3>1. i \in 1 .. Len(f) /\ g[i] = f[i] /\ f[i] \in Members(f)
      <4>1. i \in 1 .. Len(f)
        BY <1>1, <2>1
      <4>2. QED BY <1>1, <4>1 DEF Members
    <3>2. CASE j = Len(f) + 1
      BY <1>1, <3>1, <3>2
    <3>3. CASE j # Len(f) + 1
      <4>1. j \in 1 .. Len(f) /\ g[j] = f[j]
        BY <1>1, <3>3
      <4>2. QED BY <2>1, <3>1, <4>1 DEF Rising
    <3>4. QED BY <3>2, <3>3
  <2>2. QED BY <2>1 DEF Rising
<1>3. Members(g) = Members(f) \cup {x}
  <2>1. ASSUME NEW y \in Members(g) PROVE y \in Members(f) \cup {x}
    <3>1. PICK i \in 1 .. Len(g) : y = g[i]
      BY DEF Members
    <3>2. CASE i = Len(f) + 1
      BY <1>1, <3>1, <3>2
    <3>3. CASE i # Len(f) + 1
      <4>1. i \in 1 .. Len(f) /\ g[i] = f[i]
        BY <1>1, <3>3
      <4>2. QED BY <3>1, <4>1 DEF Members
    <3>4. QED BY <3>2, <3>3
  <2>2. ASSUME NEW y \in Members(f) PROVE y \in Members(g)
    <3>1. PICK i \in 1 .. Len(f) : y = f[i]
      BY DEF Members
    <3>2. i \in 1 .. Len(g) /\ g[i] = f[i]
      BY <1>1
    <3>3. QED BY <3>1, <3>2 DEF Members
  <2>3. x \in Members(g)
    <3>1. Len(f) + 1 \in 1 .. Len(g)
      BY <1>1
    <3>2. QED BY <1>1, <3>1 DEF Members
  <2>4. QED BY <2>1, <2>2, <2>3
<1>4. QED BY <1>1, <1>2, <1>3 DEF g

LEMMA PrivsAppend ==
  ASSUME NEW done \in Seq(Call), NEW c \in Call
  PROVE  Privs(Append(done, c)) = Privs(done) \cup {c.priv}
<1> DEFINE g == Append(done, c)
<1>1. /\ Len(g) = Len(done) + 1 /\ g[Len(done) + 1] = c
      /\ \A i \in 1 .. Len(done) : g[i] = done[i]
      /\ Len(done) \in Nat
  BY AppendProperties, LenProperties
<1> HIDE DEF g
<1>2. ASSUME NEW y \in Privs(g) PROVE y \in Privs(done) \cup {c.priv}
  <2>1. PICK i \in 1 .. Len(g) : y = g[i].priv
    BY DEF Privs
  <2>2. CASE i = Len(done) + 1
    BY <1>1, <2>1, <2>2
  <2>3. CASE i # Len(done) + 1
    <3>1. i \in 1 .. Len(done) /\ g[i] = done[i]
      BY <1>1, <2>3
    <3>2. QED BY <2>1, <3>1 DEF Privs
  <2>4. QED BY <2>2, <2>3
<1>3. ASSUME NEW y \in Privs(done) PROVE y \in Privs(g)
  <2>1. PICK i \in 1 .. Len(done) : y = done[i].priv
    BY DEF Privs
  <2>2. i \in 1 .. Len(g) /\ g[i] = done[i]
    BY <1>1
  <2>3. QED BY <2>1, <2>2 DEF Privs
<1>4. c.priv \in Privs(g)
  <2>1. Len(done) + 1 \in 1 .. Len(g)
    BY <1>1
  <2>2. QED BY <1>1, <2>1 DEF Privs
<1>5. Privs(g) = Privs(done) \cup {c.priv}
  BY <1>2, <1>3, <1>4
<1>6. QED BY <1>5 DEF g

-----------------------------------------------------------------------------
(* Plain commands.                                                             *)

\* The callbacks in line are those of commands, in their order; the functions were
\* called before them, in that order, each for its own command; redisFns holds the
\* functions in line, and the one that runs.
Listed(list, done, funs, inside, all, n) ==
  /\ \A i \in 1 .. Len(list) : list[i].id \in 1 .. n - 1
  /\ \A i, j \in 1 .. Len(list) : i < j => list[i].id < list[j].id
  /\ \A i \in 1 .. Len(done) :
       /\ done[i].fn = done[i].priv /\ done[i].priv < n
       /\ done[i].got.id \in {0, done[i].priv}
       /\ done[i].got.kind = "status" => done[i].got.id = done[i].priv
  /\ \A i \in 1 .. Len(done), j \in 1 .. Len(list) : done[i].priv < list[j].id
  /\ \A i, j \in 1 .. Len(done) : i < j => done[i].priv < done[j].priv
  /\ Rising(funs) /\ Members(funs) = Ids(list) \cup inside
  /\ all = Privs(done) \cup Ids(list)

\* The callback of a command without a function is passed over.
LEMMA ListedSkip ==
  ASSUME NEW list \in Seq(Cb), NEW done \in Seq(Call), NEW funs \in Seq(Nat), NEW inside, NEW all,
         NEW n \in Nat, Listed(list, done, funs, inside, all, n), list # <<>>, ~list[1].fn
  PROVE  Listed(Tail(list), done, funs, inside, all, n)
<1>1. /\ Tail(list) \in Seq(Cb) /\ Len(Tail(list)) = Len(list) - 1
      /\ \A i \in 1 .. Len(Tail(list)) : Tail(list)[i] = list[i + 1]
      /\ Len(list) \in Nat /\ Len(list) >= 1
  BY HeadTailProperties, EmptySeq
<1>2. Ids(Tail(list)) = Ids(list)
  BY IdsTail
<1>3. \A i \in 1 .. Len(Tail(list)) : i + 1 \in 1 .. Len(list) /\ Tail(list)[i] = list[i + 1]
  BY <1>1
<1>4. /\ \A i \in 1 .. Len(Tail(list)) : Tail(list)[i].id \in 1 .. n - 1
      /\ \A i, j \in 1 .. Len(Tail(list)) : i < j => Tail(list)[i].id < Tail(list)[j].id
  BY <1>1, <1>3 DEF Listed
<1>5. \A i \in 1 .. Len(done), j \in 1 .. Len(Tail(list)) : done[i].priv < Tail(list)[j].id
  BY <1>3 DEF Listed
<1>6. QED BY <1>2, <1>4, <1>5 DEF Listed

\* The function of the first command in line is the first of redisFns.
LEMMA ListedHead ==
  ASSUME NEW list \in Seq(Cb), NEW done, NEW funs \in Seq(Nat), NEW all,
         NEW n \in Nat, Listed(list, done, funs, {}, all, n), list # <<>>, list[1].fn
  PROVE  funs # <<>> /\ Head(funs) = list[1].id
<1>1. Len(list) \in Nat /\ 1 \in 1 .. Len(list)
  BY EmptySeq
<1>2. list[1].id \in Ids(list)
  BY <1>1 DEF Ids
<1>3. PICK k \in 1 .. Len(funs) : funs[k] = list[1].id
  BY <1>2 DEF Listed, Members
<1>4. funs # <<>>
  BY <1>3, EmptySeq
<1>5. Head(funs) = funs[1] /\ funs[1] \in Members(funs) /\ funs[1] <= list[1].id
  <2>1. list[1].id \in Members(funs)
    BY <1>2 DEF Listed
  <2>2. QED BY <1>4, <2>1, RisingTail DEF Listed
<1>6. PICK j \in 1 .. Len(list) : list[j].id = funs[1]
  BY <1>5 DEF Listed, Ids
<1>7. list[j].id \in Nat /\ list[1].id \in Nat /\ (j # 1 => list[1].id < list[j].id)
  BY <1>1, <1>6 DEF Listed
<1>8. list[1].id = funs[1]
  BY <1>5, <1>6, <1>7
<1>9. QED BY <1>4, <1>5, <1>8

\* It is called, with a reply of its own or with none.
LEMMA ListedCall ==
  ASSUME NEW list \in Seq(Cb), NEW done \in Seq(Call), NEW funs \in Seq(Nat), NEW all,
         NEW n \in Nat, Listed(list, done, funs, {}, all, n), list # <<>>, list[1].fn,
         NEW r \in Got, r.id \in {0, list[1].id}, r.kind = "status" => r.id = list[1].id
  PROVE  Listed(Tail(list), Append(done, [fn |-> Head(funs), priv |-> list[1].id, got |-> r]),
                funs, {list[1].id}, all, n)
<1> DEFINE id == list[1].id
           new == [fn |-> Head(funs), priv |-> id, got |-> r]
           past == Append(done, new)
<1>1. /\ Tail(list) \in Seq(Cb) /\ Len(Tail(list)) = Len(list) - 1
      /\ Len(list) \in Nat /\ 1 \in 1 .. Len(list)
      /\ \A i \in 1 .. Len(Tail(list)) : i + 1 \in 1 .. Len(list) /\ Tail(list)[i] = list[i + 1]
  BY HeadTailProperties, EmptySeq
<1>2. id \in 1 .. n - 1 /\ id \in Nat
  BY <1>1 DEF Listed
<1>3. new.fn = id /\ new.priv = id /\ new.got = r /\ new \in Call
  <2>1. Head(funs) = id
    BY ListedHead
  <2>2. QED BY <1>2, <2>1 DEF Call
<1>4. \A j \in 1 .. Len(Tail(list)) : id < Tail(list)[j].id
  BY <1>1 DEF Listed
<1>5. /\ \A i \in 1 .. Len(Tail(list)) : Tail(list)[i].id \in 1 .. n - 1
      /\ \A i, j \in 1 .. Len(Tail(list)) : i < j => Tail(list)[i].id < Tail(list)[j].id
  BY <1>1 DEF Listed
<1>6. /\ Len(past) = Len(done) + 1 /\ past[Len(done) + 1] = new /\ Len(done) \in Nat
      /\ \A i \in 1 .. Len(done) : past[i] = done[i]
      /\ Privs(past) = Privs(done) \cup {id}
  BY <1>3, AppendProperties, LenProperties, PrivsAppend
<1>7. \A i \in 1 .. Len(done) : done[i].priv < id
  BY <1>1 DEF Listed
<1> HIDE DEF past, new, id
<1>8. \A i \in 1 .. Len(past) : past[i] = new \/ (i \in 1 .. Len(done) /\ past[i] = done[i])
  BY <1>6
<1>9. \A i \in 1 .. Len(past) :
        /\ past[i].fn = past[i].priv /\ past[i].priv < n
        /\ past[i].got.id \in {0, past[i].priv}
        /\ past[i].got.kind = "status" => past[i].got.id = past[i].priv
  <2>1. /\ new.fn = new.priv /\ new.priv < n /\ new.got.id \in {0, new.priv}
        /\ new.got.kind = "status" => new.got.id = new.priv
    BY <1>2, <1>3 DEF id
  <2>2. QED BY <1>8, <2>1 DEF Listed
<1>10. \A i \in 1 .. Len(past), j \in 1 .. Len(Tail(list)) : past[i].priv < Tail(list)[j].id
  <2>1. ASSUME NEW i \in 1 .. Len(past), NEW j \in 1 .. Len(Tail(list))
        PROVE  past[i].priv < Tail(list)[j].id
    <3>1. CASE past[i] = new
      BY <1>3, <1>4, <3>1
    <3>2. CASE i \in 1 .. Len(done) /\ past[i] = done[i]
      BY <1>1, <3>2 DEF Listed
    <3>3. QED BY <1>8, <3>1, <3>2
  <2>2. QED BY <2>1
<1>11. \A i, j \in 1 .. Len(past) : i < j => past[i].priv < past[j].priv
  <2>1. ASSUME NEW i \in 1 .. Len(past), NEW j \in 1 .. Len(past), i < j
        PROVE  past[i].priv < past[j].priv
    <3>1. i \in 1 .. Len(done) /\ past[i] = done[i]
      BY <1>6, <2>1
    <3>2. CASE j = Len(done) + 1
      BY <1>3, <1>6, <1>7, <3>1, <3>2
    <3>3. CASE j # Len(done) + 1
      <4>1. j \in 1 .. Len(done) /\ past[j] = done[j]
        BY <1>6, <3>3
      <4>2. QED BY <2>1, <3>1, <4>1 DEF Listed
    <3>4. QED BY <3>2, <3>3
  <2>2. QED BY <2>1
<1>12. Ids(list) = Ids(Tail(list)) \cup {id}
  BY IdsTail DEF id
<1>13. Rising(funs) /\ Members(funs) = Ids(Tail(list)) \cup {id} /\ all = Privs(past) \cup Ids(Tail(list))
  BY <1>6, <1>12 DEF Listed
<1>14. Listed(Tail(list), past, funs, {id}, all, n)
  BY <1>5, <1>9, <1>10, <1>11, <1>13 DEF Listed
<1>15. QED BY <1>14 DEF past, new, id

\* It returns, and getCallback takes it off redisFns.
LEMMA ListedReturn ==
  ASSUME NEW list \in Seq(Cb), NEW done \in Seq(Call), NEW funs \in Seq(Nat), NEW all, NEW n \in Nat,
         done # <<>>, Listed(list, done, funs, {done[Len(done)].priv}, all, n)
  PROVE  funs # <<>> /\ Listed(list, done, Tail(funs), {}, all, n)
<1> DEFINE last == done[Len(done)].priv
<1>1. Len(done) \in 1 .. Len(done)
  BY EmptySeq
<1>2. \A j \in 1 .. Len(list) : last < list[j].id
  BY <1>1 DEF Listed
<1>3. done[Len(done)] \in Call
  BY <1>1, ElementOfSeq
<1>4. last \in Nat /\ last \notin Ids(list)
  BY <1>2, <1>3 DEF Ids, Call
<1>5. \A x \in Ids(list) : last < x
  BY <1>2 DEF Ids
<1>6. Rising(funs) /\ Members(funs) = Ids(list) \cup {last}
  BY DEF Listed
<1>7. funs # <<>>
  <2>1. PICK k \in 1 .. Len(funs) : funs[k] = last
    BY <1>6 DEF Members
  <2>2. QED BY <2>1, EmptySeq
<1>8. /\ Rising(Tail(funs)) /\ Members(Tail(funs)) = Members(funs) \ {funs[1]}
      /\ funs[1] \in Members(funs) /\ \A x \in Members(funs) : funs[1] <= x
  BY <1>6, <1>7, RisingTail
<1> HIDE DEF last
<1>9. funs[1] = last
  <2>1. funs[1] <= last /\ (funs[1] = last \/ last < funs[1])
    BY <1>5, <1>6, <1>8
  <2>2. 1 \in 1 .. Len(funs)
    BY <1>7, EmptySeq
  <2>3. funs[1] \in Nat
    BY <2>2, ElementOfSeq
  <2>4. QED BY <1>4, <2>1, <2>3
<1>10. Members(Tail(funs)) = Ids(list) \cup {}
  BY <1>4, <1>6, <1>8, <1>9
<1>11. QED BY <1>7, <1>8, <1>10 DEF Listed

\* A command is sent.
LEMMA ListedSend ==
  ASSUME NEW list \in Seq(Cb), NEW done \in Seq(Call), NEW funs \in Seq(Nat), NEW inside, NEW all,
         NEW n \in Nat \ {0}, Listed(list, done, funs, inside, all, n), NEW fn \in BOOLEAN,
         \A x \in inside : x < n
  PROVE  Listed(Append(list, [id |-> n, fn |-> fn]), done,
                IF fn THEN Append(funs, n) ELSE funs, inside,
                IF fn THEN all \cup {n} ELSE all, n + 1)
<1> DEFINE c == [id |-> n, fn |-> fn]
           new == Append(list, c)
           fs == IF fn THEN Append(funs, n) ELSE funs
           as == IF fn THEN all \cup {n} ELSE all
<1>0. c \in Cb /\ c.id = n /\ (c.fn <=> fn)
  BY DEF Cb
<1> HIDE DEF c
<1>1. /\ Len(new) = Len(list) + 1 /\ new[Len(list) + 1] = c /\ Len(list) \in Nat
      /\ \A i \in 1 .. Len(list) : new[i] = list[i]
  BY <1>0, AppendProperties, LenProperties
<1>2. /\ c.fn => Ids(new) = Ids(list) \cup {n}
      /\ ~c.fn => Ids(new) = Ids(list)
  BY <1>0, IdsAppend
<1> HIDE DEF new
<1>3. \A i \in 1 .. Len(new) :
        \/ i = Len(list) + 1 /\ new[i].id = n
        \/ i \in 1 .. Len(list) /\ new[i] = list[i]
  BY <1>0, <1>1
<1>4. \A i \in 1 .. Len(list) : list[i].id \in 1 .. n - 1
  BY DEF Listed
<1>5. \A i \in 1 .. Len(new) : new[i].id \in 1 .. n + 1 - 1
  <2>1. ASSUME NEW i \in 1 .. Len(new) PROVE new[i].id \in 1 .. n
    <3>1. CASE i = Len(list) + 1 /\ new[i].id = n
      BY <3>1
    <3>2. CASE i \in 1 .. Len(list) /\ new[i] = list[i]
      BY <1>4, <3>2
    <3>3. QED BY <1>3, <2>1, <3>1, <3>2
  <2>2. QED BY <2>1
<1>6. \A i, j \in 1 .. Len(new) : i < j => new[i].id < new[j].id
  <2>1. ASSUME NEW i \in 1 .. Len(new), NEW j \in 1 .. Len(new), i < j
        PROVE  new[i].id < new[j].id
    <3>1. i \in 1 .. Len(list) /\ new[i] = list[i]
      BY <1>1, <2>1
    <3>2. CASE j = Len(list) + 1
      BY <1>1, <1>0, <1>4, <3>1, <3>2
    <3>3. CASE j # Len(list) + 1
      <4>1. j \in 1 .. Len(list) /\ new[j] = list[j]
        <5>1. j \in Nat /\ j >= 1 /\ j <= Len(list) + 1
          BY <1>1, <2>1
        <5>2. j \in 1 .. Len(list)
          BY <1>1, <3>3, <5>1
        <5>3. QED BY <1>1, <5>2
      <4>2. list[i].id < list[j].id
        BY <2>1, <3>1, <4>1 DEF Listed
      <4>3. QED BY <3>1, <4>1, <4>2
    <3>4. QED BY <3>2, <3>3
  <2>2. QED BY <2>1
<1>7. \A i \in 1 .. Len(done) :
       /\ done[i].fn = done[i].priv /\ done[i].priv < n + 1 /\ done[i].priv < n
       /\ done[i].got.id \in {0, done[i].priv}
       /\ done[i].got.kind = "status" => done[i].got.id = done[i].priv
  <2>1. \A i \in 1 .. Len(done) : done[i] \in Call
    BY ElementOfSeq
  <2>2. \A i \in 1 .. Len(done) : done[i].priv \in Nat
    BY <2>1 DEF Call
  <2>3. QED BY <2>2 DEF Listed
<1>8. \A i \in 1 .. Len(done), j \in 1 .. Len(new) : done[i].priv < new[j].id
  <2>1. ASSUME NEW i \in 1 .. Len(done), NEW j \in 1 .. Len(new)
        PROVE  done[i].priv < new[j].id
    <3>1. CASE j = Len(list) + 1 /\ new[j].id = n
      BY <1>7, <3>1
    <3>2. CASE j \in 1 .. Len(list) /\ new[j] = list[j]
      BY <3>2 DEF Listed
    <3>3. QED BY <1>3, <3>1, <3>2
  <2>2. QED BY <2>1
<1>9. \A y \in Members(funs) : y < n
  <2>1. \A x \in Ids(list) : x < n
    BY <1>4 DEF Ids
  <2>2. QED BY <2>1 DEF Listed
<1>10. Rising(fs) /\ Members(fs) = Ids(new) \cup inside
  <2>1. CASE fn
    <3>1. Rising(Append(funs, n)) /\ Members(Append(funs, n)) = Members(funs) \cup {n}
      BY <1>9, RisingAppend DEF Listed
    <3>2. QED BY <1>0, <1>2, <2>1, <3>1 DEF Listed
  <2>2. CASE ~fn
    BY <1>0, <1>2, <2>2 DEF Listed
  <2>3. QED BY <2>1, <2>2
<1>11. as = Privs(done) \cup Ids(new)
  BY <1>0, <1>2 DEF Listed
<1>12. \A i, j \in 1 .. Len(done) : i < j => done[i].priv < done[j].priv
  BY DEF Listed
<1> HIDE DEF fs, as
<1>13. Listed(new, done, fs, inside, as, n + 1)
  BY <1>5, <1>6, <1>7, <1>8, <1>10, <1>11, <1>12 DEF Listed
<1>14. QED BY <1>13 DEF new, fs, as, c


\* What is under way to the poller, and to the server.
Due == ac.ibuf \o link.toClient
Asked == link.toServer \o ac.obuf

LEMMA Regroup ==
  ASSUME NEW S, NEW a \in Seq(S), NEW b \in Seq(S), NEW k \in 0 .. Len(b)
  PROVE  (a \o SubSeq(b, 1, k)) \o SubSeq(b, k + 1, Len(b)) = a \o b
<1> DEFINE p == SubSeq(b, 1, k)
           q == SubSeq(b, k + 1, Len(b))
<1>1. /\ p \in Seq(S) /\ Len(p) = k /\ \A i \in 1 .. k : p[i] = b[i]
      /\ q \in Seq(S) /\ Len(q) = Len(b) - k /\ \A i \in 1 .. Len(b) - k : q[i] = b[k + i]
  BY CutType
<1>2. Len(a) \in Nat /\ Len(b) \in Nat /\ k \in Nat /\ k <= Len(b)
  BY LenProperties
<1> HIDE DEF p, q
<1>3. /\ p \o q \in Seq(S) /\ Len(p \o q) = Len(p) + Len(q)
      /\ \A i \in 1 .. Len(p) + Len(q) : (p \o q)[i] = IF i <= Len(p) THEN p[i] ELSE q[i - Len(p)]
  BY <1>1, ConcatProperties
<1>4. Len(p \o q) = Len(b)
  BY <1>1, <1>2, <1>3
<1>5. ASSUME NEW i \in 1 .. Len(b) PROVE (p \o q)[i] = b[i]
  <2>1. i \in 1 .. Len(p) + Len(q)
    BY <1>1, <1>2
  <2>2. CASE i <= k
    BY <1>1, <1>2, <1>3, <2>1, <2>2
  <2>3. CASE ~(i <= k)
    <3>1. i - k \in 1 .. Len(b) - k /\ k + (i - k) = i
      BY <1>2, <2>3
    <3>2. q[i - k] = b[k + (i - k)]
      BY <1>1, <3>1
    <3>3. q[i - k] = b[i]
      BY <3>1, <3>2
    <3>4. QED BY <1>1, <1>3, <2>1, <2>3, <3>3
  <2>4. QED BY <2>2, <2>3
<1>6. p \o q = b
  BY <1>3, <1>4, <1>5, SeqEqual
<1>7. (a \o p) \o q = a \o (p \o q)
  BY <1>1, ConcatAssociative, SMTT(30)
<1>8. QED BY <1>6, <1>7 DEF p, q

LEMMA TailOfBoth ==
  ASSUME NEW S, NEW a \in Seq(S), NEW b \in Seq(S), a # <<>>
  PROVE  /\ Tail(a) \o b = Tail(a \o b) /\ Head(a) = (a \o b)[1]
         /\ Len(a \o b) \in Nat \ {0} /\ a \o b \in Seq(S) /\ a \o b # <<>>
<1>1. /\ Tail(a) \in Seq(S) /\ Len(Tail(a)) = Len(a) - 1 /\ Len(a) \in Nat /\ Len(a) >= 1
      /\ \A i \in 1 .. Len(Tail(a)) : Tail(a)[i] = a[i + 1]
      /\ Len(b) \in Nat
  BY HeadTailProperties, EmptySeq, LenProperties
<1> DEFINE c == a \o b
           d == Tail(a) \o b
<1>2. /\ c \in Seq(S) /\ Len(c) = Len(a) + Len(b)
      /\ \A i \in 1 .. Len(a) + Len(b) : c[i] = IF i <= Len(a) THEN a[i] ELSE b[i - Len(a)]
  BY ConcatProperties
<1>3. /\ d \in Seq(S) /\ Len(d) = Len(a) - 1 + Len(b)
      /\ \A i \in 1 .. Len(a) - 1 + Len(b) :
           d[i] = IF i <= Len(a) - 1 THEN Tail(a)[i] ELSE b[i - (Len(a) - 1)]
  BY <1>1, ConcatProperties
<1> HIDE DEF c, d
<1>4. c # <<>> /\ Len(c) \in Nat \ {0} /\ Head(a) = c[1]
  <2>1. c[1] = a[1]
    BY <1>1, <1>2
  <2>2. QED BY <1>1, <1>2, <2>1, EmptySeq
<1>5. /\ Tail(c) \in Seq(S) /\ Len(Tail(c)) = Len(c) - 1
      /\ \A i \in 1 .. Len(Tail(c)) : Tail(c)[i] = c[i + 1]
  BY <1>2, <1>4, HeadTailProperties
<1>6. Len(d) = Len(Tail(c))
  BY <1>1, <1>2, <1>3, <1>5
<1>7. ASSUME NEW i \in 1 .. Len(d) PROVE d[i] = Tail(c)[i]
  <2>1. /\ i \in 1 .. Len(a) - 1 + Len(b) /\ i + 1 \in 1 .. Len(a) + Len(b)
        /\ i \in 1 .. Len(Tail(c))
    BY <1>1, <1>3, <1>6
  <2>2. CASE i <= Len(a) - 1
    BY <1>1, <1>2, <1>3, <1>5, <2>1, <2>2
  <2>3. CASE ~(i <= Len(a) - 1)
    <3>1. i - (Len(a) - 1) = i + 1 - Len(a) /\ ~(i + 1 <= Len(a))
      BY <1>1, <2>3
    <3>2. d[i] = b[i - (Len(a) - 1)] /\ c[i + 1] = b[i + 1 - Len(a)]
      BY <1>2, <1>3, <2>1, <2>3, <3>1
    <3>3. QED BY <1>5, <2>1, <3>1, <3>2
  <2>4. QED BY <2>2, <2>3
<1>8. d = Tail(c)
  BY <1>3, <1>5, <1>6, <1>7, SeqEqual
<1>9. QED BY <1>2, <1>4, <1>8 DEF c, d

LEMMA AppendToBoth ==
  ASSUME NEW S, NEW a \in Seq(S), NEW b \in Seq(S), NEW e \in S
  PROVE  a \o Append(b, e) = Append(a \o b, e)
<1>1. a \o b \in Seq(S) /\ <<e>> \in Seq(S)
  BY ConcatProperties
<1>2. Append(b, e) = b \o <<e>> /\ Append(a \o b, e) = (a \o b) \o <<e>>
  BY <1>1, AppendIsConcat
<1>3. (a \o b) \o <<e>> = a \o (b \o <<e>>)
  BY <1>1, ConcatAssociative, SMTT(30)
<1>4. QED BY <1>2, <1>3

\* The replies that are due are those of the first commands in line, and the commands
\* that have not been read those of the others, unless the connection broke or the
\* server reads nothing.
Paired(list, due, asked, srv, state) ==
  /\ srv.topics = {} /\ ~srv.feeds
  /\ srv.full => \A i \in 1 .. Len(due) : due[i].id = 0 /\ due[i].kind \in {"error", "garbage"}
  /\ ~srv.full => /\ Len(due) <= Len(list)
                  /\ \A i \in 1 .. Len(due) : due[i].id = list[i].id /\ due[i].kind = "status"
  /\ ~srv.full /\ state # "broken" =>
       /\ Len(due) + Len(asked) = Len(list)
       /\ \A j \in 1 .. Len(asked) : asked[j].id = list[Len(due) + j].id /\ asked[j].kind = "get"

LEMMA PairedReads ==
  ASSUME NEW list \in Seq(Cb), NEW due \in Seq(Got), NEW asked \in Seq(Sent), NEW srv, NEW state,
         Paired(list, due, asked, srv, state), ~srv.full, state # "broken", asked # <<>>,
         NEW r \in Got, r.id = asked[1].id, r.kind = "status"
  PROVE  /\ Paired(list, Append(due, r), Tail(asked), srv, state) /\ asked[1].kind = "get"
<1>1. /\ Len(list) \in Nat /\ Len(due) \in Nat /\ Len(asked) \in Nat /\ Len(asked) >= 1
      /\ Len(Tail(asked)) = Len(asked) - 1
      /\ \A i \in 1 .. Len(Tail(asked)) : Tail(asked)[i] = asked[i + 1]
      /\ Len(Append(due, r)) = Len(due) + 1 /\ Append(due, r)[Len(due) + 1] = r
      /\ \A i \in 1 .. Len(due) : Append(due, r)[i] = due[i]
  BY HeadTailProperties, EmptySeq, LenProperties, AppendProperties
<1>2. /\ asked[1].id = list[Len(due) + 1].id /\ asked[1].kind = "get"
  BY <1>1 DEF Paired
<1>3. Len(Append(due, r)) + Len(Tail(asked)) = Len(list) /\ Len(Append(due, r)) <= Len(list)
  BY <1>1 DEF Paired
<1> DEFINE d == Append(due, r)
           a == Tail(asked)
<1> HIDE DEF d, a
<1>4. ASSUME NEW i \in 1 .. Len(d) PROVE d[i].id = list[i].id /\ d[i].kind = "status"
  <2>1. CASE i = Len(due) + 1
    BY <1>1, <1>2, <2>1 DEF d
  <2>2. CASE i # Len(due) + 1
    <3>1. i \in 1 .. Len(due) /\ d[i] = due[i]
      BY <1>1, <2>2 DEF d
    <3>2. QED BY <3>1 DEF Paired
  <2>3. QED BY <2>1, <2>2
<1>5. ASSUME NEW j \in 1 .. Len(a) PROVE a[j].id = list[Len(d) + j].id /\ a[j].kind = "get"
  <2>1. j + 1 \in 1 .. Len(asked) /\ a[j] = asked[j + 1] /\ Len(d) + j = Len(due) + (j + 1)
    BY <1>1 DEF d, a
  <2>2. asked[j + 1].id = list[Len(due) + (j + 1)].id /\ asked[j + 1].kind = "get"
    BY <2>1 DEF Paired
  <2>3. QED BY <2>1, <2>2
<1>6. Paired(list, d, a, srv, state)
  BY <1>3, <1>4, <1>5 DEF Paired, d, a
<1>7. QED BY <1>2, <1>6 DEF d, a

LEMMA PairedTake ==
  ASSUME NEW list \in Seq(Cb), NEW due \in Seq(Got), NEW asked \in Seq(Sent), NEW srv, NEW state,
         Paired(list, due, asked, srv, state), list # <<>>, due # <<>>
  PROVE  /\ Paired(Tail(list), Tail(due), asked, srv, state)
         /\ due[1].id \in {0, list[1].id}
         /\ due[1].kind = "status" => due[1].id = list[1].id
<1>1. /\ Len(list) \in Nat /\ Len(due) \in Nat /\ Len(asked) \in Nat /\ Len(due) >= 1 /\ Len(list) >= 1
      /\ Len(Tail(list)) = Len(list) - 1 /\ Len(Tail(due)) = Len(due) - 1
      /\ \A i \in 1 .. Len(Tail(list)) : Tail(list)[i] = list[i + 1]
      /\ \A i \in 1 .. Len(Tail(due)) : Tail(due)[i] = due[i + 1]
  BY HeadTailProperties, EmptySeq, LenProperties
<1> DEFINE l == Tail(list)
           d == Tail(due)
<1>7. Len(l) = Len(list) - 1 /\ Len(d) = Len(due) - 1
  BY <1>1
<1> HIDE DEF l, d
<1>2. ASSUME srv.full PROVE Paired(l, d, asked, srv, state)
  BY <1>1, <1>2 DEF Paired, l, d
<1>3. ASSUME ~srv.full PROVE Paired(l, d, asked, srv, state)
  <2>1. Len(d) <= Len(l)
    <3>1. Len(due) <= Len(list)
      BY <1>3 DEF Paired
    <3>2. QED BY <1>1, <1>7, <3>1
  <2>2. ASSUME NEW i \in 1 .. Len(d) PROVE d[i].id = l[i].id /\ d[i].kind = "status"
    <3>1. i + 1 \in 1 .. Len(due) /\ d[i] = due[i + 1] /\ l[i] = list[i + 1]
      BY <1>1, <2>1 DEF l, d
    <3>2. QED BY <1>3, <3>1 DEF Paired
  <2>3. ASSUME state # "broken"
        PROVE  /\ Len(d) + Len(asked) = Len(l)
               /\ \A j \in 1 .. Len(asked) : asked[j].id = l[Len(d) + j].id /\ asked[j].kind = "get"
    <3>1. Len(d) + Len(asked) = Len(l)
      <4>1. Len(due) + Len(asked) = Len(list)
        BY <1>3, <2>3 DEF Paired
      <4>2. Len(list) \in Nat /\ Len(due) \in Nat /\ Len(asked) \in Nat
        BY <1>1
      <4>3. (Len(due) - 1) + Len(asked) = Len(list) - 1
        BY <4>1, <4>2
      <4>4. QED BY <1>7, <4>3
    <3>2. ASSUME NEW j \in 1 .. Len(asked) PROVE asked[j].id = l[Len(d) + j].id /\ asked[j].kind = "get"
      <4>1. l[Len(d) + j] = list[Len(due) + j]
        <5>1. Len(d) + j \in 1 .. Len(l) /\ Len(d) + j + 1 = Len(due) + j
          BY <1>1, <3>1 DEF l, d
        <5>2. l[Len(d) + j] = list[Len(d) + j + 1]
          BY <1>1, <5>1 DEF l
        <5>3. QED BY <5>1, <5>2
      <4>2. QED BY <1>3, <2>3, <4>1 DEF Paired
    <3>3. QED BY <3>1, <3>2
  <2>4. QED BY <1>3, <2>1, <2>2, <2>3 DEF Paired
<1>4. 1 \in 1 .. Len(due)
  BY <1>1
<1>5. due[1].id \in {0, list[1].id} /\ (due[1].kind = "status" => due[1].id = list[1].id)
  BY <1>4 DEF Paired
<1>8. QED BY <1>2, <1>3, <1>5 DEF l, d

LEMMA PairedSend ==
  ASSUME NEW list \in Seq(Cb), NEW due \in Seq(Got), NEW asked \in Seq(Sent), NEW srv, NEW state,
         Paired(list, due, asked, srv, state), NEW c \in Cb, NEW q \in Sent, q.id = c.id, q.kind = "get"
  PROVE  Paired(Append(list, c), due, Append(asked, q), srv, state)
<1>1. /\ Len(list) \in Nat /\ Len(due) \in Nat /\ Len(asked) \in Nat
      /\ Len(Append(list, c)) = Len(list) + 1 /\ Append(list, c)[Len(list) + 1] = c
      /\ \A i \in 1 .. Len(list) : Append(list, c)[i] = list[i]
      /\ Len(Append(asked, q)) = Len(asked) + 1 /\ Append(asked, q)[Len(asked) + 1] = q
      /\ \A i \in 1 .. Len(asked) : Append(asked, q)[i] = asked[i]
  BY LenProperties, AppendProperties
<1> DEFINE l == Append(list, c)
           a == Append(asked, q)
<1> HIDE DEF l, a
<1>2. ASSUME srv.full PROVE Paired(l, due, a, srv, state)
  BY <1>1, <1>2 DEF Paired
<1>3. ASSUME ~srv.full PROVE Paired(l, due, a, srv, state)
  <2>1. Len(due) <= Len(l) /\ Len(due) <= Len(list)
    BY <1>1, <1>3 DEF Paired, l
  <2>2. ASSUME NEW i \in 1 .. Len(due) PROVE due[i].id = l[i].id /\ due[i].kind = "status"
    <3>1. l[i] = list[i]
      BY <1>1, <2>1 DEF l
    <3>2. QED BY <1>3, <3>1 DEF Paired
  <2>3. ASSUME state # "broken"
        PROVE  /\ Len(due) + Len(a) = Len(l)
               /\ \A j \in 1 .. Len(a) : a[j].id = l[Len(due) + j].id /\ a[j].kind = "get"
    <3>0. Len(due) + Len(asked) = Len(list)
      BY <1>3, <2>3 DEF Paired
    <3>1. Len(due) + Len(a) = Len(l)
      BY <1>1, <3>0 DEF l, a
    <3>2. ASSUME NEW j \in 1 .. Len(a) PROVE a[j].id = l[Len(due) + j].id /\ a[j].kind = "get"
      <4>1. CASE j = Len(asked) + 1
        <5>1. Len(due) + j = Len(list) + 1
          BY <1>1, <3>0, <4>1
        <5>2. QED BY <1>1, <4>1, <5>1 DEF l, a
      <4>2. CASE j # Len(asked) + 1
        <5>1. /\ j \in 1 .. Len(asked) /\ a[j] = asked[j]
              /\ Len(due) + j \in 1 .. Len(list)
          BY <1>1, <3>0, <4>2 DEF a
        <5>2. l[Len(due) + j] = list[Len(due) + j]
          BY <1>1, <5>1 DEF l
        <5>3. QED BY <1>3, <2>3, <5>1, <5>2 DEF Paired
      <4>3. QED BY <4>1, <4>2
    <3>3. QED BY <3>1, <3>2
  <2>4. QED BY <1>3, <2>1, <2>2, <2>3 DEF Paired
<1>4. QED BY <1>2, <1>3 DEF l, a


\* The command whose function runs, with the lock given up.
Inside == IF pc["poller"] \in {"callback", "nil"} THEN {calls[Len(calls)].priv} ELSE {}

\* Plain commands use no list of pub/sub.
PlainContext ==
  /\ "SUBSCRIBED" \notin ac.flags /\ "MONITORING" \notin ac.flags
  /\ ac.invalid = <<>> /\ DOMAIN ac.subs = {}

\* Callbacks are run off by OnActive only: the user, in Close, has none to wait for, and
\* none is left when the context is freed.
PlainEnd ==
  /\ pc["user"] # "nil" /\ (pc["user"] # "idle" => ac.replies = <<>>)
  /\ \A t \in Threads : pc[t] \in {"unlocked", "disconnected"} => ac.replies = <<>>
  /\ freed => ac.replies = <<>>
  /\ pc["poller"] \in {"callback", "nil"} => calls # <<>>
  /\ crashed # "empty"

PlainLists == Listed(ac.replies, calls, fns, Inside, accepted, next)
PlainPairs ==
  ~freed /\ pc["poller"] \notin Ending => Paired(ac.replies, Due, Asked, server, link.state)

Answered == Plain => PlainContext /\ PlainEnd /\ PlainLists /\ PlainPairs

LEMMA AnsweredInit == Init => Answered
<1> SUFFICES ASSUME Init PROVE PlainContext /\ PlainEnd /\ PlainLists /\ PlainPairs
  BY DEF Answered
<1>0. /\ ac.replies = <<>> /\ ac.invalid = <<>> /\ ac.subs = <<>> /\ ac.flags = {}
      /\ ac.obuf = <<>> /\ ac.ibuf = <<>> /\ fns = <<>> /\ calls = <<>> /\ accepted = {}
      /\ next = 1 /\ pc = [t \in Threads |-> "idle"] /\ freed = FALSE /\ crashed = "no"
      /\ link.toServer = <<>> /\ link.toClient = <<>>
      /\ server.topics = {} /\ server.feeds = FALSE /\ server.full = FALSE
  BY DEF Init
<1>1. PlainContext
  BY <1>0, NoSubs DEF PlainContext
<1>2. PlainEnd
  BY <1>0 DEF PlainEnd, Threads
<1>3. Len(<<>>) = 0
  OBVIOUS
<1>4. PlainLists
  <2>1. Inside = {}
    BY <1>0 DEF Inside, Threads
  <2>2. Ids(<<>>) = {} /\ Members(<<>>) = {} /\ Privs(<<>>) = {} /\ Rising(<<>>)
    BY <1>3 DEF Ids, Members, Privs, Rising
  <2>3. ASSUME NEW e, Len(e) = 0, Ids(e) = {}, Members(e) = {}, Privs(e) = {}, Rising(e)
        PROVE  Listed(e, e, e, {}, {}, 1)
    BY <2>3 DEF Listed
  <2>4. Listed(<<>>, <<>>, <<>>, {}, {}, 1)
    BY <1>3, <2>2, <2>3, Zenon
  <2>5. QED BY <1>0, <2>1, <2>4 DEF PlainLists
<1>5. PlainPairs
  <2>1. Due = <<>> /\ Asked = <<>>
    <3>1. <<>> \o <<>> = <<>>
      BY ConcatEmptySeq, EmptySeq
    <3>2. QED BY <1>0, <3>1 DEF Due, Asked
  <2>2. Paired(<<>>, <<>>, <<>>, server, link.state)
    BY <1>0, <1>3 DEF Paired
  <2>3. QED BY <1>0, <2>1, <2>2 DEF PlainPairs
<1>6. QED BY <1>1, <1>2, <1>4, <1>5

LEMMA DueAsked ==
  ASSUME TypeOK
  PROVE  /\ ac.ibuf \in Seq(Got) /\ link.toClient \in Seq(Got) /\ Due \in Seq(Got)
         /\ link.toServer \in Seq(Sent) /\ ac.obuf \in Seq(Sent) /\ Asked \in Seq(Sent)
         /\ ac.replies \in Seq(Cb) /\ Len(ac.replies) \in Nat
<1>1. /\ ac.ibuf \in Seq(Got) /\ link.toClient \in Seq(Got)
      /\ link.toServer \in Seq(Sent) /\ ac.obuf \in Seq(Sent) /\ ac.replies \in Seq(Cb)
  BY DEF TypeOK, ContextType, Context, PeerType, Link
<1>2. QED BY <1>1, ConcatProperties, LenProperties DEF Due, Asked

LEMMA DueHead ==
  ASSUME TypeOK, ac.ibuf # <<>>
  PROVE  /\ Head(ac.ibuf) = Due[1] /\ Due # <<>> /\ Tail(ac.ibuf) \o link.toClient = Tail(Due)
<1>1. ac.ibuf \in Seq(Got) /\ link.toClient \in Seq(Got)
  BY DueAsked
<1>2. /\ Tail(ac.ibuf) \o link.toClient = Tail(ac.ibuf \o link.toClient)
      /\ Head(ac.ibuf) = (ac.ibuf \o link.toClient)[1] /\ ac.ibuf \o link.toClient # <<>>
  <2>1. \A a, b \in Seq(Got) : a # <<>> =>
          /\ Tail(a) \o b = Tail(a \o b) /\ Head(a) = (a \o b)[1] /\ a \o b # <<>>
    BY TailOfBoth, SMTT(20)
  <2>2. QED BY <1>1, <2>1, Zenon
<1>3. QED BY <1>2 DEF Due

LEMMA AskedHead ==
  ASSUME TypeOK, link.toServer # <<>>
  PROVE  /\ Head(link.toServer) = Asked[1] /\ Asked # <<>> /\ Len(Asked) \in Nat \ {0}
         /\ Tail(link.toServer) \o ac.obuf = Tail(Asked)
<1>1. link.toServer \in Seq(Sent) /\ ac.obuf \in Seq(Sent)
  BY DueAsked
<1>2. /\ Tail(link.toServer) \o ac.obuf = Tail(link.toServer \o ac.obuf)
      /\ Head(link.toServer) = (link.toServer \o ac.obuf)[1]
      /\ Len(link.toServer \o ac.obuf) \in Nat \ {0} /\ link.toServer \o ac.obuf # <<>>
  <2>1. \A a, b \in Seq(Sent) : a # <<>> =>
          /\ Tail(a) \o b = Tail(a \o b) /\ Head(a) = (a \o b)[1]
          /\ Len(a \o b) \in Nat \ {0} /\ a \o b # <<>>
    BY TailOfBoth, SMTT(20)
  <2>2. QED BY <1>1, <2>1, Zenon
<1>3. QED BY <1>2 DEF Asked

LEMMA DueLast ==
  ASSUME TypeOK, NEW e \in Got
  PROVE  ac.ibuf \o Append(link.toClient, e) = Append(Due, e)
<1>1. ac.ibuf \in Seq(Got) /\ link.toClient \in Seq(Got)
  BY DueAsked
<1>2. \A a, b \in Seq(Got) : a \o Append(b, e) = Append(a \o b, e)
  BY AppendToBoth
<1>3. ac.ibuf \o Append(link.toClient, e) = Append(ac.ibuf \o link.toClient, e)
  BY <1>1, <1>2, Zenon
<1>4. QED BY <1>3 DEF Due

\* The list with one more at its end.
LEMMA LastOf ==
  ASSUME NEW S, NEW f \in Seq(S), NEW e \in S
  PROVE  /\ Append(f, e) \in Seq(S) /\ Append(f, e) # <<>> /\ Len(f) \in Nat
         /\ Len(Append(f, e)) = Len(f) + 1 /\ Append(f, e)[Len(Append(f, e))] = e
         /\ \A i \in 1 .. Len(f) : Append(f, e)[i] = f[i]
  BY AppendProperties, LenProperties

\* The flags of pub/sub and of a monitor.
PubSub(flags) == flags \cap {"SUBSCRIBED", "MONITORING"}

\* A step that touches neither the callbacks nor the history.
ListsKept ==
  /\ UNCHANGED <<user, fns, calls>>
  /\ ac'.replies = ac.replies /\ ac'.invalid = ac.invalid /\ ac'.subs = ac.subs
  /\ PubSub(ac'.flags) = PubSub(ac.flags)
  /\ crashed' # "empty"

LEMMA AnsweredQuiet ==
  ASSUME Plain, PlainContext, PlainEnd, PlainLists, ListsKept,
         pc'["poller"] \in {"callback", "nil"} <=> pc["poller"] \in {"callback", "nil"},
         pc'["user"] # "nil", pc'["user"] # "idle" => ac.replies = <<>>,
         \A t \in Threads : pc'[t] \in {"unlocked", "disconnected"} => ac.replies = <<>>,
         freed' => ac.replies = <<>>,
         PlainPairs'
  PROVE  Answered'
<1>1. PlainContext'
  BY DEF PlainContext, ListsKept, PubSub
<1>2. PlainEnd'
  BY DEF PlainEnd, ListsKept
<1>3. Inside' = Inside
  BY DEF Inside, ListsKept
<1>4. PlainLists'
  BY <1>3 DEF PlainLists, ListsKept, user
<1>5. QED BY <1>1, <1>2, <1>4 DEF Answered

LEMMA DisconnectKeeps ==
  ASSUME NEW x \in Context
  PROVE  /\ Disconnect(x, TRUE).replies = x.replies /\ Disconnect(x, FALSE).replies = x.replies
         /\ Disconnect(x, TRUE).invalid = x.invalid /\ Disconnect(x, FALSE).invalid = x.invalid
         /\ Disconnect(x, TRUE).subs = x.subs /\ Disconnect(x, FALSE).subs = x.subs
         /\ PubSub(Disconnect(x, TRUE).flags) = PubSub(x.flags)
         /\ PubSub(Disconnect(x, FALSE).flags) = PubSub(x.flags)
  BY DEF Disconnect, Context, PubSub

\* The lists of the context that a step of OnActive keeps.
LEMMA PollLists ==
  ASSUME TypeOK, Running, Poll, ~ProcessReply
  PROVE  /\ PubSub(ac'.flags) = PubSub(ac.flags) /\ crashed' # "assert"
         /\ "MONITORING" \notin ac.flags => ListsKept
<1>0. ac \in Context /\ crashed = "no" /\ ac.ibuf \in Seq(Got)
  BY DEF TypeOK, ContextType, Context, Running
<1>1. CASE EpollWait \/ OnActive \/ ConnectReturn
  <2>1. UNCHANGED <<user, fns, calls>> /\ ac' = ac /\ crashed' = crashed
    BY <1>1, Zenon DEF EpollWait, OnActive, ConnectReturn
  <2>2. QED BY <1>0, <2>1 DEF ListsKept
<1>2. CASE HandleConnect
  <2>1. /\ UNCHANGED <<user, fns, calls>> /\ crashed' = crashed
        /\ \/ ac' = [ac EXCEPT !.err = TRUE]
           \/ ac' = [ac EXCEPT !.flags = @ \cup {"CONNECTED"}]
    BY <1>2, Zenon DEF HandleConnect
  <2>2. QED BY <1>0, <2>1 DEF ListsKept, Context, PubSub
<1>3. CASE ac' = Disconnect(ac, TRUE) /\ UNCHANGED <<user, fns, calls>> /\ crashed' = crashed
  <2>1. /\ ac'.replies = ac.replies /\ ac'.invalid = ac.invalid /\ ac'.subs = ac.subs
        /\ PubSub(ac'.flags) = PubSub(ac.flags)
    BY <1>0, <1>3, DisconnectKeeps, Zenon
  <2>2. QED BY <1>0, <1>3, <2>1 DEF ListsKept
<1>4. CASE HandleRead
  <2>1. /\ UNCHANGED <<user, fns, calls>> /\ crashed' = crashed
        /\ \/ ac' = Disconnect(ac, TRUE)
           \/ \E k : ac' = [ac EXCEPT !.ibuf = @ \o SubSeq(link.toClient, 1, k)]
    BY <1>4, Zenon DEF HandleRead
  <2>2. CASE \E k : ac' = [ac EXCEPT !.ibuf = @ \o SubSeq(link.toClient, 1, k)]
    BY <1>0, <2>1, <2>2 DEF ListsKept, Context, PubSub
  <2>3. QED BY <1>3, <2>1, <2>2
<1>5. CASE HandleWrite
  <2>1. /\ UNCHANGED <<user, fns, calls>> /\ crashed' = crashed
        /\ \/ ac' = Disconnect(ac, TRUE)
           \/ \E k : ac' = [ac EXCEPT !.obuf = SubSeq(@, k + 1, Len(@))]
    BY <1>5, Zenon DEF HandleWrite
  <2>2. CASE \E k : ac' = [ac EXCEPT !.obuf = SubSeq(@, k + 1, Len(@))]
    BY <1>0, <2>1, <2>2 DEF ListsKept, Context, PubSub
  <2>3. QED BY <1>3, <2>1, <2>2
<1>6. CASE RefusedReturn
  <2>1. UNCHANGED <<user, fns, calls>> /\ crashed' = crashed /\ ac' = Disconnect(ac, TRUE)
    BY <1>6, Zenon DEF RefusedReturn
  <2>2. QED BY <1>3, <2>1
<1>7. CASE NoMoreReplies
  <2>1. /\ UNCHANGED <<user, fns, calls>> /\ crashed' = crashed
        /\ \/ ac' = Disconnect(ac, FALSE)
           \/ ac' = [ac EXCEPT !.replies = IF "MONITORING" \in ac.flags THEN Append(@, cb) ELSE @]
    BY <1>7, Zenon DEF NoMoreReplies
  <2>2. CASE ac' = Disconnect(ac, FALSE)
    <3>1. /\ ac'.replies = ac.replies /\ ac'.invalid = ac.invalid /\ ac'.subs = ac.subs
          /\ PubSub(ac'.flags) = PubSub(ac.flags)
      BY <1>0, <2>2, DisconnectKeeps, Zenon
    <3>2. QED BY <1>0, <2>1, <3>1 DEF ListsKept
  <2>3. CASE ac' = [ac EXCEPT !.replies = IF "MONITORING" \in ac.flags THEN Append(@, cb) ELSE @]
    BY <1>0, <2>1, <2>3 DEF ListsKept, Context, PubSub
  <2>4. QED BY <2>1, <2>2, <2>3
<1>8. CASE BadReply
  <2>1. /\ UNCHANGED <<user, fns, calls>> /\ crashed' = crashed /\ ac.ibuf # <<>>
        /\ ac' = Disconnect([ac EXCEPT !.ibuf = Tail(@)], TRUE)
    BY <1>8, Zenon DEF BadReply
  <2> DEFINE x == [ac EXCEPT !.ibuf = Tail(@)]
  <2>2. /\ x \in Context /\ x.replies = ac.replies /\ x.invalid = ac.invalid /\ x.subs = ac.subs
        /\ x.flags = ac.flags
    BY <1>0, <2>1, HeadTailProperties DEF Context
  <2>3. ac' = Disconnect(x, TRUE)
    BY <2>1
  <2> HIDE DEF x
  <2>4. /\ ac'.replies = ac.replies /\ ac'.invalid = ac.invalid /\ ac'.subs = ac.subs
        /\ PubSub(ac'.flags) = PubSub(ac.flags)
    BY <2>2, <2>3, DisconnectKeeps, Zenon
  <2>5. QED BY <1>0, <2>1, <2>4 DEF ListsKept
<1>9. QED BY <1>1, <1>2, <1>4, <1>5, <1>6, <1>7, <1>8 DEF Poll

\* What is due and asked stays while OnActive reads and writes.
LEMMA PollPairs ==
  ASSUME TypeOK, Running, Poll, ~ProcessReply
  PROVE  /\ UNCHANGED server /\ link'.state = link.state
         /\ (Due' = Due /\ Asked' = Asked) \/ pc'["poller"] = "free"
<1>0. /\ ac \in Context /\ link \in Link /\ "poller" \in Threads /\ pc \in [Threads -> Places]
      /\ ac.ibuf \in Seq(Got)
  BY DEF TypeOK, ContextType, Context, PeerType, ThreadType, Threads
<1>1. CASE EpollWait \/ OnActive \/ ConnectReturn
  <2>1. ac' = ac /\ link' = link /\ server' = server
    BY <1>1, Zenon DEF EpollWait, OnActive, ConnectReturn
  <2>2. QED BY <2>1 DEF Due, Asked
<1>2. CASE HandleConnect
  <2>1. /\ link' = link /\ server' = server
        /\ \/ ac' = [ac EXCEPT !.err = TRUE]
           \/ ac' = [ac EXCEPT !.flags = @ \cup {"CONNECTED"}]
    BY <1>2, Zenon DEF HandleConnect
  <2>2. QED BY <1>0, <2>1 DEF Due, Asked, Context
<1>3. ASSUME Hold("poller", "free") PROVE pc'["poller"] = "free"
  BY <1>0, <1>3 DEF Hold
<1>4. CASE HandleRead
  <2>1. CASE Hold("poller", "free") /\ link' = link /\ server' = server
    BY <1>3, <2>1
  <2>2. CASE /\ server' = server
             /\ \E k \in 0 .. Len(link.toClient) :
                /\ ac' = [ac EXCEPT !.ibuf = @ \o SubSeq(link.toClient, 1, k)]
                /\ link' = [link EXCEPT !.toClient = SubSeq(@, k + 1, Len(@))]
    <3>1. PICK k \in 0 .. Len(link.toClient) :
                /\ ac' = [ac EXCEPT !.ibuf = @ \o SubSeq(link.toClient, 1, k)]
                /\ link' = [link EXCEPT !.toClient = SubSeq(@, k + 1, Len(@))]
      BY <2>2
    <3>2. (ac.ibuf \o SubSeq(link.toClient, 1, k)) \o SubSeq(link.toClient, k + 1, Len(link.toClient))
            = ac.ibuf \o link.toClient
      BY DueAsked, Regroup
    <3>3. /\ ac'.ibuf = ac.ibuf \o SubSeq(link.toClient, 1, k) /\ ac'.obuf = ac.obuf
          /\ link'.toClient = SubSeq(link.toClient, k + 1, Len(link.toClient))
          /\ link'.toServer = link.toServer /\ link'.state = link.state
      BY <1>0, <3>1 DEF Context, Link
    <3>4. QED BY <2>2, <3>2, <3>3 DEF Due, Asked
  <2>3. QED BY <1>4, <2>1, <2>2, Zenon DEF HandleRead
<1>5. CASE HandleWrite
  <2>1. CASE Hold("poller", "free") /\ link' = link /\ server' = server
    BY <1>3, <2>1
  <2>2. CASE /\ server' = server
             /\ \E k \in 0 .. Len(ac.obuf) :
                /\ ac' = [ac EXCEPT !.obuf = SubSeq(@, k + 1, Len(@))]
                /\ link' = [link EXCEPT !.toServer = @ \o SubSeq(ac.obuf, 1, k)]
    <3>1. PICK k \in 0 .. Len(ac.obuf) :
                /\ ac' = [ac EXCEPT !.obuf = SubSeq(@, k + 1, Len(@))]
                /\ link' = [link EXCEPT !.toServer = @ \o SubSeq(ac.obuf, 1, k)]
      BY <2>2
    <3>2. (link.toServer \o SubSeq(ac.obuf, 1, k)) \o SubSeq(ac.obuf, k + 1, Len(ac.obuf))
            = link.toServer \o ac.obuf
      BY DueAsked, Regroup
    <3>3. /\ ac'.ibuf = ac.ibuf /\ ac'.obuf = SubSeq(ac.obuf, k + 1, Len(ac.obuf))
          /\ link'.toServer = link.toServer \o SubSeq(ac.obuf, 1, k)
          /\ link'.toClient = link.toClient /\ link'.state = link.state
      BY <1>0, <3>1 DEF Context, Link
    <3>4. QED BY <2>2, <3>2, <3>3 DEF Due, Asked
  <2>3. QED BY <1>5, <2>1, <2>2, Zenon DEF HandleWrite
<1>6. CASE RefusedReturn \/ BadReply
  <2>1. link' = link /\ server' = server /\ Hold("poller", "free")
    BY <1>6, Zenon DEF RefusedReturn, BadReply
  <2>2. QED BY <1>3, <2>1
<1>7. CASE NoMoreReplies
  <2>1. CASE Hold("poller", "free") /\ link' = link /\ server' = server
    BY <1>3, <2>1
  <2>2. CASE /\ link' = link /\ server' = server
             /\ \E e : ac' = [ac EXCEPT !.replies = e]
    <3>1. ac'.ibuf = ac.ibuf /\ ac'.obuf = ac.obuf
      BY <1>0, <2>2 DEF Context
    <3>2. QED BY <2>2, <3>1 DEF Due, Asked
  <2>3. QED BY <1>7, <2>1, <2>2, Zenon DEF NoMoreReplies
<1>8. QED BY <1>1, <1>2, <1>4, <1>5, <1>6, <1>7 DEF Poll

LEMMA AnsweredPoll ==
  ASSUME TypeOK, Locks, Phases, Answered, Plain, Running, Poll, ~ProcessReply
  PROVE  Answered'
<1>1. PlainContext /\ PlainEnd /\ PlainLists /\ PlainPairs
  BY DEF Answered
<1>2. ListsKept /\ PollEffect
  BY <1>1, PollLists, PollEffects DEF PlainContext
<1>3. /\ UNCHANGED server /\ link'.state = link.state
      /\ (Due' = Due /\ Asked' = Asked) \/ pc'["poller"] = "free"
  BY PollPairs
<1>4. /\ pc'["poller"] \notin {"callback", "nil"} /\ pc["poller"] \notin {"callback", "nil"}
      /\ pc'["user"] = pc["user"] /\ freed' = freed
      /\ pc'["poller"] \notin {"unlocked", "disconnected"} /\ pc["poller"] \notin Ending
  BY <1>2 DEF PollEffect, Ending
<1>5. /\ pc'["user"] # "nil" /\ (pc'["user"] # "idle" => ac.replies = <<>>)
      /\ (freed' => ac.replies = <<>>)
      /\ \A t \in Threads : pc'[t] \in {"unlocked", "disconnected"} => ac.replies = <<>>
  BY <1>1, <1>4 DEF PlainEnd, Threads
<1>6. PlainPairs'
  BY <1>1, <1>2, <1>3, <1>4 DEF PlainPairs, ListsKept, Ending
<1>7. QED BY <1>1, <1>2, <1>4, <1>5, <1>6, AnsweredQuiet

LEMMA AnsweredReply ==
  ASSUME TypeOK, Locks, Phases, Answered, Plain, Running, ProcessReply
  PROVE  Answered'
<1> DEFINE r == Head(ac.ibuf)
           y == [ac EXCEPT !.ibuf = Tail(@)]
           x == CallbackFor(y, r)
           c == Head(ac.replies)
<1>0. /\ ac \in Context /\ ac.ibuf \in Seq(Got) /\ ac.replies \in Seq(Cb) /\ "poller" \in Threads
      /\ pc \in [Threads -> Places] /\ crashed = "no" /\ next \in Nat
      /\ calls \in Seq(Call) /\ fns \in Seq(Nat)
  BY ScriptIs DEF TypeOK, ContextType, Context, ThreadType, UserType, Threads, Running
<1>1. PlainContext /\ PlainEnd /\ PlainLists /\ PlainPairs
  BY DEF Answered
<1>2. /\ pc["poller"] = "loop" /\ ~freed /\ ac.ibuf # <<>>
      /\ UNCHANGED <<user, freed, fns, link, server>>
  BY Zenon DEF ProcessReply, At
<1>3. PollEffect
  BY PollEffects DEF Poll
<1>4. /\ pc'["user"] = pc["user"] /\ pc'["poller"] \notin {"nil", "unlocked", "disconnected"}
  BY <1>3 DEF PollEffect, Ending
<1>5. CASE crashed' = "assert" /\ UNCHANGED <<ac, cb, calls, pc, mtx>>
  <2>1. ListsKept /\ PlainPairs'
    BY <1>1, <1>2, <1>5 DEF ListsKept, PlainPairs, Due, Asked
  <2>2. /\ pc'["user"] # "nil" /\ (pc'["user"] # "idle" => ac.replies = <<>>)
        /\ (freed' => ac.replies = <<>>)
        /\ \A t \in Threads : pc'[t] \in {"unlocked", "disconnected"} => ac.replies = <<>>
    BY <1>1, <1>2, <1>5 DEF PlainEnd
  <2>3. pc'["poller"] \in {"callback", "nil"} <=> pc["poller"] \in {"callback", "nil"}
    BY <1>5
  <2>4. QED BY <1>1, <2>1, <2>2, <2>3, AnsweredQuiet
<1>6. CASE ~(crashed' = "assert" /\ UNCHANGED <<ac, cb, calls, pc, mtx>>)
  <2>1. /\ ~(ac.replies = <<>> /\ ac.flags \cap {"SUBSCRIBED", "MONITORING"} = {})
        /\ \/ x.cb.fn /\ CallUser("poller", x.ac, x.cb, r, "callback")
           \/ ~x.cb.fn /\ ac' = x.ac /\ UNCHANGED <<calls, pc, mtx, crashed>>
    BY <1>6, Zenon DEF ProcessReply
  <2>2. ac.replies # <<>>
    BY <1>1, <2>1 DEF PlainContext
  <2>3. /\ y \in Context /\ y.replies = ac.replies /\ r \in Got
        /\ y.invalid = ac.invalid /\ y.subs = ac.subs /\ y.flags = ac.flags
        /\ y.obuf = ac.obuf /\ y.ibuf = Tail(ac.ibuf)
    BY <1>0, <1>2, HeadTailProperties DEF Context
  <2>4. x = [cb |-> c, ac |-> [y EXCEPT !.replies = Tail(@)]]
    <3> HIDE DEF y, r, c
    <3>1. QED BY <2>2, <2>3 DEF CallbackFor, c
  <2> DEFINE z == [y EXCEPT !.replies = Tail(@)]
  <2>5. /\ z \in Context /\ z.replies = Tail(ac.replies) /\ z.ibuf = Tail(ac.ibuf) /\ z.obuf = ac.obuf
        /\ z.invalid = ac.invalid /\ z.subs = ac.subs /\ z.flags = ac.flags
    <3> HIDE DEF y
    <3>1. Tail(y.replies) \in Seq(Cb)
      BY <1>0, <2>2, <2>3, HeadTailProperties
    <3>2. QED BY <2>3, <3>1 DEF Context
  <2>6. x.cb = c /\ x.ac = z
    BY <2>4
  <2>7. c = ac.replies[1] /\ c \in Cb /\ Tail(ac.replies) \in Seq(Cb)
    BY <1>0, <2>2, HeadTailProperties
  <2> HIDE DEF x, y, z, c
  <2>8. Inside = {}
    BY <1>2 DEF Inside
  <2>9. /\ Listed(ac.replies, calls, fns, {}, accepted, next)
        /\ Paired(ac.replies, Due, Asked, server, link.state)
    BY <1>1, <1>2, <2>8 DEF PlainLists, PlainPairs, Ending
  <2>10. /\ r = Due[1] /\ Due # <<>> /\ Tail(ac.ibuf) \o link.toClient = Tail(Due)
         /\ Due \in Seq(Got) /\ Asked \in Seq(Sent)
    BY <1>2, DueAsked, DueHead DEF r
  <2>11. /\ Paired(Tail(ac.replies), Tail(Due), Asked, server, link.state)
         /\ r.id \in {0, c.id} /\ (r.kind = "status" => r.id = c.id)
    BY <1>0, <2>2, <2>7, <2>9, <2>10, PairedTake
  <2>12. ASSUME ac'.replies = Tail(ac.replies), ac'.ibuf = Tail(ac.ibuf), ac'.obuf = ac.obuf,
                ac'.invalid = ac.invalid, ac'.subs = ac.subs,
                \A f \in {"SUBSCRIBED", "MONITORING"} : f \in ac'.flags => f \in ac.flags
         PROVE  PlainContext' /\ PlainPairs'
    <3>1. PlainContext'
      BY <1>1, <2>12 DEF PlainContext
    <3>2. Due' = Tail(Due) /\ Asked' = Asked
      BY <1>2, <2>10, <2>12 DEF Due, Asked
    <3>3. PlainPairs'
      BY <1>2, <2>11, <2>12, <3>2 DEF PlainPairs
    <3>4. QED BY <3>1, <3>3
  <2>13. CASE ~c.fn
    <3>1. ac' = z /\ UNCHANGED <<calls, pc, mtx, crashed>>
      BY <2>1, <2>6, <2>13
    <3>2. Listed(Tail(ac.replies), calls, fns, {}, accepted, next)
      BY <1>0, <2>2, <2>7, <2>9, <2>13, ListedSkip
    <3>3. Inside' = {}
      BY <1>2, <3>1 DEF Inside
    <3>4. PlainLists'
      BY <1>2, <2>5, <3>1, <3>2, <3>3 DEF PlainLists, user
    <3>5. PlainEnd'
      BY <1>0, <1>1, <1>2, <2>2, <3>1 DEF PlainEnd
    <3>6. PlainContext' /\ PlainPairs'
      BY <2>5, <2>12, <3>1
    <3>7. QED BY <3>4, <3>5, <3>6 DEF Answered
  <2>14. CASE c.fn
    <3>1. fns # <<>>
      BY <1>0, <2>2, <2>7, <2>9, <2>14, ListedHead
    <3>2. /\ ac' = [z EXCEPT !.flags = @ \cup {"IN_CALLBACK"}]
          /\ calls' = Append(calls, [fn |-> Head(fns), priv |-> c.id, got |-> r])
          /\ Release("poller", "callback") /\ crashed' = crashed
      BY <2>1, <2>6, <2>14, <3>1, Zenon DEF CallUser
    <3>3. Listed(Tail(ac.replies), calls', fns, {c.id}, accepted, next)
      BY <1>0, <2>2, <2>3, <2>7, <2>9, <2>11, <2>14, <3>2, ListedCall
    <3>4. /\ calls' # <<>> /\ calls'[Len(calls')].priv = c.id
      <4>1. [fn |-> Head(fns), priv |-> c.id, got |-> r] \in Call
        BY <1>0, <2>3, <2>7, <3>1, HeadTailProperties DEF Call, Cb
      <4> DEFINE e == [fn |-> Head(fns), priv |-> c.id, got |-> r]
      <4>2. e \in Call /\ calls' = Append(calls, e) /\ e.priv = c.id
        BY <3>2, <4>1
      <4> HIDE DEF e
      <4>3. calls' # <<>> /\ calls'[Len(calls')] = e
        BY <1>0, <4>2, LastOf
      <4>4. QED BY <4>2, <4>3
    <3>5. pc'["poller"] = "callback"
      BY <1>0, <3>2 DEF Release
    <3>6. Inside' = {c.id}
      BY <3>4, <3>5 DEF Inside
    <3>7. /\ ac'.replies = Tail(ac.replies) /\ ac'.ibuf = Tail(ac.ibuf) /\ ac'.obuf = ac.obuf
          /\ ac'.invalid = ac.invalid /\ ac'.subs = ac.subs
          /\ \A f \in {"SUBSCRIBED", "MONITORING"} : f \in ac'.flags => f \in ac.flags
      BY <2>5, <3>2 DEF Context
    <3>8. PlainLists'
      BY <1>2, <3>3, <3>6, <3>7 DEF PlainLists, user
    <3>9. PlainEnd'
      BY <1>0, <1>1, <1>2, <1>4, <2>2, <3>2, <3>4, <3>5 DEF PlainEnd, Threads
    <3>10. PlainContext' /\ PlainPairs'
      BY <2>12, <3>7
    <3>11. QED BY <3>8, <3>9, <3>10 DEF Answered
  <2>15. QED BY <2>13, <2>14
<1>7. QED BY <1>5, <1>6

LEMMA AnsweredNetwork ==
  ASSUME TypeOK, Answered, Plain, Running, Network \/ ServerReads
  PROVE  Answered'
<1>0. /\ link \in Link /\ server \in Server /\ crashed = "no" /\ ac.replies \in Seq(Cb) /\ Len(ac.replies) \in Nat
  BY DueAsked DEF TypeOK, PeerType, Running
<1>1. PlainContext /\ PlainEnd /\ PlainLists /\ PlainPairs
  BY DEF Answered
<1>2. UNCHANGED <<user, fns, calls, ac, freed, pc, crashed>>
  BY Zenon DEF Network, ServerReads, Established, ServerTells, Breaks
<1>3. ListsKept
  BY <1>0, <1>2 DEF ListsKept
<1>4. ASSUME PlainPairs' PROVE Answered'
  <2>1. /\ pc'["user"] # "nil" /\ (pc'["user"] # "idle" => ac.replies = <<>>)
        /\ (freed' => ac.replies = <<>>)
        /\ \A t \in Threads : pc'[t] \in {"unlocked", "disconnected"} => ac.replies = <<>>
    BY <1>1, <1>2 DEF PlainEnd
  <2>2. pc'["poller"] \in {"callback", "nil"} <=> pc["poller"] \in {"callback", "nil"}
    BY <1>2
  <2>3. QED BY <1>1, <1>3, <1>4, <2>1, <2>2, AnsweredQuiet
<1>5. CASE freed \/ pc["poller"] \in Ending
  BY <1>2, <1>4, <1>5 DEF PlainPairs
<1>6. CASE ~freed /\ pc["poller"] \notin Ending
  <2>1. Paired(ac.replies, Due, Asked, server, link.state)
    BY <1>1, <1>6 DEF PlainPairs
  <2>2. ASSUME Paired(ac.replies, Due', Asked', server', link'.state) PROVE Answered'
    BY <1>2, <1>4, <2>2 DEF PlainPairs
  <2>3. CASE \E up \in BOOLEAN : Established(up)
    <3>1. /\ link.state = "connecting" /\ server' = server
          /\ \E s \in {"up", "refused"} : link' = [link EXCEPT !.state = s]
      BY <2>3, Zenon DEF Established
    <3>2. Due' = Due /\ Asked' = Asked
      BY <1>0, <1>2, <3>1 DEF Due, Asked, Link
    <3>3. Paired(ac.replies, Due, Asked, server, link'.state)
      BY <2>1, <3>1 DEF Paired
    <3>4. QED BY <2>2, <3>1, <3>2, <3>3
  <2>4. CASE ServerTells
    <3> DEFINE Plea == [kind : {"error", "garbage"}, id : {0}, topic : {""}, left : {0}]
    <3>1. /\ next = 1 /\ ~server.full
          /\ \E r \in Plea :
               /\ link' = ServerSends(r)
               /\ server' = [server EXCEPT !.news = @ + 1, !.full = r.kind \in {"error", "garbage"}]
      <4>1. server.topics = {} /\ ~server.feeds
        BY <2>1 DEF Paired
      <4>2. /\ ~server.full
            /\ \E r \in {[kind |-> "message", id |-> 0, topic |-> t, left |-> 0] : t \in server.topics}
              \cup (IF server.feeds
                    THEN {[kind |-> "status", id |-> 0, topic |-> "", left |-> 0]} ELSE {})
              \cup (IF next = 1
                    THEN {[kind |-> k, id |-> 0, topic |-> "", left |-> 0]
                            : k \in {"error", "garbage"}}
                    ELSE {}) :
               /\ link' = ServerSends(r)
               /\ server' = [server EXCEPT !.news = @ + 1, !.full = r.kind \in {"error", "garbage"}]
        BY <2>4, Zenon DEF ServerTells
      <4>3. {[kind |-> "message", id |-> 0, topic |-> t, left |-> 0] : t \in server.topics} = {}
        BY <4>1
      <4>4. ASSUME NEW k \in {"error", "garbage"}
            PROVE [kind |-> k, id |-> 0, topic |-> "", left |-> 0] \in Plea
        OBVIOUS
      <4> HIDE DEF Plea
      <4>5. QED BY <4>1, <4>2, <4>3, <4>4
    <3>2. PICK r \in Plea :
               /\ link' = ServerSends(r)
               /\ server' = [server EXCEPT !.news = @ + 1, !.full = r.kind \in {"error", "garbage"}]
      BY <3>1
    <3>3. /\ r.kind \in {"error", "garbage"} /\ r.id = 0 /\ r \in Got
      <4>1. r \in [kind : {"error", "garbage"}, id : {0}, topic : {""}, left : {0}]
        BY <3>2
      <4>2. r = [kind |-> r.kind, id |-> 0, topic |-> "", left |-> 0] /\ r.kind \in {"error", "garbage"}
        BY <4>1
      <4>3. [kind |-> r.kind, id |-> 0, topic |-> "", left |-> 0] \in Got
        BY <4>2 DEF Got, Topics
      <4>4. QED BY <4>2, <4>3
    <3> HIDE DEF Plea
    <3>4. /\ server'.topics = server.topics /\ server'.feeds = server.feeds /\ server'.full = TRUE
      <4>1. (r.kind \in {"error", "garbage"}) = TRUE
        BY <3>3
      <4>2. server' = [server EXCEPT !.news = @ + 1, !.full = TRUE]
        BY <3>2, <4>1, Zenon
      <4>3. QED BY <1>0, <4>2 DEF Server
    <3>5. Due = <<>> /\ Due \in Seq(Got)
      <4>1. Len(ac.replies) = 0
        <5>1. \A i \in 1 .. Len(ac.replies) : ac.replies[i].id \in 1 .. 1 - 1
          BY <1>1, <3>1 DEF PlainLists, Listed
        <5>2. 1 \notin 1 .. Len(ac.replies)
          BY <5>1
        <5>3. QED BY <1>0, <5>2
      <4>2. Len(Due) <= 0
        BY <2>1, <3>1, <4>1 DEF Paired
      <4>3. Due \in Seq(Got)
        BY DueAsked
      <4>4. Len(Due) \in Nat
        BY <4>3, LenProperties
      <4>5. Len(Due) = 0
        BY <4>2, <4>4
      <4>6. QED BY <4>3, <4>5, EmptySeq
    <3>6. Due' = Append(Due, r)
      <4>1. link'.toClient = Append(link.toClient, r)
        BY <1>0, <3>2 DEF ServerSends, Link
      <4>2. Due' = ac.ibuf \o Append(link.toClient, r)
        BY <1>2, <4>1 DEF Due
      <4>3. QED BY <3>3, <4>2, DueLast
    <3>7. Len(Due') = 1 /\ Due'[1] = r
      <4>1. Len(Due) = 0
        BY <3>5
      <4>2. /\ Len(Append(Due, r)) = Len(Due) + 1 /\ Append(Due, r)[Len(Append(Due, r))] = r
        BY <3>3, <3>5, LastOf
      <4>3. QED BY <3>6, <4>1, <4>2
    <3>8. Paired(ac.replies, Due', Asked', server', link'.state)
      <4>1. server'.topics = {} /\ ~server'.feeds /\ server'.full
        BY <2>1, <3>4 DEF Paired
      <4>2. \A i \in 1 .. Len(Due') : Due'[i].id = 0 /\ Due'[i].kind \in {"error", "garbage"}
        BY <3>3, <3>7
      <4>3. QED BY <4>1, <4>2 DEF Paired
    <3>9. QED BY <2>2, <3>8
  <2>5. CASE Breaks
    <3>1. /\ server' = server
          /\ \E lost \in BOOLEAN :
               link' = [state |-> "broken", toServer |-> <<>>,
                        toClient |-> IF lost THEN <<>> ELSE link.toClient]
      BY <2>5, Zenon DEF Breaks
    <3>2. link'.state = "broken" /\ (link'.toClient = <<>> \/ link'.toClient = link.toClient)
      BY <3>1
    <3>3. Due' = Due \/ Due' = ac.ibuf
      BY <1>2, <3>2, DueAsked, ConcatEmptySeq DEF Due
    <3>4. /\ Len(ac.ibuf) <= Len(Due) /\ \A i \in 1 .. Len(ac.ibuf) : i \in 1 .. Len(Due) /\ ac.ibuf[i] = Due[i]
      <4>1. Len(ac.ibuf) \in Nat /\ Len(link.toClient) \in Nat
        BY DueAsked, LenProperties
      <4>2. /\ Len(Due) = Len(ac.ibuf) + Len(link.toClient)
            /\ \A i \in 1 .. Len(ac.ibuf) + Len(link.toClient) :
                 Due[i] = IF i <= Len(ac.ibuf) THEN ac.ibuf[i] ELSE link.toClient[i - Len(ac.ibuf)]
        <5>1. ac.ibuf \in Seq(Got) /\ link.toClient \in Seq(Got)
          BY DueAsked
        <5>2. QED BY <5>1, ConcatProperties DEF Due
      <4> DEFINE n == Len(ac.ibuf)
                 m == Len(link.toClient)
      <4>3. /\ n \in Nat /\ m \in Nat /\ Len(Due) = n + m
            /\ \A i \in 1 .. n + m : i <= n => Due[i] = ac.ibuf[i]
        BY <4>1, <4>2
      <4> HIDE DEF n, m
      <4>4. n <= Len(Due) /\ \A i \in 1 .. n : i \in 1 .. Len(Due) /\ ac.ibuf[i] = Due[i]
        BY <4>3
      <4>5. QED BY <4>4 DEF n
    <3>5. Len(ac.ibuf) \in Nat /\ Len(Due) \in Nat
      BY DueAsked, LenProperties
    <3>6. Paired(ac.replies, Due', Asked', server, "broken")
      <4>1. CASE Due' = Due
        BY <2>1, <4>1 DEF Paired
      <4>2. CASE Due' = ac.ibuf
        <5>1. Len(Due) <= Len(ac.replies) => Len(ac.ibuf) <= Len(ac.replies)
          BY <1>0, <3>4, <3>5
        <5>2. QED BY <2>1, <3>4, <4>2, <5>1 DEF Paired
      <4>3. QED BY <3>3, <4>1, <4>2
    <3>7. QED BY <2>2, <3>1, <3>2, <3>6
  <2>6. CASE ServerReads
    <3> DEFINE c == Head(link.toServer)
    <3>1. /\ link.state = "up" /\ link.toServer # <<>> /\ ~server.full
          /\ link' = [ServerSends(Answer(c)) EXCEPT !.toServer = Tail(@)]
          /\ server' = [server EXCEPT
               !.topics = CASE c.kind = "subscribe" -> @ \cup {c.topic}
                            [] c.kind = "unsubscribe" -> @ \ {c.topic}
                            [] OTHER -> @,
               !.feeds = @ \/ c.kind = "monitor"]
      BY <2>6, Zenon DEF ServerReads
    <3>2. /\ c = Asked[1] /\ Asked # <<>> /\ Tail(link.toServer) \o ac.obuf = Tail(Asked)
          /\ Len(Asked) \in Nat \ {0}
      BY <3>1, AskedHead
    <3>3. c \in Sent
      BY <3>1, DueAsked, HeadTailProperties
    <3> HIDE DEF c
    <3>4. c.kind = "get"
      <4>1. 1 \in 1 .. Len(Asked)
        BY <3>2
      <4>2. QED BY <2>1, <3>1, <3>2, <4>1 DEF Paired
    <3>5. Answer(c) = [kind |-> "status", id |-> c.id, topic |-> c.topic, left |-> 0] /\ Answer(c) \in Got
      <4>1. server.topics = {}
        BY <2>1 DEF Paired
      <4>2. Answer(c) = [kind |-> "status", id |-> c.id, topic |-> c.topic, left |-> 0]
        BY <3>4, <4>1 DEF Answer, Reply
      <4>3. QED BY <3>3, <4>2, AnswerType DEF TypeOK
    <3>6. /\ link'.toClient = Append(link.toClient, Answer(c)) /\ link'.toServer = Tail(link.toServer)
          /\ link'.state = link.state
      BY <1>0, <3>1 DEF ServerSends, Link
    <3>7. Due' = Append(Due, Answer(c)) /\ Asked' = Tail(Asked)
      <4>1. Due' = ac.ibuf \o Append(link.toClient, Answer(c))
        BY <1>2, <3>6 DEF Due
      <4>2. Asked' = Tail(link.toServer) \o ac.obuf
        BY <1>2, <3>6 DEF Asked
      <4>3. QED BY <3>2, <3>5, <4>1, <4>2, DueLast
    <3>8. /\ server'.topics = server.topics /\ (server'.feeds <=> server.feeds) /\ (server'.full <=> server.full)
      BY <1>0, <3>1, <3>4 DEF Server
    <3>9. Paired(ac.replies, Due', Asked', server, link.state)
      <4>1. Answer(c).id = Asked[1].id /\ Answer(c).kind = "status"
        BY <3>2, <3>5
      <4>2. QED BY <2>1, <3>1, <3>2, <3>5, <3>7, <4>1, DueAsked, PairedReads
    <3>10. Paired(ac.replies, Due', Asked', server', link'.state)
      BY <3>6, <3>8, <3>9 DEF Paired
    <3>11. QED BY <2>2, <3>10
  <2>7. QED BY <2>3, <2>4, <2>5, <2>6 DEF Network
<1>7. QED BY <1>5, <1>6


LEMMA AnsweredBack ==
  ASSUME TypeOK, Locks, Phases, Answered, Plain, Running, NEW t \in Threads, CallbackReturn(t)
  PROVE  Answered'
<1>0. /\ ac \in Context /\ ac.replies \in Seq(Cb) /\ "poller" \in Threads /\ "user" \in Threads
      /\ pc \in [Threads -> Places] /\ crashed = "no" /\ next \in Nat
      /\ calls \in Seq(Call) /\ fns \in Seq(Nat) /\ (t = "poller" \/ t = "user")
  BY ScriptIs DEF TypeOK, ContextType, Context, ThreadType, UserType, Threads, Running
<1>1. PlainContext /\ PlainEnd /\ PlainLists /\ PlainPairs
  BY DEF Answered
<1>2. /\ pc[t] \in {"callback", "nil"} /\ ~freed
      /\ UNCHANGED <<user, freed, cb, link, server, calls>>
  BY Zenon DEF CallbackReturn, Back
<1>3. t = "poller"
  BY <1>0, <1>1, <1>2 DEF PlainEnd, Phases, Ending
<1>4. calls # <<>> /\ Inside = {calls[Len(calls)].priv}
  BY <1>1, <1>2, <1>3 DEF PlainEnd, Inside
<1>5. fns # <<>> /\ Listed(ac.replies, calls, Tail(fns), {}, accepted, next)
  <2>1. Listed(ac.replies, calls, fns, {calls[Len(calls)].priv}, accepted, next)
    BY <1>1, <1>4 DEF PlainLists
  <2>2. QED BY <1>0, <1>4, <2>1, ListedReturn
<1>6. /\ fns' = Tail(fns) /\ ac' = [ac EXCEPT !.flags = @ \ {"IN_CALLBACK"}]
      /\ Hold(t, IF pc[t] = "callback" THEN "loop" ELSE "free") /\ crashed' = crashed
  BY <1>5, Zenon DEF CallbackReturn
<1>7. /\ ac'.replies = ac.replies /\ ac'.invalid = ac.invalid /\ ac'.subs = ac.subs
      /\ ac'.ibuf = ac.ibuf /\ ac'.obuf = ac.obuf /\ ac'.flags \subseteq ac.flags
  BY <1>0, <1>6 DEF Context
<1>8. /\ pc'["poller"] \in {"loop", "free"} /\ pc'["user"] = pc["user"]
      /\ pc["poller"] = "nil" => pc'["poller"] = "free"
  BY <1>0, <1>2, <1>3, <1>6 DEF Hold, Threads
<1>9. PlainContext'
  BY <1>1, <1>7 DEF PlainContext
<1>10. PlainEnd'
  BY <1>0, <1>1, <1>2, <1>6, <1>7, <1>8 DEF PlainEnd, Threads
<1>11. PlainLists'
  <2>1. Inside' = {}
    BY <1>8 DEF Inside
  <2>2. QED BY <1>2, <1>5, <1>6, <1>7, <2>1 DEF PlainLists, user
<1>12. PlainPairs'
  <2>1. Due' = Due /\ Asked' = Asked
    BY <1>2, <1>7 DEF Due, Asked
  <2>2. CASE pc["poller"] = "nil"
    BY <1>8, <2>2 DEF PlainPairs, Ending
  <2>3. CASE pc["poller"] = "callback"
    <3>1. Paired(ac.replies, Due, Asked, server, link.state)
      BY <1>1, <1>2, <2>3 DEF PlainPairs, Ending
    <3>2. QED BY <1>2, <1>7, <2>1, <3>1 DEF PlainPairs
  <2>4. QED BY <1>2, <1>3, <2>2, <2>3
<1>13. QED BY <1>9, <1>10, <1>11, <1>12 DEF Answered

\* Plain commands have only callbacks in line.
LEMMA PendingPlain ==
  ASSUME PlainContext
  PROVE  /\ Pending(ac) = IF ac.replies = <<>> THEN {}
                          ELSE {[cb |-> Head(ac.replies), ac |-> [ac EXCEPT !.replies = Tail(@)]]}
<1>1. CASE ac.replies # <<>>
  BY <1>1 DEF Pending
<1>2. CASE ac.replies = <<>>
  <2>1. ac.invalid = <<>> /\ DOMAIN ac.subs = {}
    BY DEF PlainContext
  <2>2. Pending(ac) = {[cb |-> ac.subs[t], ac |-> [ac EXCEPT !.subs = Without(@, t)]]
                         : t \in DOMAIN ac.subs}
    BY <1>2, <2>1 DEF Pending
  <2>3. QED BY <1>2, <2>1, <2>2
<1>3. QED BY <1>1, <1>2

LEMMA AnsweredNil ==
  ASSUME TypeOK, Locks, Phases, Answered, Plain, Running, NEW t \in Threads, RunPending(t)
  PROVE  Answered'
<1> DEFINE c == Head(ac.replies)
           z == [ac EXCEPT !.replies = Tail(@)]
<1>0. /\ ac \in Context /\ ac.replies \in Seq(Cb) /\ "poller" \in Threads /\ "user" \in Threads
      /\ pc \in [Threads -> Places] /\ crashed = "no" /\ next \in Nat
      /\ calls \in Seq(Call) /\ fns \in Seq(Nat) /\ (t = "poller" \/ t = "user")
  BY ScriptIs DEF TypeOK, ContextType, Context, ThreadType, UserType, Threads, Running
<1>1. PlainContext /\ PlainEnd /\ PlainLists /\ PlainPairs
  BY DEF Answered
<1>2. /\ pc[t] = "free" /\ mtx = t /\ ~freed
      /\ UNCHANGED <<user, freed, fns, link, server>>
      /\ \E x \in Pending(ac) :
           \/ x.cb.fn /\ CallUser(t, x.ac, x.cb, Nil, "nil")
           \/ ~x.cb.fn /\ ac' = x.ac /\ UNCHANGED <<calls, pc, mtx, crashed>>
  BY Zenon DEF RunPending, At
<1>3. /\ ac.replies # <<>>
      /\ \/ c.fn /\ CallUser(t, z, c, Nil, "nil")
         \/ ~c.fn /\ ac' = z /\ UNCHANGED <<calls, pc, mtx, crashed>>
  <2>1. ac.replies # <<>> /\ Pending(ac) = {[cb |-> c, ac |-> z]}
    BY <1>1, <1>2, PendingPlain
  <2>2. [cb |-> c, ac |-> z].cb = c /\ [cb |-> c, ac |-> z].ac = z
    OBVIOUS
  <2> HIDE DEF c, z
  <2>3. QED BY <1>2, <2>1, <2>2
<1>4. t = "poller" /\ pc["user"] = "idle" /\ pc["poller"] = "free"
  BY <1>0, <1>1, <1>2, <1>3 DEF PlainEnd
<1>5. /\ c = ac.replies[1] /\ c \in Cb /\ Tail(ac.replies) \in Seq(Cb)
      /\ z.replies = Tail(ac.replies) /\ z.invalid = ac.invalid /\ z.subs = ac.subs
      /\ z.flags = ac.flags /\ z \in Context
  <2>1. c = ac.replies[1] /\ c \in Cb /\ Tail(ac.replies) \in Seq(Cb)
    BY <1>0, <1>3, HeadTailProperties
  <2>2. QED BY <1>0, <2>1 DEF Context
<1> HIDE DEF c, z
<1>6. Listed(ac.replies, calls, fns, {}, accepted, next)
  <2>1. Inside = {}
    BY <1>4 DEF Inside
  <2>2. QED BY <1>1, <2>1 DEF PlainLists
<1>7. ASSUME ac'.replies = Tail(ac.replies), ac'.invalid = ac.invalid, ac'.subs = ac.subs,
             \A f \in {"SUBSCRIBED", "MONITORING"} : f \in ac'.flags => f \in ac.flags,
             pc'["poller"] \in Ending
      PROVE  PlainContext' /\ PlainPairs'
  <2>1. PlainContext'
    BY <1>1, <1>7 DEF PlainContext
  <2>2. PlainPairs'
    BY <1>7 DEF PlainPairs
  <2>3. QED BY <2>1, <2>2
<1>8. CASE ~c.fn
  <2>1. ac' = z /\ UNCHANGED <<calls, pc, mtx, crashed>>
    BY <1>3, <1>8
  <2>2. Listed(Tail(ac.replies), calls, fns, {}, accepted, next)
    BY <1>0, <1>3, <1>5, <1>6, <1>8, ListedSkip
  <2>3. Inside' = {}
    BY <1>4, <2>1 DEF Inside
  <2>4. PlainLists'
    BY <1>2, <1>5, <2>1, <2>2, <2>3 DEF PlainLists, user
  <2>5. PlainEnd'
    BY <1>0, <1>2, <1>4, <2>1 DEF PlainEnd, Threads
  <2>6. PlainContext' /\ PlainPairs'
    BY <1>4, <1>5, <1>7, <2>1 DEF Ending
  <2>7. QED BY <2>4, <2>5, <2>6 DEF Answered
<1>9. CASE c.fn
  <2> DEFINE e == [fn |-> Head(fns), priv |-> c.id, got |-> Nil]
  <2>1. fns # <<>>
    BY <1>0, <1>3, <1>5, <1>6, <1>9, ListedHead
  <2>2. /\ ac' = [z EXCEPT !.flags = @ \cup {"IN_CALLBACK"}]
        /\ calls' = Append(calls, e)
        /\ Release(t, "nil") /\ crashed' = crashed
    BY <1>3, <1>9, <2>1, Zenon DEF CallUser
  <2>3. Nil \in Got /\ Nil.id = 0 /\ Nil.kind = "nil"
    BY DEF Nil, Got, Topics
  <2>4. Nil.id \in {0, ac.replies[1].id} /\ (Nil.kind = "status" => Nil.id = ac.replies[1].id)
    BY <2>3
  <2>5. Listed(Tail(ac.replies), calls', fns, {c.id}, accepted, next)
    BY <1>0, <1>3, <1>5, <1>6, <1>9, <2>2, <2>3, <2>4, ListedCall
  <2>6. calls' # <<>> /\ calls'[Len(calls')].priv = c.id
    <3>1. e \in Call /\ e.priv = c.id
      BY <1>0, <1>5, <2>1, <2>3, HeadTailProperties DEF Call, Cb
    <3> HIDE DEF e
    <3>2. calls' # <<>> /\ calls'[Len(calls')] = e
      BY <1>0, <2>2, <3>1, LastOf
    <3>3. QED BY <3>1, <3>2
  <2>7. pc'["poller"] = "nil" /\ pc'["user"] = "idle"
    BY <1>0, <1>4, <2>2 DEF Release
  <2>8. Inside' = {c.id}
    BY <2>6, <2>7 DEF Inside
  <2>9. /\ ac'.replies = Tail(ac.replies) /\ ac'.invalid = ac.invalid /\ ac'.subs = ac.subs
        /\ \A f \in {"SUBSCRIBED", "MONITORING"} : f \in ac'.flags => f \in ac.flags
    BY <1>5, <2>2 DEF Context
  <2>10. PlainLists'
    BY <1>2, <2>5, <2>8, <2>9 DEF PlainLists, user
  <2>11. PlainEnd'
    BY <1>0, <1>2, <2>2, <2>6, <2>7 DEF PlainEnd, Threads
  <2>12. PlainContext' /\ PlainPairs'
    BY <1>7, <2>7, <2>9 DEF Ending
  <2>13. QED BY <2>10, <2>11, <2>12 DEF Answered
<1>10. QED BY <1>8, <1>9

LEMMA AnsweredEnds ==
  ASSUME TypeOK, Locks, Phases, Answered, Plain, Running, NEW t \in Threads,
         Cleanup(t) \/ DisconnectCallback(t) \/ DisconnectReturn(t) \/ Fault(t)
  PROVE  Answered'
<1>0. /\ ThreadType /\ pc \in [Threads -> Places] /\ crashed = "no"
      /\ "poller" \in Threads /\ "user" \in Threads /\ (t = "poller" \/ t = "user")
  BY DEF TypeOK, ThreadType, Threads, Running
<1>1. PlainContext /\ PlainEnd /\ PlainLists /\ PlainPairs
  BY DEF Answered
<1>2. /\ UNCHANGED <<user, ac, fns, link, server, calls>>
      /\ crashed' = crashed \/ crashed' = "freed"
  BY Zenon DEF Cleanup, DisconnectCallback, DisconnectReturn, Fault
<1>3. ListsKept
  BY <1>0, <1>2 DEF ListsKept
<1>4. /\ ac.replies = <<>> \/ (pc' = pc /\ freed' = freed)
      /\ \/ pc' = pc /\ freed' = freed
         \/ /\ pc[t] \notin {"callback", "nil"} /\ pc'[t] \in {"idle", "write", "unlocked", "disconnected"}
            /\ pc[t] \in Ending /\ (t = "user" => pc'[t] # "nil")
            /\ \A u \in Threads : u # t => pc'[u] = pc[u]
            /\ freed' \/ (freed' = freed /\ pc'[t] \in {"unlocked", "disconnected"})
  <2>1. CASE Cleanup(t)
    <3>1. /\ pc[t] = "free" /\ mtx = t /\ Pending(ac) = {} /\ ~freed
          /\ \/ Release(t, "unlocked") /\ freed' = freed
             \/ freed' /\ Leave(t)
      BY <2>1, Zenon DEF Cleanup, At
    <3>2. ac.replies = <<>>
      BY <1>1, <3>1, PendingPlain
    <3>3. CASE Release(t, "unlocked") /\ freed' = freed
      BY <1>0, <3>1, <3>2, <3>3 DEF Release, Ending
    <3>4. CASE freed' /\ Leave(t)
      BY <1>0, <3>1, <3>2, <3>4, LeaveMoves DEF Ending
    <3>5. QED BY <3>1, <3>3, <3>4
  <2>2. CASE DisconnectCallback(t)
    <3>1. /\ pc[t] = "unlocked" /\ pc' = [pc EXCEPT ![t] = "disconnected"] /\ freed' = freed
      BY <2>2, Zenon DEF DisconnectCallback
    <3>2. ac.replies = <<>>
      BY <1>1, <3>1 DEF PlainEnd
    <3>3. QED BY <1>0, <3>1, <3>2 DEF Ending
  <2>3. CASE DisconnectReturn(t)
    <3>1. /\ pc[t] = "disconnected" /\ mtx = "free" /\ freed' /\ Leave(t)
      BY <2>3, Zenon DEF DisconnectReturn, Back
    <3>2. ac.replies = <<>>
      BY <1>1, <3>1 DEF PlainEnd
    <3>3. QED BY <1>0, <3>1, <3>2, LeaveMoves DEF Ending
  <2>4. CASE Fault(t)
    <3>1. pc' = pc /\ freed' = freed
      BY <2>4, Zenon DEF Fault
    <3>2. QED BY <3>1
  <2>5. QED BY <2>1, <2>2, <2>3, <2>4
<1>5. /\ pc'["poller"] \in {"callback", "nil"} <=> pc["poller"] \in {"callback", "nil"}
      /\ pc'["user"] # "nil" /\ (pc'["user"] # "idle" => ac.replies = <<>>)
      /\ \A u \in Threads : pc'[u] \in {"unlocked", "disconnected"} => ac.replies = <<>>
      /\ freed' => ac.replies = <<>>
  <2>1. CASE pc' = pc /\ freed' = freed
    BY <1>1, <2>1 DEF PlainEnd
  <2>2. CASE t = "poller" /\ ~(pc' = pc /\ freed' = freed)
    BY <1>0, <1>1, <1>4, <2>2 DEF PlainEnd
  <2>3. CASE t = "user" /\ ~(pc' = pc /\ freed' = freed)
    BY <1>0, <1>1, <1>4, <2>3 DEF PlainEnd
  <2>4. QED BY <1>0, <2>1, <2>2, <2>3
<1>6. PlainPairs'
  <2>1. Due' = Due /\ Asked' = Asked
    BY <1>2 DEF Due, Asked
  <2>2. freed' \/ pc'["poller"] \in Ending \/ (freed' = freed /\ pc'["poller"] = pc["poller"])
    BY <1>0, <1>4 DEF Ending
  <2>3. QED BY <1>1, <1>2, <2>1, <2>2 DEF PlainPairs
<1>7. QED BY <1>1, <1>3, <1>5, <1>6, AnsweredQuiet


LEMMA ListedMore ==
  ASSUME NEW list \in Seq(Cb), NEW done \in Seq(Call), NEW funs, NEW inside, NEW all,
         NEW n \in Nat, Listed(list, done, funs, inside, all, n)
  PROVE  Listed(list, done, funs, inside, all, n + 1)
<1>1. \A i \in 1 .. Len(list) : list[i].id \in 1 .. n + 1 - 1
  BY DEF Listed
<1>2. \A i \in 1 .. Len(done) : done[i].priv \in Nat
  <2>1. \A i \in 1 .. Len(done) : done[i] \in Call
    BY ElementOfSeq
  <2>2. QED BY <2>1 DEF Call
<1>3. \A i \in 1 .. Len(done) : done[i].priv < n + 1
  BY <1>2 DEF Listed
<1>4. QED BY <1>1, <1>3 DEF Listed

LEMMA AnsweredCommand ==
  ASSUME TypeOK, Locks, Phases, Answered, Plain, Running, redisAsyncCommand
  PROVE  Answered'
<1> DEFINE c == script[next]
           q == [kind |-> c.kind, topic |-> c.topic, id |-> next]
           x == PutCallback(ac, c, next)
<1>0. /\ ac \in Context /\ ac.replies \in Seq(Cb) /\ ac.obuf \in Seq(Sent)
      /\ crashed = "no" /\ next \in Nat \ {0} /\ next \in Nat
      /\ calls \in Seq(Call) /\ fns \in Seq(Nat)
  BY ScriptIs DEF TypeOK, ContextType, Context, UserType, Running
<1>1. PlainContext /\ PlainEnd /\ PlainLists /\ PlainPairs
  BY DEF Answered
<1>2. /\ pc["user"] = "idle" /\ next <= Len(script) /\ next' = next + 1
      /\ UNCHANGED <<script, freed, pc, link, server, calls>>
  BY Zenon DEF redisAsyncCommand, MayCall
<1>3. \/ UNCHANGED <<ac, fns, accepted>> /\ (crashed' = crashed \/ crashed' = "freed")
      \/ /\ ~closed /\ ~freed /\ "DISCONNECTING" \notin ac.flags
         /\ ac' = [x EXCEPT !.obuf = Append(@, q)]
         /\ fns' = IF c.fn THEN Append(fns, next) ELSE fns
         /\ accepted' = IF c.fn THEN accepted \cup {next} ELSE accepted
         /\ crashed' = crashed
  BY Zenon DEF redisAsyncCommand
<1>4. Inside' = Inside
  BY <1>2 DEF Inside
<1>5. CASE UNCHANGED <<ac, fns, accepted>> /\ (crashed' = crashed \/ crashed' = "freed")
  <2>1. PlainContext'
    BY <1>1, <1>5 DEF PlainContext
  <2>2. PlainEnd'
    BY <1>0, <1>1, <1>2, <1>5 DEF PlainEnd
  <2>3. PlainLists'
    <3>1. Listed(ac.replies, calls, fns, Inside, accepted, next + 1)
      BY <1>0, <1>1, ListedMore DEF PlainLists
    <3>2. QED BY <1>2, <1>4, <1>5, <3>1 DEF PlainLists
  <2>4. PlainPairs'
    <3>1. Due' = Due /\ Asked' = Asked
      BY <1>2, <1>5 DEF Due, Asked
    <3>2. QED BY <1>1, <1>2, <1>5, <3>1 DEF PlainPairs
  <2>5. QED BY <2>1, <2>2, <2>3, <2>4 DEF Answered
<1>6. CASE /\ ~closed /\ ~freed /\ "DISCONNECTING" \notin ac.flags
           /\ ac' = [x EXCEPT !.obuf = Append(@, q)]
           /\ fns' = IF c.fn THEN Append(fns, next) ELSE fns
           /\ accepted' = IF c.fn THEN accepted \cup {next} ELSE accepted
           /\ crashed' = crashed
  <2> DEFINE new == [id |-> next, fn |-> c.fn]
  <2>1. next \in 1 .. Len(script) /\ next \in DOMAIN script
    BY <1>0, <1>2, ScriptIs DEF TypeOK
  <2>2. c.kind = "get" /\ c.fn \in BOOLEAN /\ c.topic \in Topics /\ c.kind \in Kinds
    BY <2>1, ScriptIs DEF TypeOK, Plain
  <2>3. x = [ac EXCEPT !.replies = Append(@, new)]
    <3> HIDE DEF c
    <3>1. QED BY <1>1, <2>2 DEF PutCallback, PlainContext
  <2>4. new \in Cb /\ q \in Sent /\ q.id = new.id /\ q.kind = "get"
    BY <1>0, <2>2 DEF Cb, Sent
  <2> HIDE DEF x, q, new, c
  <2>5. /\ ac'.replies = Append(ac.replies, new) /\ ac'.invalid = ac.invalid /\ ac'.subs = ac.subs
        /\ ac'.obuf = Append(ac.obuf, q) /\ ac'.ibuf = ac.ibuf /\ ac'.flags = ac.flags
    BY <1>0, <1>6, <2>3 DEF Context
  <2>6. PlainContext'
    BY <1>1, <2>5 DEF PlainContext
  <2>7. \A t \in Threads : pc[t] \notin Ending
    BY <1>6 DEF Phases
  <2>8. PlainEnd'
    <3>1. pc'["user"] # "nil" /\ pc'["user"] = "idle"
      BY <1>2
    <3>2. \A t \in Threads : pc'[t] \notin {"unlocked", "disconnected"}
      BY <1>2, <2>7 DEF Ending
    <3>3. QED BY <1>0, <1>1, <1>2, <1>6, <3>1, <3>2 DEF PlainEnd
  <2>9. PlainLists'
    <3>1. \A y \in Inside : y < next
      <4>1. ASSUME calls # <<>> PROVE Len(calls) \in 1 .. Len(calls)
        BY <1>0, <4>1, EmptySeq
      <4>2. QED BY <1>1, <4>1 DEF Inside, PlainEnd, PlainLists, Listed
    <3>2. Listed(ac.replies, calls, fns, Inside, accepted, next)
      BY <1>1 DEF PlainLists
    <3>3. Listed(Append(ac.replies, [id |-> next, fn |-> c.fn]), calls,
                 IF c.fn THEN Append(fns, next) ELSE fns, Inside,
                 IF c.fn THEN accepted \cup {next} ELSE accepted, next + 1)
      BY <1>0, <2>2, <3>1, <3>2, ListedSend
    <3>4. QED BY <1>2, <1>4, <1>6, <2>5, <3>3 DEF PlainLists, new
  <2>10. PlainPairs'
    <3>1. Due' = Due
      BY <1>2, <2>5 DEF Due
    <3>2. Asked' = Append(Asked, q)
      <4>1. \A a, b \in Seq(Sent) : a \o Append(b, q) = Append(a \o b, q)
        BY <2>4, AppendToBoth
      <4>2. link.toServer \in Seq(Sent) /\ ac.obuf \in Seq(Sent)
        BY DueAsked
      <4>3. link.toServer \o Append(ac.obuf, q) = Append(link.toServer \o ac.obuf, q)
        BY <4>1, <4>2, Zenon
      <4>4. QED BY <1>2, <2>5, <4>3 DEF Asked
    <3>3. Paired(ac.replies, Due, Asked, server, link.state)
      BY <1>1, <1>6, <2>7 DEF PlainPairs, Threads
    <3>4. Due \in Seq(Got) /\ Asked \in Seq(Sent)
      BY DueAsked
    <3>5. Paired(Append(ac.replies, new), Due, Append(Asked, q), server, link.state)
      BY <1>0, <2>4, <3>3, <3>4, PairedSend
    <3>6. QED BY <1>2, <2>5, <3>1, <3>2, <3>5 DEF PlainPairs
  <2>11. QED BY <2>6, <2>8, <2>9, <2>10 DEF Answered
<1>7. QED BY <1>3, <1>5, <1>6

LEMMA AnsweredClose ==
  ASSUME TypeOK, Locks, Phases, Answered, Plain, Running, Close
  PROVE  Answered'
<1>0. /\ ac \in Context /\ crashed = "no" /\ "poller" \in Threads /\ "user" \in Threads
      /\ pc \in [Threads -> Places]
  BY DEF TypeOK, ContextType, ThreadType, Threads, Running
<1>1. PlainContext /\ PlainEnd /\ PlainLists /\ PlainPairs
  BY DEF Answered
<1>2. /\ UNCHANGED <<user, freed, fns, link, server, calls>> /\ pc["user"] = "idle"
      /\ \/ UNCHANGED <<ac, pc>> /\ crashed' = "freed"
         \/ /\ ac' = [ac EXCEPT !.flags = @ \cup {"DISCONNECTING"}] /\ crashed' = crashed
            /\ \/ DisconnectsNow /\ Hold("user", "free")
               \/ pc' = pc
  BY Zenon DEF Close, MayCall
<1>3. /\ ac'.replies = ac.replies /\ ac'.invalid = ac.invalid /\ ac'.subs = ac.subs
      /\ ac'.ibuf = ac.ibuf /\ ac'.obuf = ac.obuf
      /\ ac'.flags = ac.flags \/ ac'.flags = ac.flags \cup {"DISCONNECTING"}
      /\ crashed' # "empty"
  BY <1>0, <1>2 DEF Context
<1>4. ListsKept
  BY <1>2, <1>3 DEF ListsKept, PubSub
<1>5. pc' = pc \/ (ac.replies = <<>> /\ pc' = [pc EXCEPT !["user"] = "free"])
  BY <1>2 DEF DisconnectsNow, Hold
<1>6. pc'["poller"] = pc["poller"]
  BY <1>0, <1>5
<1>7. /\ pc'["user"] # "nil" /\ (pc'["user"] # "idle" => ac.replies = <<>>)
      /\ (freed' => ac.replies = <<>>)
      /\ \A t \in Threads : pc'[t] \in {"unlocked", "disconnected"} => ac.replies = <<>>
  <2>1. freed' => ac.replies = <<>>
    BY <1>1, <1>2 DEF PlainEnd
  <2>2. QED BY <1>0, <1>1, <1>5, <2>1 DEF PlainEnd
<1>8. PlainPairs'
  <2>1. Due' = Due /\ Asked' = Asked
    BY <1>2, <1>3 DEF Due, Asked
  <2>2. QED BY <1>1, <1>2, <1>3, <1>6, <2>1 DEF PlainPairs
<1>9. QED BY <1>1, <1>4, <1>6, <1>7, <1>8, AnsweredQuiet

\* The user's commands are settled beforehand.
LEMMA ScriptStays == [Next]_vars => script' = script
<1> SUFFICES ASSUME [Next]_vars PROVE script' = script
  OBVIOUS
<1>1. CASE UNCHANGED vars
  BY <1>1 DEF vars
<1>2. CASE Poll
  <2>1. UNCHANGED user
    BY <1>2, Zenon DEF Poll, EpollWait, OnActive, HandleConnect, ConnectReturn, RefusedReturn,
                       HandleRead, HandleWrite, NoMoreReplies, BadReply, ProcessReply
  <2>2. QED BY <2>1 DEF user
<1>3. CASE \E t \in Threads : Both(t)
  <2>1. UNCHANGED user
    BY <1>3, Zenon DEF Both, CallbackReturn, RunPending, Cleanup, DisconnectCallback,
                       DisconnectReturn, Fault
  <2>2. QED BY <2>1 DEF user
<1>4. CASE User
  <2>1. UNCHANGED script \/ UNCHANGED user
    BY <1>4, Zenon DEF User, redisAsyncCommand, Close
  <2>2. QED BY <2>1 DEF user
<1>5. CASE Network \/ ServerReads
  <2>1. UNCHANGED user
    BY <1>5, Zenon DEF Network, ServerReads, Established, ServerTells, Breaks
  <2>2. QED BY <2>1 DEF user
<1>6. QED BY <1>1, <1>2, <1>3, <1>4, <1>5 DEF Next

LEMMA AnsweredStep == TypeOK /\ Locks /\ Phases /\ Answered /\ [Next]_vars => Answered'
<1> SUFFICES ASSUME TypeOK, Locks, Phases, Answered, [Next]_vars PROVE Answered'
  OBVIOUS
<1>1. CASE ~Plain
  <2>1. ~Plain'
    BY <1>1, ScriptStays DEF Plain
  <2>2. QED BY <2>1 DEF Answered
<1>2. CASE Plain /\ UNCHANGED vars
  <2>1. PlainContext /\ PlainEnd /\ PlainLists /\ PlainPairs
    BY <1>2 DEF Answered
  <2>2. PlainContext' /\ PlainEnd'
    BY <1>2, <2>1 DEF vars, PlainContext, PlainEnd
  <2>3. Inside' = Inside /\ Due' = Due /\ Asked' = Asked
    BY <1>2 DEF vars, Inside, Due, Asked
  <2>4. PlainLists' /\ PlainPairs'
    BY <1>2, <2>1, <2>3 DEF vars, PlainLists, PlainPairs
  <2>5. QED BY <2>2, <2>4 DEF Answered
<1>3. CASE Plain /\ Running /\ Poll
  BY <1>3, AnsweredPoll, AnsweredReply
<1>4. ASSUME Plain, Running, NEW t \in Threads, Both(t) PROVE Answered'
  BY <1>4, AnsweredBack, AnsweredNil, AnsweredEnds, Zenon DEF Both
<1>5. CASE Plain /\ Running /\ User
  BY <1>5, AnsweredCommand, AnsweredClose DEF User
<1>6. CASE Plain /\ Running /\ (Network \/ ServerReads)
  BY <1>6, AnsweredNetwork
<1>7. QED BY <1>1, <1>2, <1>3, <1>4, <1>5, <1>6 DEF Next

LEMMA AnsweredMatches == TypeOK /\ Answered => RepliesMatch
<1> SUFFICES ASSUME TypeOK, Plain, PlainEnd, PlainLists
             PROVE  /\ \A i \in DOMAIN calls :
                         /\ calls[i].fn = calls[i].priv /\ calls[i].got.id \in {0, calls[i].priv}
                         /\ calls[i].got.kind = "status" => calls[i].got.id = calls[i].priv
                         /\ i > 1 => calls[i - 1].priv < calls[i].priv
                    /\ freed => {calls[i].priv : i \in DOMAIN calls} = accepted
  BY DEF Answered, RepliesMatch
<1>1. DOMAIN calls = 1 .. Len(calls) /\ Len(calls) \in Nat
  BY LenProperties DEF TypeOK, UserType
<1>2. ASSUME NEW i \in 1 .. Len(calls), i > 1 PROVE calls[i - 1].priv < calls[i].priv
  <2>1. i - 1 \in 1 .. Len(calls) /\ i - 1 < i
    BY <1>1, <1>2
  <2>2. QED BY <2>1 DEF PlainLists, Listed
<1>3. ASSUME freed PROVE {calls[i].priv : i \in DOMAIN calls} = accepted
  <2>1. ac.replies = <<>>
    BY <1>3 DEF PlainEnd
  <2>2. Ids(<<>>) = {}
    <3>1. Len(<<>>) = 0
      OBVIOUS
    <3>2. QED BY <3>1 DEF Ids
  <2>3. accepted = Privs(calls)
    BY <2>1, <2>2 DEF PlainLists, Listed
  <2>4. QED BY <1>1, <2>3 DEF Privs
<1>4. QED BY <1>1, <1>2, <1>3 DEF PlainLists, Listed

\* The functions of plain commands are called in the order of the commands, each once,
\* with the reply of its own command or with none, and all of them before the context
\* is freed: the two lists that the code keeps apart, redisFns and replies, agree
\* (RedisCli.cpp, redisProcessCallbacks, __redisAsyncFree).
THEOREM RepliesMatchTheirCommands == Spec => []RepliesMatch
<1>1. Spec => [](TypeOK /\ Locks /\ Phases /\ Answered)
  BY TypeInit, TypeStep, PhasesInit, PhasesStep, AnsweredInit, AnsweredStep, PTL DEF Spec
<1>2. QED BY <1>1, AnsweredMatches, PTL DEF Spec


-----------------------------------------------------------------------------
(* All commands: when the assertion of redisProcessCallbacks holds.            *)

\* Nothing is sent after an unsubscribe.
Calm == \A i \in 1 .. next - 2 : script[i].kind # "unsubscribe"

\* What is asked are commands of the user; what is confirmed, too.
Traced(due, asked, n, srv, flags) ==
  /\ \A j \in 1 .. Len(asked) :
       asked[j].id \in 1 .. n - 1 /\ script[asked[j].id].kind = asked[j].kind
  /\ \A j \in 1 .. Len(due) : due[j].kind = "unsubscribe" =>
       due[j].id \in 1 .. n - 1 /\ script[due[j].id].kind = "unsubscribe"
  /\ (srv.feeds \/ \E j \in 1 .. Len(asked) : asked[j].kind = "monitor") => "MONITORING" \in flags

\* Not subscribed, there are as many callbacks in line as replies due; subscribed, the
\* last topic is left by the last command only.
Confirmed(list, due, asked, srv, state, flags) ==
  /\ \A j \in 1 .. Len(asked) : asked[j].kind = "unsubscribe" => j = Len(asked)
  /\ "SUBSCRIBED" \notin flags =>
       /\ srv.topics = {} /\ \A j \in 1 .. Len(asked) : asked[j].kind = "get"
       /\ srv.full => \A i \in 1 .. Len(due) : due[i].kind \in {"error", "garbage"}
       /\ ~srv.full => Len(due) <= Len(list)
       /\ ~srv.full /\ state # "broken" => Len(due) + Len(asked) <= Len(list)
  /\ "SUBSCRIBED" \in flags =>
       \A p \in 1 .. Len(due) : due[p].kind = "unsubscribe" /\ due[p].left = 0 =>
         p = Len(due) /\ asked = <<>> /\ srv.topics = {}

\* What is left of a list, and a list with one more.
LEMMA TailOf ==
  ASSUME NEW S, NEW f \in Seq(S), f # <<>>
  PROVE  /\ Tail(f) \in Seq(S) /\ Len(f) \in Nat /\ Len(f) >= 1 /\ Len(Tail(f)) = Len(f) - 1
         /\ \A i \in 1 .. Len(Tail(f)) : i + 1 \in 1 .. Len(f) /\ Tail(f)[i] = f[i + 1]
         /\ Head(f) = f[1] /\ f[1] \in S
<1>1. /\ Tail(f) \in Seq(S) /\ Len(f) \in Nat /\ Len(f) >= 1 /\ Len(Tail(f)) = Len(f) - 1
      /\ \A i \in 1 .. Len(Tail(f)) : Tail(f)[i] = f[i + 1]
      /\ Head(f) = f[1] /\ Head(f) \in S
  BY HeadTailProperties, EmptySeq
<1>2. QED BY <1>1

LEMMA OneMore ==
  ASSUME NEW S, NEW f \in Seq(S), NEW e \in S
  PROVE  \A i \in 1 .. Len(Append(f, e)) :
           \/ i = Len(f) + 1 /\ Append(f, e)[i] = e
           \/ i \in 1 .. Len(f) /\ Append(f, e)[i] = f[i]
<1> DEFINE g == Append(f, e)
<1>1. /\ Len(f) \in Nat /\ Len(g) = Len(f) + 1 /\ g[Len(g)] = e
      /\ \A i \in 1 .. Len(f) : g[i] = f[i]
  BY LastOf
<1> HIDE DEF g
<1>2. \A i \in 1 .. Len(g) : \/ i = Len(f) + 1 /\ g[i] = e
                             \/ i \in 1 .. Len(f) /\ g[i] = f[i]
  BY <1>1
<1>3. QED BY <1>2 DEF g

LEMMA ConfirmedReads ==
  ASSUME NEW list \in Seq(Cb), NEW due \in Seq(Got), NEW asked \in Seq(Sent), NEW srv, NEW state,
         NEW flags, Confirmed(list, due, asked, srv, state, flags), ~srv.full, state # "broken",
         asked # <<>>, NEW srv2, ~srv2.full, NEW r \in Got,
         asked[1].kind = "get" /\ srv.topics = {} => srv2.topics = {},
         r.kind = "unsubscribe" => asked[1].kind = "unsubscribe",
         r.kind = "unsubscribe" /\ r.left = 0 => srv2.topics = {}
  PROVE  Confirmed(list, Append(due, r), Tail(asked), srv2, state, flags)
<1> DEFINE d == Append(due, r)
           a == Tail(asked)
<1>1. /\ a \in Seq(Sent) /\ Len(asked) \in Nat /\ Len(asked) >= 1 /\ Len(a) = Len(asked) - 1
      /\ \A i \in 1 .. Len(a) : i + 1 \in 1 .. Len(asked) /\ a[i] = asked[i + 1]
  BY TailOf
<1>2. /\ Len(due) \in Nat /\ Len(d) = Len(due) + 1 /\ Len(list) \in Nat
      /\ \A i \in 1 .. Len(d) : \/ i = Len(due) + 1 /\ d[i] = r
                                \/ i \in 1 .. Len(due) /\ d[i] = due[i]
  BY LastOf, OneMore, LenProperties
<1> HIDE DEF d, a
<1>3. \A j \in 1 .. Len(a) : a[j].kind = "unsubscribe" => j = Len(a)
  <2>1. ASSUME NEW j \in 1 .. Len(a), a[j].kind = "unsubscribe" PROVE j = Len(a)
    <3>1. j + 1 = Len(asked)
      BY <1>1, <2>1 DEF Confirmed
    <3>2. QED BY <1>1, <3>1
  <2>2. QED BY <2>1
<1>4. ASSUME "SUBSCRIBED" \notin flags
      PROVE  /\ srv2.topics = {} /\ \A j \in 1 .. Len(a) : a[j].kind = "get"
             /\ Len(d) <= Len(list) /\ Len(d) + Len(a) <= Len(list)
  <2>1. /\ srv.topics = {} /\ \A j \in 1 .. Len(asked) : asked[j].kind = "get"
        /\ Len(due) + Len(asked) <= Len(list)
    BY <1>4 DEF Confirmed
  <2>2. asked[1].kind = "get"
    BY <1>1, <2>1
  <2>3. \A j \in 1 .. Len(a) : a[j].kind = "get"
    BY <1>1, <2>1
  <2>4. Len(d) <= Len(list) /\ Len(d) + Len(a) <= Len(list)
    BY <1>1, <1>2, <2>1
  <2>5. QED BY <2>1, <2>2, <2>3, <2>4
<1>5. ASSUME "SUBSCRIBED" \in flags, NEW p \in 1 .. Len(d), d[p].kind = "unsubscribe", d[p].left = 0
      PROVE  p = Len(d) /\ a = <<>> /\ srv2.topics = {}
  <2>1. CASE p \in 1 .. Len(due) /\ d[p] = due[p]
    <3>1. asked = <<>>
      BY <1>5, <2>1 DEF Confirmed
    <3>2. QED BY <3>1
  <2>2. CASE p = Len(due) + 1 /\ d[p] = r
    <3>1. asked[1].kind = "unsubscribe" /\ srv2.topics = {}
      BY <1>5, <2>2
    <3>2. 1 = Len(asked)
      BY <1>1, <3>1 DEF Confirmed
    <3>3. Len(a) = 0
      BY <1>1, <3>2
    <3>4. QED BY <1>1, <1>2, <2>2, <3>1, <3>3, EmptySeq
  <2>3. QED BY <1>2, <2>1, <2>2
<1>6. Confirmed(list, d, a, srv2, state, flags)
  BY <1>3, <1>4, <1>5 DEF Confirmed
<1>7. QED BY <1>6 DEF d, a

\* A reply is processed: its callback is in line, or that of a topic, and with the last
\* topic the context is not subscribed any more.
LEMMA ConfirmedTake ==
  ASSUME NEW list \in Seq(Cb), NEW due \in Seq(Got), NEW asked \in Seq(Sent), NEW srv, NEW state,
         NEW flags, Confirmed(list, due, asked, srv, state, flags), due # <<>>,
         NEW list2 \in Seq(Cb), NEW flags2,
         \/ list # <<>> /\ list2 = Tail(list) /\ ("SUBSCRIBED" \in flags <=> "SUBSCRIBED" \in flags2)
         \/ "SUBSCRIBED" \in flags /\ "SUBSCRIBED" \in flags2
         \/ "SUBSCRIBED" \in flags /\ due[1].kind = "unsubscribe" /\ due[1].left = 0
  PROVE  Confirmed(list2, Tail(due), asked, srv, state, flags2)
<1> DEFINE d == Tail(due)
<1>1. /\ d \in Seq(Got) /\ Len(due) \in Nat /\ Len(due) >= 1 /\ Len(d) = Len(due) - 1
      /\ \A i \in 1 .. Len(d) : i + 1 \in 1 .. Len(due) /\ d[i] = due[i + 1]
      /\ Len(list) \in Nat /\ Len(asked) \in Nat /\ Len(list2) \in Nat
  BY TailOf, LenProperties
<1> SUFFICES Confirmed(list2, d, asked, srv, state, flags2)
  OBVIOUS
<1> HIDE DEF d
<1>2. ASSUME "SUBSCRIBED" \in flags, NEW p \in 1 .. Len(d), d[p].kind = "unsubscribe", d[p].left = 0
      PROVE  p = Len(d) /\ asked = <<>> /\ srv.topics = {}
  <2>1. p + 1 = Len(due) /\ asked = <<>> /\ srv.topics = {}
    BY <1>1, <1>2 DEF Confirmed
  <2>2. QED BY <1>1, <2>1
<1>3. CASE "SUBSCRIBED" \in flags /\ "SUBSCRIBED" \in flags2
  BY <1>2, <1>3 DEF Confirmed
<1>4. CASE /\ list # <<>> /\ list2 = Tail(list)
           /\ "SUBSCRIBED" \notin flags /\ "SUBSCRIBED" \notin flags2
  <2>1. Len(list2) = Len(list) - 1
    BY <1>4, TailOf
  <2>2. /\ srv.topics = {} /\ \A j \in 1 .. Len(asked) : asked[j].kind = "get"
        /\ srv.full => \A i \in 1 .. Len(due) : due[i].kind \in {"error", "garbage"}
        /\ ~srv.full => Len(due) <= Len(list)
        /\ ~srv.full /\ state # "broken" => Len(due) + Len(asked) <= Len(list)
    BY <1>4 DEF Confirmed
  <2>3. /\ srv.full => \A i \in 1 .. Len(d) : d[i].kind \in {"error", "garbage"}
        /\ ~srv.full => Len(d) <= Len(list2)
        /\ ~srv.full /\ state # "broken" => Len(d) + Len(asked) <= Len(list2)
    BY <1>1, <2>1, <2>2
  <2>4. QED BY <1>4, <2>2, <2>3 DEF Confirmed
<1>5. CASE "SUBSCRIBED" \in flags /\ due[1].kind = "unsubscribe" /\ due[1].left = 0
  <2>1. 1 = Len(due) /\ asked = <<>> /\ srv.topics = {}
    BY <1>1, <1>5 DEF Confirmed
  <2>2. Len(d) = 0 /\ Len(asked) = 0
    BY <1>1, <2>1
  <2>3. /\ \A i \in 1 .. Len(d) : FALSE
        /\ \A j \in 1 .. Len(asked) : FALSE
    BY <2>2
  <2>4. Len(d) <= Len(list2) /\ Len(d) + Len(asked) <= Len(list2)
    <3>1. \A n \in Nat : 0 <= n /\ 0 + 0 <= n
      OBVIOUS
    <3>2. QED BY <1>1, <2>2, <3>1, Zenon
  <2>5. QED BY <2>1, <2>3, <2>4 DEF Confirmed
<1>6. QED BY <1>3, <1>4, <1>5

\* The connection breaks: the replies that were read are the first of those due, and
\* the commands in the output buffer the last that are asked.
LEMMA ConfirmedCut ==
  ASSUME NEW list \in Seq(Cb), NEW due \in Seq(Got), NEW asked \in Seq(Sent), NEW srv, NEW state,
         NEW flags, Confirmed(list, due, asked, srv, state, flags),
         NEW d \in Seq(Got), NEW a \in Seq(Sent),
         Len(d) <= Len(due), \A i \in 1 .. Len(d) : d[i] = due[i],
         NEW k \in Nat, Len(asked) = k + Len(a), \A i \in 1 .. Len(a) : a[i] = asked[k + i]
  PROVE  Confirmed(list, d, a, srv, "broken", flags)
<1>1. Len(due) \in Nat /\ Len(d) \in Nat /\ Len(a) \in Nat /\ Len(list) \in Nat
  BY LenProperties
<1>2. /\ \A i \in 1 .. Len(d) : i \in 1 .. Len(due)
      /\ \A i \in 1 .. Len(a) : k + i \in 1 .. Len(asked)
  BY <1>1
<1>3. \A j \in 1 .. Len(a) : a[j].kind = "unsubscribe" => j = Len(a)
  <2>1. ASSUME NEW j \in 1 .. Len(a), a[j].kind = "unsubscribe" PROVE j = Len(a)
    <3>1. k + j = Len(asked)
      BY <1>2, <2>1 DEF Confirmed
    <3>2. QED BY <1>1, <3>1
  <2>2. QED BY <2>1
<1>4. ASSUME "SUBSCRIBED" \notin flags
      PROVE  /\ srv.topics = {} /\ \A j \in 1 .. Len(a) : a[j].kind = "get"
             /\ srv.full => \A i \in 1 .. Len(d) : d[i].kind \in {"error", "garbage"}
             /\ ~srv.full => Len(d) <= Len(list)
  <2>1. ~srv.full => Len(due) <= Len(list)
    BY <1>4 DEF Confirmed
  <2>2. /\ srv.topics = {} /\ \A j \in 1 .. Len(asked) : asked[j].kind = "get"
        /\ srv.full => \A i \in 1 .. Len(due) : due[i].kind \in {"error", "garbage"}
    BY <1>4 DEF Confirmed
  <2>3. \A j \in 1 .. Len(a) : a[j].kind = "get"
    BY <1>2, <2>2
  <2>4. srv.full => \A i \in 1 .. Len(d) : d[i].kind \in {"error", "garbage"}
    BY <1>2, <2>2
  <2>5. ~srv.full => Len(d) <= Len(list)
    BY <1>1, <2>1
  <2>6. QED BY <2>2, <2>3, <2>4, <2>5
<1>5. ASSUME "SUBSCRIBED" \in flags, NEW p \in 1 .. Len(d), d[p].kind = "unsubscribe", d[p].left = 0
      PROVE  p = Len(d) /\ a = <<>> /\ srv.topics = {}
  <2>1. p = Len(due) /\ asked = <<>> /\ srv.topics = {}
    BY <1>2, <1>5 DEF Confirmed
  <2>2. Len(asked) = 0
    BY <2>1
  <2>3. Len(a) = 0 /\ p = Len(d)
    BY <1>1, <2>1, <2>2
  <2>4. QED BY <2>1, <2>3, EmptySeq
<1>6. QED BY <1>3, <1>4, <1>5 DEF Confirmed

\* The server says something of its own.
LEMMA ConfirmedTells ==
  ASSUME NEW list \in Seq(Cb), NEW due \in Seq(Got), NEW asked \in Seq(Sent), NEW srv, NEW state,
         NEW flags, Confirmed(list, due, asked, srv, state, flags), ~srv.full,
         NEW srv2, srv2.topics = srv.topics, NEW r \in Got,
         \/ r.kind = "message" /\ srv.topics # {} /\ ~srv2.full
         \/ /\ r.kind \in {"error", "garbage"} /\ srv2.full
            /\ Len(list) = 0 /\ "SUBSCRIBED" \notin flags
  PROVE  Confirmed(list, Append(due, r), asked, srv2, state, flags)
<1> DEFINE d == Append(due, r)
<1>1. /\ Len(due) \in Nat /\ Len(d) = Len(due) + 1 /\ Len(list) \in Nat
      /\ \A i \in 1 .. Len(d) : \/ i = Len(due) + 1 /\ d[i] = r
                                \/ i \in 1 .. Len(due) /\ d[i] = due[i]
  BY LastOf, OneMore, LenProperties
<1> SUFFICES Confirmed(list, d, asked, srv2, state, flags)
  OBVIOUS
<1> HIDE DEF d
<1>2. CASE r.kind = "message" /\ srv.topics # {} /\ ~srv2.full
  <2>1. "SUBSCRIBED" \in flags
    BY <1>2 DEF Confirmed
  <2>2. ASSUME NEW p \in 1 .. Len(d), d[p].kind = "unsubscribe", d[p].left = 0 PROVE FALSE
    <3>1. p \in 1 .. Len(due) /\ d[p] = due[p]
      BY <1>1, <1>2, <2>2
    <3>2. QED BY <1>2, <2>1, <2>2, <3>1 DEF Confirmed
  <2>3. QED BY <2>1, <2>2 DEF Confirmed
<1>3. CASE /\ r.kind \in {"error", "garbage"} /\ srv2.full
           /\ Len(list) = 0 /\ "SUBSCRIBED" \notin flags
  <2>1. Len(due) <= 0
    BY <1>3 DEF Confirmed
  <2>2. \A i \in 1 .. Len(d) : d[i] = r
    BY <1>1, <2>1
  <2>3. QED BY <1>3, <2>2 DEF Confirmed
<1>4. QED BY <1>2, <1>3

\* A command is sent, after others that were no unsubscribe.
LEMMA ConfirmedSend ==
  ASSUME NEW list \in Seq(Cb), NEW due \in Seq(Got), NEW asked \in Seq(Sent), NEW srv, NEW state,
         NEW flags, Confirmed(list, due, asked, srv, state, flags),
         NEW list2 \in Seq(Cb), NEW flags2, NEW q \in Sent,
         \A j \in 1 .. Len(asked) : asked[j].kind # "unsubscribe",
         \A j \in 1 .. Len(due) : due[j].kind # "unsubscribe",
         \/ "SUBSCRIBED" \in flags2
         \/ "SUBSCRIBED" \notin flags /\ q.kind = "get" /\ Len(list2) = Len(list) + 1
  PROVE  Confirmed(list2, due, Append(asked, q), srv, state, flags2)
<1> DEFINE a == Append(asked, q)
<1>1. /\ Len(asked) \in Nat /\ Len(a) = Len(asked) + 1
      /\ \A i \in 1 .. Len(a) : \/ i = Len(asked) + 1 /\ a[i] = q
                                \/ i \in 1 .. Len(asked) /\ a[i] = asked[i]
      /\ Len(due) \in Nat /\ Len(list) \in Nat
  BY LastOf, OneMore, LenProperties
<1> SUFFICES Confirmed(list2, due, a, srv, state, flags2)
  OBVIOUS
<1> HIDE DEF a
<1>2. \A j \in 1 .. Len(a) : a[j].kind = "unsubscribe" => j = Len(a)
  BY <1>1
<1>3. CASE "SUBSCRIBED" \in flags2
  BY <1>2, <1>3 DEF Confirmed
<1>4. CASE "SUBSCRIBED" \notin flags2
  <2>1. "SUBSCRIBED" \notin flags /\ q.kind = "get" /\ Len(list2) = Len(list) + 1
    BY <1>4
  <2>2. /\ srv.topics = {} /\ \A j \in 1 .. Len(asked) : asked[j].kind = "get"
        /\ srv.full => \A i \in 1 .. Len(due) : due[i].kind \in {"error", "garbage"}
        /\ ~srv.full => Len(due) <= Len(list)
        /\ ~srv.full /\ state # "broken" => Len(due) + Len(asked) <= Len(list)
    BY <2>1 DEF Confirmed
  <2>3. /\ ~srv.full => Len(due) <= Len(list2)
        /\ ~srv.full /\ state # "broken" => Len(due) + Len(a) <= Len(list2)
        /\ \A j \in 1 .. Len(a) : a[j].kind = "get"
    BY <1>1, <2>1, <2>2
  <2>4. QED BY <1>2, <1>4, <2>2, <2>3 DEF Confirmed
<1>5. QED BY <1>3, <1>4


LEMMA TracedLater ==
  ASSUME NEW due, NEW asked, NEW n \in Nat, NEW srv, NEW flags, Traced(due, asked, n, srv, flags),
         NEW m \in Nat, n <= m, NEW flags2, "MONITORING" \in flags => "MONITORING" \in flags2
  PROVE  Traced(due, asked, m, srv, flags2)
<1>1. \A i \in 1 .. n - 1 : i \in 1 .. m - 1
  OBVIOUS
<1>2. QED BY <1>1 DEF Traced

LEMMA TracedReads ==
  ASSUME NEW due \in Seq(Got), NEW asked \in Seq(Sent), NEW n, NEW srv, NEW flags,
         Traced(due, asked, n, srv, flags), asked # <<>>, NEW srv2, NEW r \in Got,
         r.kind = "unsubscribe" => asked[1].kind = "unsubscribe" /\ r.id = asked[1].id,
         srv2.feeds => srv.feeds \/ asked[1].kind = "monitor"
  PROVE  Traced(Append(due, r), Tail(asked), n, srv2, flags)
<1> DEFINE d == Append(due, r)
           a == Tail(asked)
<1>1. /\ \A i \in 1 .. Len(a) : i + 1 \in 1 .. Len(asked) /\ a[i] = asked[i + 1]
      /\ Len(asked) \in Nat /\ Len(asked) >= 1
  BY TailOf
<1>2. \A i \in 1 .. Len(d) : \/ i = Len(due) + 1 /\ d[i] = r
                             \/ i \in 1 .. Len(due) /\ d[i] = due[i]
  BY OneMore
<1> SUFFICES Traced(d, a, n, srv2, flags)
  OBVIOUS
<1> HIDE DEF d, a
<1>3. 1 \in 1 .. Len(asked)
  BY <1>1
<1>4. \A j \in 1 .. Len(a) : a[j].id \in 1 .. n - 1 /\ script[a[j].id].kind = a[j].kind
  BY <1>1 DEF Traced
<1>5. ASSUME NEW j \in 1 .. Len(d), d[j].kind = "unsubscribe"
      PROVE  d[j].id \in 1 .. n - 1 /\ script[d[j].id].kind = "unsubscribe"
  <2>1. CASE d[j] = r
    BY <1>3, <1>5, <2>1 DEF Traced
  <2>2. CASE j \in 1 .. Len(due) /\ d[j] = due[j]
    BY <1>5, <2>2 DEF Traced
  <2>3. QED BY <1>2, <2>1, <2>2
<1>6. (srv2.feeds \/ \E j \in 1 .. Len(a) : a[j].kind = "monitor") => "MONITORING" \in flags
  BY <1>1, <1>3 DEF Traced
<1>7. QED BY <1>4, <1>5, <1>6 DEF Traced

LEMMA TracedTake ==
  ASSUME NEW due \in Seq(Got), NEW asked, NEW n, NEW srv, NEW flags,
         Traced(due, asked, n, srv, flags), due # <<>>
  PROVE  Traced(Tail(due), asked, n, srv, flags)
<1> DEFINE d == Tail(due)
<1>1. \A i \in 1 .. Len(d) : i + 1 \in 1 .. Len(due) /\ d[i] = due[i + 1]
  BY TailOf
<1> SUFFICES Traced(d, asked, n, srv, flags)
  OBVIOUS
<1> HIDE DEF d
<1>2. QED BY <1>1 DEF Traced

LEMMA TracedCut ==
  ASSUME NEW due \in Seq(Got), NEW asked \in Seq(Sent), NEW n, NEW srv, NEW flags,
         Traced(due, asked, n, srv, flags), NEW d \in Seq(Got), NEW a \in Seq(Sent),
         Len(d) <= Len(due), \A i \in 1 .. Len(d) : d[i] = due[i],
         NEW k \in Nat, Len(asked) = k + Len(a), \A i \in 1 .. Len(a) : a[i] = asked[k + i]
  PROVE  Traced(d, a, n, srv, flags)
<1>1. Len(due) \in Nat /\ Len(d) \in Nat /\ Len(a) \in Nat
  BY LenProperties
<1>2. \A i \in 1 .. Len(d) : i \in 1 .. Len(due) /\ d[i] = due[i]
  BY <1>1
<1>3. \A i \in 1 .. Len(a) : k + i \in 1 .. Len(asked) /\ a[i] = asked[k + i]
  BY <1>1
<1>4. \A j \in 1 .. Len(a) :
        /\ a[j].id \in 1 .. n - 1 /\ script[a[j].id].kind = a[j].kind
        /\ a[j].kind = "monitor" => "MONITORING" \in flags
  <2>1. SUFFICES ASSUME NEW j \in 1 .. Len(a)
                 PROVE  /\ a[j].id \in 1 .. n - 1 /\ script[a[j].id].kind = a[j].kind
                        /\ a[j].kind = "monitor" => "MONITORING" \in flags
    OBVIOUS
  <2>2. k + j \in 1 .. Len(asked) /\ a[j] = asked[k + j]
    BY <1>3
  <2>3. QED BY <2>2 DEF Traced
<1>5. \A j \in 1 .. Len(d) : d[j].kind = "unsubscribe" =>
        d[j].id \in 1 .. n - 1 /\ script[d[j].id].kind = "unsubscribe"
  BY <1>2 DEF Traced
<1>6. srv.feeds => "MONITORING" \in flags
  BY DEF Traced
<1>7. QED BY <1>4, <1>5, <1>6 DEF Traced

LEMMA TracedTells ==
  ASSUME NEW due \in Seq(Got), NEW asked, NEW n, NEW srv, NEW flags,
         Traced(due, asked, n, srv, flags), NEW r \in Got, r.kind # "unsubscribe",
         NEW srv2, srv2.feeds => srv.feeds
  PROVE  Traced(Append(due, r), asked, n, srv2, flags)
<1> DEFINE d == Append(due, r)
<1>1. \A i \in 1 .. Len(d) : \/ i = Len(due) + 1 /\ d[i] = r
                             \/ i \in 1 .. Len(due) /\ d[i] = due[i]
  BY OneMore
<1> SUFFICES Traced(d, asked, n, srv2, flags)
  OBVIOUS
<1> HIDE DEF d
<1>2. \A j \in 1 .. Len(d) : d[j].kind = "unsubscribe" => j \in 1 .. Len(due) /\ d[j] = due[j]
  BY <1>1
<1>3. QED BY <1>2 DEF Traced

LEMMA TracedSend ==
  ASSUME NEW due \in Seq(Got), NEW asked \in Seq(Sent), NEW n \in Nat \ {0}, NEW srv, NEW flags,
         Traced(due, asked, n, srv, flags), NEW q \in Sent, q.id = n, script[n].kind = q.kind,
         NEW flags2, "MONITORING" \in flags \/ q.kind = "monitor" => "MONITORING" \in flags2
  PROVE  Traced(due, Append(asked, q), n + 1, srv, flags2)
<1> DEFINE a == Append(asked, q)
<1>1. \A i \in 1 .. Len(a) : \/ i = Len(asked) + 1 /\ a[i] = q
                             \/ i \in 1 .. Len(asked) /\ a[i] = asked[i]
  BY OneMore
<1> SUFFICES Traced(due, a, n + 1, srv, flags2)
  OBVIOUS
<1> HIDE DEF a
<1>2. \A i \in 1 .. n - 1 : i \in 1 .. n + 1 - 1
  OBVIOUS
<1>3. n \in 1 .. n + 1 - 1
  OBVIOUS
<1>4. ASSUME NEW j \in 1 .. Len(a)
      PROVE  a[j].id \in 1 .. n + 1 - 1 /\ script[a[j].id].kind = a[j].kind
  BY <1>1, <1>2, <1>3 DEF Traced
<1>5. (srv.feeds \/ \E j \in 1 .. Len(a) : a[j].kind = "monitor") => "MONITORING" \in flags2
  BY <1>1 DEF Traced
<1>6. QED BY <1>2, <1>4, <1>5 DEF Traced

\* Replies and commands, while the connection does not end; no callback in line when the
\* user ends it; and the assertion fails only after an unsubscribe that was followed.
Waited ==
  /\ Traced(Due, Asked, next, server, ac.flags)
  /\ Calm /\ "MONITORING" \notin ac.flags =>
       Confirmed(ac.replies, Due, Asked, server, link.state, ac.flags)
Fresh == next = 1 => PubSub(ac.flags) = {} /\ ac.replies = <<>>
UserEnds == "MONITORING" \notin ac.flags /\ pc["user"] # "idle" => ac.replies = <<>>
Lined ==
  /\ Fresh /\ UserEnds
  /\ ~freed /\ pc["poller"] \notin Ending => Waited
  /\ crashed = "assert" => ~Calm

LEMMA LinedInit == Init => Lined
<1> SUFFICES ASSUME Init PROVE Lined
  OBVIOUS
<1>0. /\ ac.replies = <<>> /\ ac.flags = {} /\ ac.obuf = <<>> /\ ac.ibuf = <<>>
      /\ pc = [t \in Threads |-> "idle"] /\ crashed = "no"
      /\ link.toServer = <<>> /\ link.toClient = <<>>
      /\ server.topics = {} /\ server.feeds = FALSE /\ server.full = FALSE
  BY DEF Init
<1>1. Due = <<>> /\ Asked = <<>>
  <2>1. <<>> \o <<>> = <<>>
    BY ConcatEmptySeq, EmptySeq
  <2>2. QED BY <1>0, <2>1 DEF Due, Asked
<1>2. Len(<<>>) = 0
  OBVIOUS
<1>3. Traced(<<>>, <<>>, next, server, ac.flags)
  BY <1>0, <1>2 DEF Traced
<1>4. Confirmed(<<>>, <<>>, <<>>, server, link.state, ac.flags)
  BY <1>0, <1>2 DEF Confirmed
<1>5. Waited
  BY <1>0, <1>1, <1>3, <1>4 DEF Waited
<1>6. QED BY <1>0, <1>5 DEF Lined, Fresh, UserEnds, PubSub, Threads

\* A step that leaves the callbacks in line, the replies and the commands.
LEMMA LinedQuiet ==
  ASSUME Lined, script' = script, next' = next, ac'.replies = ac.replies,
         PubSub(ac'.flags) = PubSub(ac.flags),
         pc'["user"] = "idle" \/ pc["user"] # "idle" \/ ac.replies = <<>>,
         crashed' = "assert" => crashed = "assert" \/ ~Calm,
         \/ freed' \/ pc'["poller"] \in Ending
         \/ /\ ~freed /\ pc["poller"] \notin Ending
            /\ Due' = Due /\ Asked' = Asked /\ server' = server /\ link'.state = link.state
  PROVE  Lined'
<1>1. /\ "MONITORING" \in ac'.flags <=> "MONITORING" \in ac.flags
      /\ "SUBSCRIBED" \in ac'.flags <=> "SUBSCRIBED" \in ac.flags
  BY DEF PubSub
<1>2. Calm' = Calm
  BY DEF Calm
<1>3. Fresh' /\ UserEnds'
  BY <1>1 DEF Lined, Fresh, UserEnds
<1>4. ASSUME ~freed', pc'["poller"] \notin Ending PROVE Waited'
  <2>1. Waited
    BY <1>4 DEF Lined
  <2>2. Traced(Due, Asked, next, server, ac.flags)'
    <3>1. Traced(Due, Asked, next, server, ac'.flags)
      BY <1>1, <2>1 DEF Waited, Traced
    <3>2. QED BY <1>4, <3>1 DEF Traced
  <2>3. ASSUME Calm', "MONITORING" \notin ac'.flags
        PROVE  Confirmed(ac.replies, Due, Asked, server, link.state, ac.flags)'
    <3>1. Confirmed(ac.replies, Due, Asked, server, link.state, ac.flags)
      BY <1>1, <1>2, <2>1, <2>3 DEF Waited
    <3>2. Confirmed(ac.replies, Due, Asked, server, link.state, ac'.flags)
      BY <1>1, <3>1 DEF Confirmed
    <3>3. QED BY <1>4, <3>2
  <2>4. QED BY <2>2, <2>3 DEF Waited
<1>5. crashed' = "assert" => ~Calm'
  BY <1>2 DEF Lined
<1>6. QED BY <1>3, <1>4, <1>5 DEF Lined

\* With a monitor, a callback in line may come or go.
LEMMA LinedMonitor ==
  ASSUME Lined, script' = script, next' = next, Running, crashed' # "assert",
         "MONITORING" \in ac.flags, PubSub(ac'.flags) = PubSub(ac.flags),
         \/ freed' \/ pc'["poller"] \in Ending
         \/ /\ ~freed /\ pc["poller"] \notin Ending
            /\ Due' = Due /\ Asked' = Asked /\ server' = server
  PROVE  Lined'
<1>1. "MONITORING" \in ac'.flags
  BY DEF PubSub
<1>2. next # 1
  BY DEF Lined, Fresh, PubSub
<1>3. Fresh' /\ UserEnds'
  BY <1>1, <1>2 DEF Fresh, UserEnds
<1>4. ASSUME ~freed', pc'["poller"] \notin Ending PROVE Waited'
  <2>1. Traced(Due, Asked, next, server, ac.flags)
    BY <1>4 DEF Lined, Waited
  <2>2. Traced(Due, Asked, next, server, ac'.flags)
    BY <1>1, <2>1 DEF Traced
  <2>3. QED BY <1>1, <1>4, <2>2 DEF Waited, Traced
<1>5. QED BY <1>3, <1>4 DEF Lined

LEMMA LinedPoll ==
  ASSUME TypeOK, Locks, Phases, Lined, Running, Poll, ~ProcessReply
  PROVE  Lined'
<1>1. /\ PubSub(ac'.flags) = PubSub(ac.flags) /\ crashed' # "assert"
      /\ "MONITORING" \notin ac.flags => ListsKept
  BY PollLists
<1>2. /\ UNCHANGED server /\ link'.state = link.state
      /\ (Due' = Due /\ Asked' = Asked) \/ pc'["poller"] = "free"
  BY PollPairs
<1>3. PollEffect
  BY PollEffects
<1>4. script' = script /\ next' = next
  <2>1. UNCHANGED user
    BY Zenon DEF Poll, EpollWait, OnActive, HandleConnect, ConnectReturn, RefusedReturn,
                 HandleRead, HandleWrite, NoMoreReplies, BadReply, ProcessReply
  <2>2. QED BY <2>1 DEF user
<1>5. \/ freed' \/ pc'["poller"] \in Ending
      \/ /\ ~freed /\ pc["poller"] \notin Ending
         /\ Due' = Due /\ Asked' = Asked /\ server' = server /\ link'.state = link.state
  BY <1>2, <1>3 DEF PollEffect, Ending
<1>6. CASE "MONITORING" \in ac.flags
  BY <1>1, <1>4, <1>5, <1>6, LinedMonitor
<1>7. CASE "MONITORING" \notin ac.flags
  <2>1. ac'.replies = ac.replies
    BY <1>1, <1>7 DEF ListsKept
  <2>2. pc'["user"] = "idle" \/ pc["user"] # "idle"
    BY <1>3 DEF PollEffect
  <2>3. QED BY <1>1, <1>4, <1>5, <2>1, <2>2, LinedQuiet
<1>8. QED BY <1>6, <1>7


\* What is left of the context when the callback for a reply is found.
LEMMA CallbackForIs ==
  ASSUME NEW x \in Context, NEW r \in Got
  PROVE  LET z == CallbackFor(x, r).ac
         IN /\ z.ibuf = x.ibuf /\ z.obuf = x.obuf
            /\ \/ x.replies # <<>> /\ z.replies = Tail(x.replies) /\ z.flags = x.flags
               \/ /\ x.replies = <<>> /\ z.replies = <<>>
                  /\ \/ z.flags = x.flags
                     \/ /\ "SUBSCRIBED" \in x.flags /\ r.kind = "unsubscribe" /\ r.left = 0
                        /\ z.flags = x.flags \ {"SUBSCRIBED"}
<1> DEFINE z == CallbackFor(x, r).ac
<1>1. \/ x.replies # <<>> /\ z = [x EXCEPT !.replies = Tail(@)]
      \/ /\ x.replies = <<>> /\ "SUBSCRIBED" \in x.flags /\ r.kind = "unsubscribe"
         /\ z = [x EXCEPT !.subs = Without(@, r.topic),
                          !.flags = IF r.left = 0 THEN @ \ {"SUBSCRIBED"} ELSE @]
      \/ x.replies = <<>> /\ z = [x EXCEPT !.invalid = Tail(@)]
      \/ x.replies = <<>> /\ z = x
  BY DEF CallbackFor, GetSubscribeCallback
<1> HIDE DEF z
<1>2. /\ z.ibuf = x.ibuf /\ z.obuf = x.obuf
      /\ \/ x.replies # <<>> /\ z.replies = Tail(x.replies) /\ z.flags = x.flags
         \/ /\ x.replies = <<>> /\ z.replies = <<>>
            /\ \/ z.flags = x.flags
               \/ /\ "SUBSCRIBED" \in x.flags /\ r.kind = "unsubscribe" /\ r.left = 0
                  /\ z.flags = x.flags \ {"SUBSCRIBED"}
  BY <1>1 DEF Context
<1>3. QED BY <1>2 DEF z

LEMMA LinedReply ==
  ASSUME TypeOK, Locks, Phases, Lined, Running, ProcessReply
  PROVE  Lined'
<1> DEFINE r == Head(ac.ibuf)
           y == [ac EXCEPT !.ibuf = Tail(@)]
           x == CallbackFor(y, r)
           z == x.ac
<1>0. /\ ac \in Context /\ ac.ibuf \in Seq(Got) /\ ac.replies \in Seq(Cb) /\ "poller" \in Threads
      /\ pc \in [Threads -> Places] /\ crashed = "no"
  BY DEF TypeOK, ContextType, Context, ThreadType, Threads, Running
<1>1. /\ pc["poller"] = "loop" /\ ~freed /\ ac.ibuf # <<>>
      /\ script' = script /\ next' = next
      /\ UNCHANGED <<freed, fns, link, server>>
  BY Zenon DEF ProcessReply, At, user
<1>2. pc'["user"] = pc["user"]
  BY PollEffects DEF PollEffect, Poll
<1>3. Waited
  BY <1>1 DEF Lined, Ending
<1>4. /\ r = Due[1] /\ Due # <<>> /\ Tail(ac.ibuf) \o link.toClient = Tail(Due)
      /\ Due \in Seq(Got) /\ Asked \in Seq(Sent)
  BY <1>1, DueAsked, DueHead DEF r
<1>5. CASE crashed' = "assert" /\ UNCHANGED <<ac, cb, calls, pc, mtx>>
  <2>1. /\ r.kind # "garbage" /\ (ac.replies = <<>> => r.kind # "error")
        /\ ac.replies = <<>> /\ ac.flags \cap {"SUBSCRIBED", "MONITORING"} = {}
    <3>1. \/ ac.replies = <<>> /\ ac.flags \cap {"SUBSCRIBED", "MONITORING"} = {}
          \/ x.cb.fn /\ CallUser("poller", x.ac, x.cb, r, "callback")
          \/ UNCHANGED crashed
      BY Zenon DEF ProcessReply
    <3>2. CallUser("poller", x.ac, x.cb, r, "callback") => crashed' = "empty" \/ UNCHANGED crashed
      BY Zenon DEF CallUser
    <3>3. r.kind # "garbage" /\ (ac.replies = <<>> => r.kind # "error")
      BY Zenon DEF ProcessReply
    <3>4. QED BY <1>0, <1>5, <3>1, <3>2, <3>3
  <2>2. ASSUME Calm PROVE FALSE
    <3>1. "SUBSCRIBED" \notin ac.flags /\ "MONITORING" \notin ac.flags
      BY <2>1
    <3>2. Confirmed(ac.replies, Due, Asked, server, link.state, ac.flags)
      BY <1>3, <2>2, <3>1 DEF Waited
    <3>3. Len(Due) \in Nat /\ Len(Due) >= 1
      BY <1>4, TailOf
    <3>4. CASE server.full
      <4>1. \A i \in 1 .. Len(Due) : Due[i].kind \in {"error", "garbage"}
        BY <3>1, <3>2, <3>4 DEF Confirmed
      <4>2. r.kind \in {"error", "garbage"}
        BY <1>4, <3>3, <4>1
      <4>3. QED BY <2>1, <4>2
    <3>5. CASE ~server.full
      <4>1. Len(Due) <= Len(ac.replies) /\ Len(ac.replies) = 0
        BY <2>1, <3>1, <3>2, <3>5 DEF Confirmed
      <4>2. QED BY <3>3, <4>1
    <3>6. QED BY <3>4, <3>5
  <2> HIDE DEF r
  <2>3. Due' = Due /\ Asked' = Asked
    BY <1>1, <1>5 DEF Due, Asked
  <2>4. QED BY <1>1, <1>2, <1>5, <2>2, <2>3, LinedQuiet DEF Ending
<1>6. CASE ~(crashed' = "assert" /\ UNCHANGED <<ac, cb, calls, pc, mtx>>)
  <2>1. /\ ~(ac.replies = <<>> /\ ac.flags \cap {"SUBSCRIBED", "MONITORING"} = {})
        /\ \/ x.cb.fn /\ CallUser("poller", x.ac, x.cb, r, "callback")
           \/ ~x.cb.fn /\ ac' = x.ac /\ UNCHANGED <<calls, pc, mtx, crashed>>
    BY <1>6, Zenon DEF ProcessReply
  <2>2. \/ UNCHANGED <<ac, pc>> /\ crashed' = "empty"
        \/ (ac' = z \/ ac' = [z EXCEPT !.flags = @ \cup {"IN_CALLBACK"}]) /\ crashed' = crashed
    BY <2>1, Zenon DEF CallUser
  <2>3. /\ y \in Context /\ y.replies = ac.replies /\ r \in Got /\ y.flags = ac.flags
        /\ y.obuf = ac.obuf /\ y.ibuf = Tail(ac.ibuf)
    BY <1>0, <1>1, HeadTailProperties DEF Context
  <2>4. z \in Context
    <3> HIDE DEF y, r
    <3>1. cb \in Cb
      BY DEF TypeOK, ContextType
    <3>2. QED BY <2>3, <3>1, CallbackForType
  <2>5. /\ z.ibuf = y.ibuf /\ z.obuf = y.obuf
        /\ \/ y.replies # <<>> /\ z.replies = Tail(y.replies) /\ z.flags = y.flags
           \/ /\ y.replies = <<>> /\ z.replies = <<>>
              /\ \/ z.flags = y.flags
                 \/ /\ "SUBSCRIBED" \in y.flags /\ r.kind = "unsubscribe" /\ r.left = 0
                    /\ z.flags = y.flags \ {"SUBSCRIBED"}
    <3> HIDE DEF y, r
    <3>1. QED BY <2>3, CallbackForIs
  <2> HIDE DEF x, y, z, r
  <2>6. CASE UNCHANGED <<ac, pc>> /\ crashed' = "empty"
    <3>1. Due' = Due /\ Asked' = Asked
      BY <1>1, <2>6 DEF Due, Asked
    <3>2. QED BY <1>1, <2>6, <3>1, LinedQuiet DEF Ending
  <2>7. CASE (ac' = z \/ ac' = [z EXCEPT !.flags = @ \cup {"IN_CALLBACK"}]) /\ crashed' = crashed
    <3>1. /\ ac'.ibuf = Tail(ac.ibuf) /\ ac'.obuf = ac.obuf /\ ac'.replies = z.replies
          /\ ac'.flags = z.flags \/ ac'.flags = z.flags \cup {"IN_CALLBACK"}
      BY <2>3, <2>4, <2>5, <2>7 DEF Context
    <3>2. /\ "MONITORING" \in ac'.flags <=> "MONITORING" \in ac.flags
          /\ \/ /\ ac.replies # <<>> /\ ac'.replies = Tail(ac.replies)
                /\ "SUBSCRIBED" \in ac'.flags <=> "SUBSCRIBED" \in ac.flags
             \/ /\ ac.replies = <<>> /\ ac'.replies = <<>>
                /\ \/ "SUBSCRIBED" \in ac'.flags <=> "SUBSCRIBED" \in ac.flags
                   \/ "SUBSCRIBED" \in ac.flags /\ r.kind = "unsubscribe" /\ r.left = 0
      BY <2>3, <2>5, <3>1
    <3>3. Due' = Tail(Due) /\ Asked' = Asked
      BY <1>1, <1>4, <3>1 DEF Due, Asked
    <3>4. next # 1
      BY <2>1 DEF Lined, Fresh, PubSub
    <3>5. Fresh'
      BY <1>1, <3>4 DEF Fresh
    <3>6. UserEnds'
      BY <1>2, <3>2 DEF Lined, UserEnds
    <3>7. Calm' = Calm
      BY <1>1 DEF Calm
    <3>8. Waited'
      <4>1. Traced(Tail(Due), Asked, next, server, ac'.flags)
        <5>1. Traced(Tail(Due), Asked, next, server, ac.flags)
          BY <1>3, <1>4, TracedTake DEF Waited
        <5>2. QED BY <3>2, <5>1 DEF Traced
      <4>2. ASSUME Calm', "MONITORING" \notin ac'.flags
            PROVE  Confirmed(ac'.replies, Tail(Due), Asked, server, link.state, ac'.flags)
        <5>1. Confirmed(ac.replies, Due, Asked, server, link.state, ac.flags)
          BY <1>3, <3>2, <3>7, <4>2 DEF Waited
        <5>2. ac'.replies \in Seq(Cb)
          BY <1>0, <3>2, TailOf, EmptySeq
        <5>3. \/ /\ ac.replies # <<>> /\ ac'.replies = Tail(ac.replies)
                 /\ "SUBSCRIBED" \in ac.flags <=> "SUBSCRIBED" \in ac'.flags
              \/ "SUBSCRIBED" \in ac.flags /\ "SUBSCRIBED" \in ac'.flags
              \/ "SUBSCRIBED" \in ac.flags /\ Due[1].kind = "unsubscribe" /\ Due[1].left = 0
          BY <1>4, <2>1, <3>2, <4>2
        <5>4. QED BY <1>0, <1>4, <5>1, <5>2, <5>3, ConfirmedTake
      <4>3. Traced(Due, Asked, next, server, ac.flags)'
        BY <1>1, <3>3, <4>1 DEF Traced
      <4>4. Calm' /\ "MONITORING" \notin ac'.flags =>
              Confirmed(ac'.replies, Due', Asked', server', link'.state, ac'.flags)
        BY <1>1, <3>3, <4>2
      <4>5. QED BY <4>3, <4>4 DEF Waited
    <3>9. QED BY <1>0, <2>7, <3>5, <3>6, <3>8 DEF Lined
  <2>8. QED BY <2>2, <2>6, <2>7
<1>7. QED BY <1>5, <1>6

\* What is left of the context when a callback is run off.
LEMMA PendingIs ==
  ASSUME NEW x \in Context, NEW p \in Pending(x)
  PROVE  /\ p.ac.ibuf = x.ibuf /\ p.ac.obuf = x.obuf /\ p.ac.flags = x.flags
         /\ x.replies = <<>> => p.ac.replies = <<>>
<1>1. \/ x.replies # <<>> /\ p.ac = [x EXCEPT !.replies = Tail(@)]
      \/ x.replies = <<>> /\ p.ac = [x EXCEPT !.invalid = Tail(@)]
      \/ x.replies = <<>> /\ \E t \in DOMAIN x.subs : p.ac = [x EXCEPT !.subs = Without(@, t)]
  BY SMTT(30) DEF Pending
<1>2. QED BY <1>1 DEF Context

LEMMA LinedBoth ==
  ASSUME TypeOK, Locks, Phases, Lined, Running, NEW t \in Threads, Both(t)
  PROVE  Lined'
<1>0. /\ ac \in Context /\ ThreadType /\ pc \in [Threads -> Places] /\ crashed = "no"
      /\ "poller" \in Threads /\ "user" \in Threads /\ (t = "poller" \/ t = "user")
  BY DEF TypeOK, ContextType, ThreadType, Threads, Running
<1>1. script' = script /\ next' = next /\ UNCHANGED <<link, server>>
  BY Zenon DEF Both, CallbackReturn, RunPending, Cleanup, DisconnectCallback, DisconnectReturn,
               Fault, user
<1>2. ASSUME ac' = ac PROVE Due' = Due /\ Asked' = Asked
  BY <1>1, <1>2 DEF Due, Asked
<1>3. CASE CallbackReturn(t)
  <2>1. /\ pc[t] \in {"callback", "nil"} /\ ~freed /\ freed' = freed
        /\ \/ UNCHANGED <<ac, pc>> /\ crashed' = "empty"
           \/ /\ ac' = [ac EXCEPT !.flags = @ \ {"IN_CALLBACK"}] /\ crashed' = crashed
              /\ Hold(t, IF pc[t] = "callback" THEN "loop" ELSE "free")
    BY <1>3, Zenon DEF CallbackReturn, Back
  <2>2. /\ ac'.replies = ac.replies /\ ac'.ibuf = ac.ibuf /\ ac'.obuf = ac.obuf
        /\ PubSub(ac'.flags) = PubSub(ac.flags)
    BY <1>0, <2>1 DEF Context, PubSub
  <2>3. Due' = Due /\ Asked' = Asked
    BY <1>1, <2>2 DEF Due, Asked
  <2>4. /\ pc'["user"] = "idle" \/ pc["user"] # "idle"
        /\ pc'["poller"] \in Ending \/ pc["poller"] \notin Ending
    BY <1>0, <2>1 DEF Hold, Ending
  <2>5. QED BY <1>0, <1>1, <2>1, <2>2, <2>3, <2>4, LinedQuiet
<1>4. CASE RunPending(t)
  <2>1. /\ pc[t] = "free" /\ ~freed /\ freed' = freed
        /\ \E p \in Pending(ac) :
             \/ UNCHANGED <<ac, pc>> /\ crashed' = "empty"
             \/ /\ ac' = [p.ac EXCEPT !.flags = @ \cup {"IN_CALLBACK"}] /\ crashed' = crashed
                /\ pc' = [pc EXCEPT ![t] = "nil"]
             \/ ac' = p.ac /\ UNCHANGED <<pc, crashed>>
    BY <1>4, Zenon DEF RunPending, At, CallUser, Release
  <2>2. /\ ac'.ibuf = ac.ibuf /\ ac'.obuf = ac.obuf /\ PubSub(ac'.flags) = PubSub(ac.flags)
        /\ ac.replies = <<>> => ac'.replies = <<>>
        /\ crashed' # "assert"
    <3>1. PICK p \in Pending(ac) :
             \/ UNCHANGED <<ac, pc>> /\ crashed' = "empty"
             \/ /\ ac' = [p.ac EXCEPT !.flags = @ \cup {"IN_CALLBACK"}] /\ crashed' = crashed
                /\ pc' = [pc EXCEPT ![t] = "nil"]
             \/ ac' = p.ac /\ UNCHANGED <<pc, crashed>>
      BY <2>1
    <3>2. /\ p.ac.ibuf = ac.ibuf /\ p.ac.obuf = ac.obuf /\ p.ac.flags = ac.flags
          /\ ac.replies = <<>> => p.ac.replies = <<>>
          /\ p.ac \in Context
      BY <1>0, PendingIs, PendingType
    <3>3. CASE ac' = ac
      BY <1>0, <3>1, <3>3
    <3>4. CASE ac' = p.ac
      BY <1>0, <3>1, <3>2, <3>4
    <3>5. CASE ac' = [p.ac EXCEPT !.flags = @ \cup {"IN_CALLBACK"}]
      <4>1. /\ ac'.ibuf = p.ac.ibuf /\ ac'.obuf = p.ac.obuf /\ ac'.replies = p.ac.replies
            /\ ac'.flags = p.ac.flags \cup {"IN_CALLBACK"}
        BY <3>2, <3>5 DEF Context
      <4>2. QED BY <1>0, <3>1, <3>2, <4>1 DEF PubSub
    <3>6. QED BY <3>1, <3>3, <3>4, <3>5
  <2>3. Due' = Due /\ Asked' = Asked
    BY <1>1, <2>2 DEF Due, Asked
  <2>4. /\ pc'["user"] = "idle" \/ pc["user"] # "idle"
        /\ pc'["poller"] \in Ending \/ pc["poller"] \notin Ending
        /\ t = "user" => pc["user"] # "idle"
        /\ t = "poller" => pc'["poller"] \in Ending
        /\ t = "poller" => pc'["user"] = pc["user"]
    BY <1>0, <2>1 DEF Ending
  <2>5. CASE ac.replies = <<>>
    BY <1>1, <2>1, <2>2, <2>3, <2>4, <2>5, LinedQuiet
  <2>6. CASE "MONITORING" \in ac.flags
    BY <1>1, <2>1, <2>2, <2>3, <2>4, <2>6, LinedMonitor
  <2>7. CASE ac.replies # <<>> /\ "MONITORING" \notin ac.flags
    <3>1. t = "poller" /\ pc["user"] = "idle" /\ next # 1
      BY <1>0, <2>4, <2>7 DEF Lined, UserEnds, Fresh
    <3>2. QED BY <1>1, <2>2, <2>4, <3>1 DEF Lined, UserEnds, Fresh
  <2>8. QED BY <2>5, <2>6, <2>7
<1>5. CASE Cleanup(t) \/ DisconnectCallback(t) \/ DisconnectReturn(t) \/ Fault(t)
  <2>1. /\ ac' = ac /\ (crashed' = crashed \/ crashed' = "freed")
    BY <1>5, Zenon DEF Cleanup, DisconnectCallback, DisconnectReturn, Fault
  <2>2. /\ pc'["user"] = "idle" \/ pc["user"] # "idle"
        /\ freed' \/ pc'["poller"] \in Ending \/ (~freed /\ pc["poller"] \notin Ending)
    <3>1. CASE Cleanup(t)
      <4>1. /\ pc[t] = "free" /\ mtx = t /\ ~freed
            /\ Release(t, "unlocked") \/ (freed' /\ Leave(t))
        BY <3>1, Zenon DEF Cleanup, At
      <4>2. CASE Release(t, "unlocked")
        BY <1>0, <4>1, <4>2 DEF Release, Ending
      <4>3. CASE freed' /\ Leave(t)
        BY <1>0, <4>1, <4>3, LeaveMoves
      <4>4. QED BY <4>1, <4>2, <4>3
    <3>2. CASE DisconnectCallback(t)
      <4>1. /\ pc[t] = "unlocked" /\ pc' = [pc EXCEPT ![t] = "disconnected"] /\ freed' = freed
        BY <3>2, Zenon DEF DisconnectCallback
      <4>2. QED BY <1>0, <4>1 DEF Ending
    <3>3. CASE DisconnectReturn(t)
      <4>1. /\ pc[t] = "disconnected" /\ mtx = "free" /\ freed' /\ Leave(t)
        BY <3>3, Zenon DEF DisconnectReturn, Back
      <4>2. QED BY <1>0, <4>1, LeaveMoves
    <3>4. CASE Fault(t)
      <4>1. pc' = pc /\ freed' = freed /\ freed
        BY <3>4, Zenon DEF Fault
      <4>2. QED BY <4>1
    <3>5. QED BY <1>5, <3>1, <3>2, <3>3, <3>4
  <2>3. QED BY <1>0, <1>1, <1>2, <2>1, <2>2, LinedQuiet
<1>6. QED BY <1>3, <1>4, <1>5 DEF Both


\* Where the callback of a command is put.
LEMMA PutIs ==
  ASSUME NEW x \in Context, NEW c, c.kind \in Kinds, NEW id
  PROVE  LET y == PutCallback(x, c, id)
         IN /\ y.ibuf = x.ibuf /\ y.obuf = x.obuf /\ x.flags \subseteq y.flags
            /\ c.kind = "monitor" => "MONITORING" \in y.flags
            /\ \/ "SUBSCRIBED" \in y.flags /\ y.replies = x.replies
               \/ c.kind = "unsubscribe" /\ y = x
               \/ c.kind = "monitor"
               \/ /\ c.kind = "get" /\ "SUBSCRIBED" \notin x.flags
                  /\ y.replies = Append(x.replies, [id |-> id, fn |-> c.fn])
<1> DEFINE new == [id |-> id, fn |-> c.fn]
           y == PutCallback(x, c, id)
<1>1. \/ c.kind = "subscribe"
         /\ y = [x EXCEPT !.flags = @ \cup {"SUBSCRIBED"}, !.subs = With(@, c.topic, new)]
      \/ c.kind = "unsubscribe" /\ y = x
      \/ c.kind = "monitor"
         /\ y = [x EXCEPT !.flags = @ \cup {"MONITORING"}, !.replies = Append(@, new)]
      \/ c.kind = "get" /\ "SUBSCRIBED" \in x.flags /\ y = [x EXCEPT !.invalid = Append(@, new)]
      \/ c.kind = "get" /\ "SUBSCRIBED" \notin x.flags /\ y = [x EXCEPT !.replies = Append(@, new)]
  BY DEF PutCallback, Kinds
<1> HIDE DEF new, y
<1>2. /\ y.ibuf = x.ibuf /\ y.obuf = x.obuf /\ x.flags \subseteq y.flags
      /\ c.kind = "monitor" => "MONITORING" \in y.flags
      /\ \/ "SUBSCRIBED" \in y.flags /\ y.replies = x.replies
         \/ c.kind = "unsubscribe" /\ y = x
         \/ c.kind = "monitor"
         \/ /\ c.kind = "get" /\ "SUBSCRIBED" \notin x.flags
            /\ y.replies = Append(x.replies, new)
  <2>1. CASE c.kind = "subscribe"
    <3>1. y = [x EXCEPT !.flags = @ \cup {"SUBSCRIBED"}, !.subs = With(@, c.topic, new)]
      BY <1>1, <2>1
    <3>2. /\ y.ibuf = x.ibuf /\ y.obuf = x.obuf /\ y.replies = x.replies
          /\ y.flags = x.flags \cup {"SUBSCRIBED"}
      BY <3>1 DEF Context
    <3>3. QED BY <2>1, <3>2
  <2>2. CASE c.kind = "unsubscribe"
    BY <1>1, <2>2
  <2>3. CASE c.kind = "monitor"
    <3>1. y = [x EXCEPT !.flags = @ \cup {"MONITORING"}, !.replies = Append(@, new)]
      BY <1>1, <2>3
    <3>2. y.ibuf = x.ibuf /\ y.obuf = x.obuf /\ y.flags = x.flags \cup {"MONITORING"}
      BY <3>1 DEF Context
    <3>3. QED BY <2>3, <3>2
  <2>4. CASE c.kind = "get" /\ "SUBSCRIBED" \in x.flags
    BY <1>1, <2>4 DEF Context
  <2>5. CASE c.kind = "get" /\ "SUBSCRIBED" \notin x.flags
    <3>1. y = [x EXCEPT !.replies = Append(@, new)]
      BY <1>1, <2>5
    <3>2. y.ibuf = x.ibuf /\ y.obuf = x.obuf /\ x.flags = y.flags /\ y.replies = Append(x.replies, new)
      BY <3>1 DEF Context
    <3>3. QED BY <2>5, <3>2
  <2>6. QED BY <2>1, <2>2, <2>3, <2>4, <2>5 DEF Kinds
<1>3. QED BY <1>2 DEF y, new

LEMMA LinedCommand ==
  ASSUME TypeOK, Locks, Phases, Lined, Running, redisAsyncCommand
  PROVE  Lined'
<1> DEFINE c == script[next]
           q == [kind |-> c.kind, topic |-> c.topic, id |-> next]
           x == PutCallback(ac, c, next)
<1>0. /\ ac \in Context /\ ac.replies \in Seq(Cb) /\ ac.obuf \in Seq(Sent)
      /\ crashed = "no" /\ next \in Nat \ {0} /\ next \in Nat
  BY ScriptIs DEF TypeOK, ContextType, Context, Running
<1>1. /\ pc["user"] = "idle" /\ next <= Len(script) /\ next' = next + 1
      /\ UNCHANGED <<script, freed, pc, link, server>>
  BY Zenon DEF redisAsyncCommand, MayCall
<1>2. \/ ac' = ac /\ (crashed' = crashed \/ crashed' = "freed")
      \/ /\ ~(c.kind = "unsubscribe" /\ "SUBSCRIBED" \notin ac.flags)
         /\ ac' = [x EXCEPT !.obuf = Append(@, q)] /\ crashed' = crashed
  BY Zenon DEF redisAsyncCommand
<1>3. next' # 1 /\ pc'["user"] = "idle" /\ crashed' # "assert"
  BY <1>0, <1>1, <1>2
<1>4. Fresh' /\ UserEnds'
  BY <1>3 DEF Fresh, UserEnds
<1>5. Calm' => Calm /\ \A i \in 1 .. next - 1 : script[i].kind # "unsubscribe"
  <2>1. /\ next' - 2 = next - 1
        /\ \A i \in 1 .. next - 2 : i \in 1 .. next - 1
    BY <1>0, <1>1
  <2>2. QED BY <1>1, <2>1 DEF Calm
<1>6. SUFFICES ASSUME ~freed, pc["poller"] \notin Ending, Waited PROVE Waited'
  BY <1>1, <1>3, <1>4 DEF Lined
<1>7. /\ Traced(Due, Asked, next, server, ac.flags) /\ Due \in Seq(Got) /\ Asked \in Seq(Sent)
  BY <1>6, DueAsked DEF Waited
<1>8. CASE ac' = ac
  <2>1. Due' = Due /\ Asked' = Asked
    BY <1>1, <1>8 DEF Due, Asked
  <2>2. Traced(Due, Asked, next + 1, server, ac.flags)
    BY <1>0, <1>7, TracedLater
  <2>3. Traced(Due, Asked, next, server, ac.flags)'
    BY <1>1, <1>8, <2>1, <2>2 DEF Traced
  <2>4. Calm' /\ "MONITORING" \notin ac'.flags =>
          Confirmed(ac'.replies, Due', Asked', server', link'.state, ac'.flags)
    BY <1>1, <1>5, <1>6, <1>8, <2>1 DEF Waited
  <2>5. QED BY <2>3, <2>4 DEF Waited
<1>9. CASE /\ ~(c.kind = "unsubscribe" /\ "SUBSCRIBED" \notin ac.flags)
           /\ ac' = [x EXCEPT !.obuf = Append(@, q)] /\ crashed' = crashed
  <2> DEFINE new == [id |-> next, fn |-> c.fn]
  <2>1. next \in 1 .. Len(script)
    BY <1>0, <1>1, ScriptIs DEF TypeOK
  <2>2. c.kind \in Kinds /\ c.topic \in Topics /\ c.fn \in BOOLEAN
    BY <2>1, ScriptIs DEF TypeOK
  <2>3. c \in [kind : Kinds, topic : Topics, fn : BOOLEAN]
    <3>1. script \in Seq([kind : Kinds, topic : STRING, fn : BOOLEAN])
      BY ScriptIs DEF TypeOK
    <3>2. c \in [kind : Kinds, topic : STRING, fn : BOOLEAN]
      BY <2>1, <3>1, ElementOfSeq
    <3>3. QED BY <3>2 DEF Topics
  <2>4. /\ new \in Cb /\ q \in Sent /\ q.id = next /\ q.kind = c.kind
    BY <1>0, <2>2 DEF Cb, Sent
  <2>5. x \in Context
    <3> HIDE DEF c
    <3>1. QED BY <1>0, <2>3, PutType
  <2>6. /\ x.ibuf = ac.ibuf /\ x.obuf = ac.obuf /\ ac.flags \subseteq x.flags
        /\ c.kind = "monitor" => "MONITORING" \in x.flags
        /\ \/ "SUBSCRIBED" \in x.flags /\ x.replies = ac.replies
           \/ c.kind = "unsubscribe" /\ x = ac
           \/ c.kind = "monitor"
           \/ /\ c.kind = "get" /\ "SUBSCRIBED" \notin ac.flags
              /\ x.replies = Append(ac.replies, new)
    <3> HIDE DEF c
    <3>1. QED BY <1>0, <2>2, PutIs
  <2>7. script[next].kind = q.kind
    BY <2>4
  <2> HIDE DEF x, q, new, c
  <2>8. /\ ac'.ibuf = ac.ibuf /\ ac'.obuf = Append(ac.obuf, q)
        /\ ac'.replies = x.replies /\ ac'.flags = x.flags /\ x.replies \in Seq(Cb)
    BY <1>9, <2>5, <2>6 DEF Context
  <2>9. Due' = Due
    BY <1>1, <2>8 DEF Due
  <2>10. Asked' = Append(Asked, q)
    <3>1. \A a, b \in Seq(Sent) : a \o Append(b, q) = Append(a \o b, q)
      BY <2>4, AppendToBoth
    <3>2. link.toServer \in Seq(Sent) /\ ac.obuf \in Seq(Sent)
      BY DueAsked
    <3>3. link.toServer \o Append(ac.obuf, q) = Append(link.toServer \o ac.obuf, q)
      BY <3>1, <3>2, Zenon
    <3>4. QED BY <1>1, <2>8, <3>3 DEF Asked
  <2>11. Traced(Due, Append(Asked, q), next + 1, server, x.flags)
    BY <1>0, <1>7, <2>4, <2>6, <2>7, TracedSend
  <2>12. Traced(Due, Asked, next, server, ac.flags)'
    BY <1>1, <2>8, <2>9, <2>10, <2>11 DEF Traced
  <2>13. ASSUME Calm', "MONITORING" \notin ac'.flags
         PROVE  Confirmed(ac'.replies, Due', Asked', server', link'.state, ac'.flags)
    <3>1. Confirmed(ac.replies, Due, Asked, server, link.state, ac.flags)
      BY <1>5, <1>6, <2>6, <2>8, <2>13 DEF Waited
    <3>2. /\ \A j \in 1 .. Len(Asked) : Asked[j].kind # "unsubscribe"
          /\ \A j \in 1 .. Len(Due) : Due[j].kind # "unsubscribe"
      <4>1. \A i \in 1 .. next - 1 : script[i].kind # "unsubscribe"
        BY <1>5, <2>13
      <4>2. QED BY <1>7, <4>1 DEF Traced
    <3>3. \/ "SUBSCRIBED" \in x.flags
          \/ "SUBSCRIBED" \notin ac.flags /\ q.kind = "get" /\ Len(x.replies) = Len(ac.replies) + 1
      <4>1. CASE /\ c.kind = "get" /\ "SUBSCRIBED" \notin ac.flags
                 /\ x.replies = Append(ac.replies, new)
        <5>1. Len(x.replies) = Len(ac.replies) + 1
          BY <1>0, <2>4, <4>1, AppendProperties
        <5>2. QED BY <2>4, <4>1, <5>1
      <4>2. CASE c.kind = "unsubscribe" /\ x = ac
        BY <1>9, <4>2
      <4>3. CASE c.kind = "monitor"
        BY <2>6, <2>8, <2>13, <4>3
      <4>4. QED BY <2>6, <4>1, <4>2, <4>3
    <3>4. Confirmed(x.replies, Due, Append(Asked, q), server, link.state, x.flags)
      BY <1>0, <1>7, <2>4, <2>8, <3>1, <3>2, <3>3, ConfirmedSend
    <3>5. QED BY <1>1, <2>8, <2>9, <2>10, <3>4
  <2>14. QED BY <2>12, <2>13 DEF Waited
<1>10. QED BY <1>2, <1>8, <1>9

LEMMA LinedClose ==
  ASSUME TypeOK, Locks, Phases, Lined, Running, Close
  PROVE  Lined'
<1>0. /\ ac \in Context /\ crashed = "no" /\ "poller" \in Threads /\ "user" \in Threads
      /\ pc \in [Threads -> Places]
  BY DEF TypeOK, ContextType, ThreadType, Threads, Running
<1>1. /\ script' = script /\ next' = next /\ UNCHANGED <<freed, link, server>>
      /\ \/ UNCHANGED <<ac, pc>> /\ crashed' = "freed"
         \/ /\ ac' = [ac EXCEPT !.flags = @ \cup {"DISCONNECTING"}] /\ crashed' = crashed
            /\ \/ DisconnectsNow /\ Hold("user", "free")
               \/ pc' = pc
  BY Zenon DEF Close, user
<1>2. /\ ac'.replies = ac.replies /\ ac'.ibuf = ac.ibuf /\ ac'.obuf = ac.obuf
      /\ PubSub(ac'.flags) = PubSub(ac.flags)
  BY <1>0, <1>1 DEF Context, PubSub
<1>3. pc' = pc \/ (ac.replies = <<>> /\ pc' = [pc EXCEPT !["user"] = "free"])
  BY <1>1 DEF DisconnectsNow, Hold
<1>4. pc'["poller"] = pc["poller"] /\ (pc'["user"] = pc["user"] \/ ac.replies = <<>>)
  BY <1>0, <1>3
<1>5. Due' = Due /\ Asked' = Asked
  BY <1>1, <1>2 DEF Due, Asked
<1>6. QED BY <1>0, <1>1, <1>2, <1>4, <1>5, LinedQuiet

\* What the server answers.
LEMMA AnswerIs ==
  ASSUME NEW c \in Sent
  PROVE  /\ c.kind \in {"subscribe", "unsubscribe"} =>
              Answer(c).kind = c.kind /\ Answer(c).topic = c.topic
         /\ c.kind = "get" =>
              /\ Answer(c).id = c.id
              /\ Answer(c).kind = IF server.topics = {} THEN "status" ELSE "error"
<1>1. CASE c.kind = "subscribe"
  BY <1>1 DEF Answer, Reply
<1>2. CASE c.kind = "unsubscribe"
  BY <1>2 DEF Answer, Reply
<1>3. CASE c.kind = "get"
  <2>1. Answer(c) = Reply(IF server.topics = {} THEN "status" ELSE "error", c)
    BY <1>3 DEF Answer
  <2>2. QED BY <1>3, <2>1 DEF Reply
<1>4. QED BY <1>1, <1>2, <1>3

\* Three steps of the network, by what they do to the replies due and the commands asked.
LEMMA TellsIs ==
  ASSUME TypeOK, ServerTells
  PROVE  \E r \in Got :
           /\ ~server.full /\ Due' = Append(Due, r) /\ Asked' = Asked
           /\ link.state = "up" /\ link'.state = link.state
           /\ server'.topics = server.topics /\ (server'.feeds <=> server.feeds)
           /\ r.kind \in {"error", "garbage"} <=> server'.full
           /\ \/ r.kind = "message" /\ r.topic \in server.topics
              \/ r.kind = "status" /\ server.feeds
              \/ r.kind \in {"error", "garbage"} /\ next = 1
<1>0. link \in Link /\ server \in Server /\ ac' = ac
  BY Zenon DEF TypeOK, PeerType, ServerTells
<1> DEFINE Tells(r) == \/ r.kind = "message" /\ r.topic \in server.topics
                       \/ r.kind = "status" /\ server.feeds
                       \/ r.kind \in {"error", "garbage"} /\ next = 1
           News == {[kind |-> "message", id |-> 0, topic |-> t, left |-> 0] : t \in server.topics}
                \cup (IF server.feeds
                      THEN {[kind |-> "status", id |-> 0, topic |-> "", left |-> 0]} ELSE {})
                \cup (IF next = 1
                      THEN {[kind |-> k, id |-> 0, topic |-> "", left |-> 0]
                              : k \in {"error", "garbage"}}
                      ELSE {})
<1>1. /\ ~server.full /\ link.state = "up"
      /\ \E r : /\ link' = ServerSends(r)
                /\ server' = [server EXCEPT !.news = @ + 1, !.full = r.kind \in {"error", "garbage"}]
                /\ Tells(r) /\ r \in Got
  <2>1. /\ ~server.full /\ link.state = "up"
        /\ \E r \in News :
             /\ link' = ServerSends(r)
             /\ server' = [server EXCEPT !.news = @ + 1, !.full = r.kind \in {"error", "garbage"}]
    BY Zenon DEF ServerTells
  <2>2. ASSUME NEW t \in server.topics
        PROVE  LET r == [kind |-> "message", id |-> 0, topic |-> t, left |-> 0]
               IN Tells(r) /\ r \in Got
    <3>1. t \in Topics
      BY <1>0 DEF Server
    <3>2. QED BY <3>1 DEF Got
  <2>3. ASSUME server.feeds
        PROVE  LET r == [kind |-> "status", id |-> 0, topic |-> "", left |-> 0]
               IN Tells(r) /\ r \in Got
    BY <2>3 DEF Got, Topics
  <2>4. ASSUME NEW k \in {"error", "garbage"}, next = 1
        PROVE  LET r == [kind |-> k, id |-> 0, topic |-> "", left |-> 0]
               IN Tells(r) /\ r \in Got
    BY <2>4 DEF Got, Topics
  <2> HIDE DEF Tells
  <2>5. \A r \in News : Tells(r) /\ r \in Got
    BY <2>2, <2>3, <2>4
  <2> HIDE DEF News
  <2>6. QED BY <2>1, <2>5
<1>2. PICK r : /\ link' = ServerSends(r)
               /\ server' = [server EXCEPT !.news = @ + 1, !.full = r.kind \in {"error", "garbage"}]
               /\ Tells(r) /\ r \in Got
  BY <1>1
<1>3. Due' = Append(Due, r) /\ Asked' = Asked /\ link'.state = link.state
  <2>1. link'.toClient = Append(link.toClient, r) /\ link'.toServer = link.toServer
        /\ link'.state = link.state
    BY <1>0, <1>2 DEF ServerSends, Link
  <2>2. Due' = ac.ibuf \o Append(link.toClient, r)
    BY <1>0, <2>1 DEF Due
  <2>3. QED BY <1>0, <1>2, <2>1, <2>2, DueLast DEF Asked
<1>4. /\ server'.topics = server.topics /\ (server'.feeds <=> server.feeds)
      /\ r.kind \in {"error", "garbage"} <=> server'.full
  <2>1. CASE r.kind \in {"error", "garbage"}
    <3>1. server' = [server EXCEPT !.news = @ + 1, !.full = TRUE]
      <4>1. (r.kind \in {"error", "garbage"}) = TRUE
        BY <2>1
      <4>2. QED BY <1>2, <4>1, Zenon
    <3>2. QED BY <1>0, <2>1, <3>1 DEF Server
  <2>2. CASE ~(r.kind \in {"error", "garbage"})
    <3>1. server' = [server EXCEPT !.news = @ + 1, !.full = FALSE]
      <4>1. (r.kind \in {"error", "garbage"}) = FALSE
        BY <2>2
      <4>2. QED BY <1>2, <4>1, Zenon
    <3>2. QED BY <1>0, <2>2, <3>1 DEF Server
  <2>3. QED BY <2>1, <2>2
<1>5. QED BY <1>1, <1>2, <1>3, <1>4

LEMMA BreaksIs ==
  ASSUME TypeOK, Breaks
  PROVE  /\ UNCHANGED server /\ link'.state = "broken"
         /\ Due' \in Seq(Got) /\ Len(Due') <= Len(Due) /\ \A i \in 1 .. Len(Due') : Due'[i] = Due[i]
         /\ \E k \in Nat : /\ Len(Asked) = k + Len(Asked') /\ Asked' \in Seq(Sent)
                           /\ \A i \in 1 .. Len(Asked') : Asked'[i] = Asked[k + i]
<1> DEFINE k == Len(link.toServer)
<1>0. Due \in Seq(Got) /\ Asked \in Seq(Sent)
  BY DueAsked
<1>1. /\ UNCHANGED <<server, ac>>
      /\ \E lost \in BOOLEAN :
           link' = [state |-> "broken", toServer |-> <<>>,
                    toClient |-> IF lost THEN <<>> ELSE link.toClient]
  BY Zenon DEF Breaks
<1>2. /\ link'.state = "broken" /\ link'.toServer = <<>>
      /\ link'.toClient = <<>> \/ link'.toClient = link.toClient
  BY <1>1
<1>3. /\ ac.ibuf \in Seq(Got) /\ link.toClient \in Seq(Got)
      /\ link.toServer \in Seq(Sent) /\ ac.obuf \in Seq(Sent)
  BY DueAsked
<1>4. (Due' = Due \/ Due' = ac.ibuf) /\ Asked' = ac.obuf
  BY <1>1, <1>2, <1>3, ConcatEmptySeq DEF Due, Asked
<1>5. /\ Len(Due') <= Len(Due) /\ \A i \in 1 .. Len(Due') : Due'[i] = Due[i]
      /\ Due' \in Seq(Got)
  <2>1. /\ Len(Due) \in Nat /\ Len(ac.ibuf) \in Nat /\ Len(link.toClient) \in Nat
    BY <1>0, <1>3, LenProperties
  <2>2. /\ Len(Due) = Len(ac.ibuf) + Len(link.toClient)
        /\ \A i \in 1 .. Len(ac.ibuf) + Len(link.toClient) :
             Due[i] = IF i <= Len(ac.ibuf) THEN ac.ibuf[i] ELSE link.toClient[i - Len(ac.ibuf)]
    BY <1>3, ConcatProperties DEF Due
  <2> DEFINE n == Len(ac.ibuf)
             m == Len(link.toClient)
  <2>3. /\ n \in Nat /\ m \in Nat /\ Len(Due) = n + m
        /\ \A i \in 1 .. n + m : i <= n => Due[i] = ac.ibuf[i]
    BY <2>1, <2>2
  <2> HIDE DEF n, m
  <2>4. n <= Len(Due) /\ \A i \in 1 .. n : ac.ibuf[i] = Due[i]
    BY <2>3
  <2>5. CASE Due' = Due
    BY <1>0, <2>1, <2>5
  <2>6. CASE Due' = ac.ibuf
    BY <1>3, <2>4, <2>6 DEF n
  <2>7. QED BY <1>4, <2>5, <2>6
<1>6. /\ k \in Nat /\ Len(Asked) = k + Len(Asked') /\ Asked' \in Seq(Sent)
      /\ \A i \in 1 .. Len(Asked') : Asked'[i] = Asked[k + i]
  <2>1. k \in Nat /\ Len(ac.obuf) \in Nat
    BY <1>3, LenProperties
  <2>2. /\ Len(Asked) = k + Len(ac.obuf)
        /\ \A i \in 1 .. k + Len(ac.obuf) :
             Asked[i] = IF i <= k THEN link.toServer[i] ELSE ac.obuf[i - k]
    BY <1>3, ConcatProperties DEF Asked
  <2> DEFINE m == Len(ac.obuf)
  <2>3. /\ k \in Nat /\ m \in Nat
        /\ \A i \in 1 .. k + m : ~(i <= k) => Asked[i] = ac.obuf[i - k]
    BY <2>1, <2>2
  <2> HIDE DEF k, m
  <2>4. ASSUME NEW i \in 1 .. m PROVE ac.obuf[i] = Asked[k + i]
    <3>1. k + i \in 1 .. k + m /\ ~(k + i <= k) /\ (k + i) - k = i
      BY <2>3
    <3>2. Asked[k + i] = ac.obuf[(k + i) - k]
      BY <2>3, <3>1
    <3>3. QED BY <3>1, <3>2
  <2>5. QED BY <1>3, <1>4, <2>2, <2>3, <2>4 DEF m
<1> HIDE DEF k
<1>7. QED BY <1>1, <1>2, <1>5, <1>6

LEMMA ReadsIs ==
  ASSUME TypeOK, ServerReads
  PROVE  /\ link.state = "up" /\ ~server.full /\ Asked # <<>> /\ link'.state = link.state
         /\ Asked' = Tail(Asked) /\ Asked[1] \in Sent
         /\ Answer(Asked[1]) \in Got /\ Due' = Append(Due, Answer(Asked[1]))
         /\ server'.topics = CASE Asked[1].kind = "subscribe" -> server.topics \cup {Asked[1].topic}
                               [] Asked[1].kind = "unsubscribe" -> server.topics \ {Asked[1].topic}
                               [] OTHER -> server.topics
         /\ server'.full <=> server.full
         /\ server'.feeds <=> (server.feeds \/ Asked[1].kind = "monitor")
<1> DEFINE c == Head(link.toServer)
           r == Answer(c)
<1>0. link \in Link /\ server \in Server /\ ac' = ac
  BY Zenon DEF TypeOK, PeerType, ServerReads
<1>1. /\ link.state = "up" /\ link.toServer # <<>> /\ ~server.full
      /\ link' = [ServerSends(Answer(c)) EXCEPT !.toServer = Tail(@)]
      /\ server' = [server EXCEPT
           !.topics = CASE c.kind = "subscribe" -> @ \cup {c.topic}
                        [] c.kind = "unsubscribe" -> @ \ {c.topic}
                        [] OTHER -> @,
           !.feeds = @ \/ c.kind = "monitor"]
  BY Zenon DEF ServerReads
<1>2. /\ c = Asked[1] /\ Asked # <<>> /\ Tail(link.toServer) \o ac.obuf = Tail(Asked)
  BY <1>1, AskedHead
<1>3. c \in Sent /\ r \in Got
  <2>1. c \in Sent
    BY <1>1, DueAsked, TailOf
  <2> HIDE DEF c
  <2>2. QED BY <2>1, AnswerType DEF TypeOK
<1>4. /\ server'.topics = CASE c.kind = "subscribe" -> server.topics \cup {c.topic}
                            [] c.kind = "unsubscribe" -> server.topics \ {c.topic}
                            [] OTHER -> server.topics
      /\ server'.full <=> server.full
      /\ server'.feeds <=> (server.feeds \/ c.kind = "monitor")
  <2> HIDE DEF c
  <2>1. QED BY <1>0, <1>1 DEF Server
<1> HIDE DEF c
<1>5. Due' = Append(Due, r) /\ Asked' = Tail(Asked) /\ link'.state = link.state
  <2>1. /\ link'.toClient = Append(link.toClient, r) /\ link'.toServer = Tail(link.toServer)
        /\ link'.state = link.state
    BY <1>0, <1>1 DEF ServerSends, Link, r
  <2>2. Due' = ac.ibuf \o Append(link.toClient, r)
    BY <1>0, <2>1 DEF Due
  <2>3. Asked' = Tail(link.toServer) \o ac.obuf
    BY <1>0, <2>1 DEF Asked
  <2> HIDE DEF r
  <2>4. QED BY <1>2, <1>3, <2>1, <2>2, <2>3, DueLast
<1>6. QED BY <1>1, <1>2, <1>3, <1>4, <1>5

LEMMA LinedNetwork ==
  ASSUME TypeOK, Lined, Running, Network \/ ServerReads
  PROVE  Lined'
<1>0. /\ link \in Link /\ server \in Server /\ IsFiniteSet(server.topics) /\ crashed = "no"
      /\ ac.replies \in Seq(Cb) /\ Len(ac.replies) \in Nat
      /\ Due \in Seq(Got) /\ Asked \in Seq(Sent)
  BY DueAsked DEF TypeOK, PeerType, Running
<1>1. script' = script /\ next' = next /\ UNCHANGED <<ac, freed, pc, crashed>>
  BY Zenon DEF Network, ServerReads, Established, ServerTells, Breaks, user
<1>2. /\ Fresh' /\ UserEnds' /\ Calm' = Calm /\ crashed' # "assert"
  BY <1>0, <1>1 DEF Lined, Fresh, UserEnds, Calm
<1>3. SUFFICES ASSUME ~freed, pc["poller"] \notin Ending, Waited PROVE Waited'
  BY <1>1, <1>2 DEF Lined
<1>4. Traced(Due, Asked, next, server, ac.flags)
  BY <1>3 DEF Waited
<1>5. SUFFICES /\ Traced(Due', Asked', next, server', ac.flags)
               /\ \/ "MONITORING" \in ac.flags
                  \/ Confirmed(ac.replies, Due, Asked, server, link.state, ac.flags)
                       => Confirmed(ac.replies, Due', Asked', server', link'.state, ac.flags)
  <2>1. ASSUME Traced(Due', Asked', next, server', ac.flags)
        PROVE  Traced(Due, Asked, next, server, ac.flags)'
    BY <1>1, <2>1 DEF Traced
  <2>2. QED BY <1>1, <1>2, <1>3, <2>1 DEF Waited
<1>6. CASE \E up \in BOOLEAN : Established(up)
  <2>1. /\ link.state = "connecting" /\ server' = server
        /\ \E s \in {"up", "refused"} : link' = [link EXCEPT !.state = s]
    BY <1>6, Zenon DEF Established
  <2>2. Due' = Due /\ Asked' = Asked
    BY <1>0, <1>1, <2>1 DEF Due, Asked, Link
  <2>3. QED BY <1>4, <2>1, <2>2 DEF Confirmed
<1>7. CASE ServerTells
  <2>1. PICK r \in Got :
           /\ ~server.full /\ Due' = Append(Due, r) /\ Asked' = Asked
           /\ link.state = "up" /\ link'.state = link.state
           /\ server'.topics = server.topics /\ (server'.feeds <=> server.feeds)
           /\ r.kind \in {"error", "garbage"} <=> server'.full
           /\ \/ r.kind = "message" /\ r.topic \in server.topics
              \/ r.kind = "status" /\ server.feeds
              \/ r.kind \in {"error", "garbage"} /\ next = 1
    BY <1>7, TellsIs
  <2>2. r.kind # "unsubscribe"
    BY <2>1
  <2>3. Traced(Append(Due, r), Asked, next, server', ac.flags)
    BY <1>0, <1>4, <2>1, <2>2, TracedTells
  <2>4. ASSUME "MONITORING" \notin ac.flags,
               Confirmed(ac.replies, Due, Asked, server, link.state, ac.flags)
        PROVE  Confirmed(ac.replies, Append(Due, r), Asked, server', link.state, ac.flags)
    <3>1. ~server.feeds
      BY <1>4, <2>4 DEF Traced
    <3>2. \/ r.kind = "message" /\ server.topics # {} /\ ~server'.full
          \/ /\ r.kind \in {"error", "garbage"} /\ server'.full
             /\ Len(ac.replies) = 0 /\ "SUBSCRIBED" \notin ac.flags
      <4>1. CASE r.kind = "message" /\ r.topic \in server.topics
        BY <2>1, <4>1
      <4>2. CASE r.kind \in {"error", "garbage"} /\ next = 1
        <5>1. ac.replies = <<>> /\ "SUBSCRIBED" \notin ac.flags
          BY <4>2 DEF Lined, Fresh, PubSub
        <5>2. Len(ac.replies) = 0
          BY <5>1
        <5>3. QED BY <2>1, <4>2, <5>1, <5>2
      <4>3. QED BY <2>1, <3>1, <4>1, <4>2
    <3>3. QED BY <1>0, <2>1, <2>2, <2>4, <3>2, ConfirmedTells
  <2>5. QED BY <2>1, <2>3, <2>4
<1>8. CASE Breaks
  <2>1. /\ UNCHANGED server /\ link'.state = "broken"
        /\ Due' \in Seq(Got) /\ Len(Due') <= Len(Due) /\ \A i \in 1 .. Len(Due') : Due'[i] = Due[i]
        /\ \E k \in Nat : /\ Len(Asked) = k + Len(Asked') /\ Asked' \in Seq(Sent)
                          /\ \A i \in 1 .. Len(Asked') : Asked'[i] = Asked[k + i]
    BY <1>8, BreaksIs
  <2>2. Traced(Due', Asked', next, server, ac.flags)
    BY <1>0, <1>4, <2>1, TracedCut
  <2>3. ASSUME Confirmed(ac.replies, Due, Asked, server, link.state, ac.flags)
        PROVE  Confirmed(ac.replies, Due', Asked', server, "broken", ac.flags)
    BY <1>0, <2>1, <2>3, ConfirmedCut
  <2>4. QED BY <2>1, <2>2, <2>3
<1>9. CASE ServerReads
  <2> DEFINE c == Asked[1]
             r == Answer(c)
             after == CASE c.kind = "subscribe" -> server.topics \cup {c.topic}
                        [] c.kind = "unsubscribe" -> server.topics \ {c.topic}
                        [] OTHER -> server.topics
  <2>1. /\ link.state = "up" /\ ~server.full /\ Asked # <<>> /\ link'.state = link.state
        /\ Asked' = Tail(Asked) /\ c \in Sent /\ r \in Got /\ Due' = Append(Due, r)
        /\ server'.topics = after /\ (server'.full <=> server.full)
        /\ server'.feeds <=> (server.feeds \/ c.kind = "monitor")
    BY <1>9, ReadsIs
  <2>2. /\ r.kind = "unsubscribe" => c.kind = "unsubscribe" /\ r.id = c.id
        /\ r.kind = "unsubscribe" /\ r.left = 0 => after = {}
    <3> HIDE DEF c
    <3>1. CASE c.kind = "subscribe"
      BY <3>1 DEF Answer, Reply
    <3>2. CASE c.kind = "unsubscribe"
      <4>1. r = [kind |-> "unsubscribe", id |-> c.id, topic |-> c.topic,
                 left |-> Cardinality(server.topics \ {c.topic})]
        BY <3>2 DEF Answer, Reply
      <4>2. after = server.topics \ {c.topic} /\ IsFiniteSet(server.topics \ {c.topic})
        BY <1>0, <3>2, FS_RemoveElement
      <4>3. Cardinality(server.topics \ {c.topic}) = 0 => server.topics \ {c.topic} = {}
        BY <4>2, FS_EmptySet
      <4>4. QED BY <3>2, <4>1, <4>2, <4>3
    <3>3. CASE c.kind \in {"get", "monitor"}
      <4>1. r = Reply(IF server.topics = {} THEN "status" ELSE "error", c)
        BY <3>3 DEF Answer
      <4>2. r.kind = "status" \/ r.kind = "error"
        BY <4>1 DEF Reply
      <4>3. QED BY <4>2
    <3>4. QED BY <2>1, <3>1, <3>2, <3>3 DEF Sent, Kinds
  <2>3. c.kind = "get" /\ server.topics = {} => after = {}
    BY DEF Sent
  <2> HIDE DEF r, after
  <2>4. Traced(Append(Due, r), Tail(Asked), next, server', ac.flags)
    BY <1>0, <1>4, <2>1, <2>2, TracedReads
  <2>5. ASSUME Confirmed(ac.replies, Due, Asked, server, link.state, ac.flags)
        PROVE  Confirmed(ac.replies, Append(Due, r), Tail(Asked), server', link.state, ac.flags)
    BY <1>0, <2>1, <2>2, <2>3, <2>5, ConfirmedReads
  <2>6. QED BY <2>1, <2>4, <2>5
<1>10. QED BY <1>6, <1>7, <1>8, <1>9 DEF Network

LEMMA LinedStep == TypeOK /\ Locks /\ Phases /\ Lined /\ [Next]_vars => Lined'
<1> SUFFICES ASSUME TypeOK, Locks, Phases, Lined, [Next]_vars PROVE Lined'
  OBVIOUS
<1>1. CASE UNCHANGED vars
  <2>1. Due' = Due /\ Asked' = Asked
    BY <1>1 DEF vars, Due, Asked
  <2>2. QED BY <1>1, <2>1, LinedQuiet DEF vars, Lined
<1>2. CASE Running /\ Poll
  BY <1>2, LinedPoll, LinedReply
<1>3. ASSUME Running, NEW t \in Threads, Both(t) PROVE Lined'
  BY <1>3, LinedBoth
<1>4. CASE Running /\ User
  BY <1>4, LinedCommand, LinedClose DEF User
<1>5. CASE Running /\ (Network \/ ServerReads)
  BY <1>5, LinedNetwork
<1>6. QED BY <1>1, <1>2, <1>3, <1>4, <1>5 DEF Next

LEMMA FaultsAre == TypeOK /\ Phases /\ Answered /\ Lined => FaultsOnlyThen
<1> SUFFICES ASSUME TypeOK, Phases, Answered, Lined PROVE FaultsOnlyThen
  OBVIOUS
<1>1. crashed = "freed" => hasty \/ pc["poller"] = "write"
  BY DEF Phases
<1>2. crashed = "assert" => \E i \in 1 .. next - 2 : script[i].kind = "unsubscribe"
  BY DEF Lined, Calm
<1>3. crashed = "empty" => ~Plain
  BY DEF Answered, PlainEnd
<1>4. QED BY <1>1, <1>2, <1>3 DEF FaultsOnlyThen

\* What goes wrong goes wrong only then: a freed context is touched only after a Close
\* outside a callback for a reply, or by the write handler of the event whose read
\* handler freed it; the assertion of redisProcessCallbacks fails only when a command was
\* sent after an unsubscribe; getCallback finds no function only with pub/sub or a monitor
\* (RedisCli.cpp, async.c).
THEOREM FaultsHaveTheseCauses == Spec => []FaultsOnlyThen
<1>1. Spec => [](TypeOK /\ Locks /\ Phases /\ Answered /\ Lined)
  BY TypeInit, TypeStep, PhasesInit, PhasesStep, AnsweredInit, AnsweredStep,
     LinedInit, LinedStep, PTL DEF Spec
<1>2. QED BY <1>1, FaultsAre, PTL DEF Spec

-----------------------------------------------------------------------------
(* Whose reply a callback gets, while commands and pub/sub are mixed.          *)

Heard == {"subscribe", "unsubscribe", "message"}

\* Every topic spoken of has its callback; of a topic that is left nothing follows.
Known(topics, due, asked, srv) ==
  /\ srv.topics \subseteq topics
  /\ \A j \in 1 .. Len(asked) :
       asked[j].kind \in {"subscribe", "unsubscribe"} => asked[j].topic \in topics
  /\ \A j \in 1 .. Len(due) : due[j].kind \in Heard => due[j].topic \in topics
  /\ \A p \in 1 .. Len(due) : due[p].kind = "unsubscribe" =>
       /\ asked = <<>> /\ due[p].topic \notin srv.topics
       /\ \A q \in p + 1 .. Len(due) : due[q].kind \in Heard => due[q].topic # due[p].topic

LEMMA KnownReads ==
  ASSUME NEW topics, NEW due \in Seq(Got), NEW asked \in Seq(Sent), NEW srv,
         Known(topics, due, asked, srv), asked # <<>>, NEW r \in Got, NEW srv2,
         \A j \in 1 .. Len(asked) : asked[j].kind = "unsubscribe" => j = Len(asked),
         \/ /\ asked[1].kind = "subscribe" /\ r.kind = "subscribe" /\ r.topic = asked[1].topic
            /\ srv2.topics = srv.topics \cup {r.topic}
         \/ /\ asked[1].kind = "unsubscribe" /\ r.kind = "unsubscribe" /\ r.topic = asked[1].topic
            /\ srv2.topics = srv.topics \ {r.topic}
         \/ /\ asked[1].kind \notin {"subscribe", "unsubscribe"} /\ r.kind \notin Heard
            /\ srv2.topics = srv.topics
  PROVE  Known(topics, Append(due, r), Tail(asked), srv2)
<1> DEFINE d == Append(due, r)
           a == Tail(asked)
<1>1. /\ a \in Seq(Sent) /\ Len(asked) \in Nat /\ Len(asked) >= 1 /\ Len(a) = Len(asked) - 1
      /\ \A i \in 1 .. Len(a) : i + 1 \in 1 .. Len(asked) /\ a[i] = asked[i + 1]
  BY TailOf
<1>2. /\ Len(due) \in Nat /\ Len(d) = Len(due) + 1
      /\ \A i \in 1 .. Len(d) : \/ i = Len(due) + 1 /\ d[i] = r
                                \/ i \in 1 .. Len(due) /\ d[i] = due[i]
  BY LastOf, OneMore
<1> SUFFICES Known(topics, d, a, srv2)
  OBVIOUS
<1> HIDE DEF d, a
<1>3. r.kind \in Heard => r.topic \in topics
  BY <1>1 DEF Known, Heard
<1>4. srv2.topics \subseteq topics
  BY <1>3 DEF Known, Heard
<1>5. \A j \in 1 .. Len(a) : a[j].kind \in {"subscribe", "unsubscribe"} => a[j].topic \in topics
  BY <1>1 DEF Known
<1>6. \A j \in 1 .. Len(d) : d[j].kind \in Heard => d[j].topic \in topics
  BY <1>2, <1>3 DEF Known
<1>7. ASSUME NEW p \in 1 .. Len(d), d[p].kind = "unsubscribe"
      PROVE  /\ a = <<>> /\ d[p].topic \notin srv2.topics
             /\ \A q \in p + 1 .. Len(d) : d[q].kind \in Heard => d[q].topic # d[p].topic
  <2>1. p = Len(due) + 1 /\ d[p] = r
    BY <1>2, <1>7 DEF Known
  <2>2. asked[1].kind = "unsubscribe" /\ srv2.topics = srv.topics \ {r.topic}
    BY <1>7, <2>1 DEF Heard
  <2>3. Len(asked) = 1
    BY <1>1, <2>2
  <2>4. a = <<>>
    BY <1>1, <2>3, EmptySeq
  <2>5. \A q \in p + 1 .. Len(d) : FALSE
    BY <1>2, <2>1
  <2>6. QED BY <2>1, <2>2, <2>4, <2>5
<1>8. QED BY <1>4, <1>5, <1>6, <1>7 DEF Known

LEMMA KnownTake ==
  ASSUME NEW topics, NEW due \in Seq(Got), NEW asked \in Seq(Sent), NEW srv,
         Known(topics, due, asked, srv), due # <<>>, NEW topics2,
         \/ topics2 = topics
         \/ due[1].kind = "unsubscribe" /\ topics2 = topics \ {due[1].topic}
  PROVE  Known(topics2, Tail(due), asked, srv)
<1> DEFINE d == Tail(due)
<1>1. /\ Len(due) \in Nat /\ Len(due) >= 1 /\ Len(d) = Len(due) - 1
      /\ \A i \in 1 .. Len(d) : i + 1 \in 1 .. Len(due) /\ d[i] = due[i + 1]
  BY TailOf
<1> SUFFICES Known(topics2, d, asked, srv)
  OBVIOUS
<1> HIDE DEF d
<1>2. ASSUME NEW p \in 1 .. Len(d), d[p].kind = "unsubscribe"
      PROVE  /\ asked = <<>> /\ d[p].topic \notin srv.topics
             /\ \A q \in p + 1 .. Len(d) : d[q].kind \in Heard => d[q].topic # d[p].topic
  <2>1. /\ asked = <<>> /\ due[p + 1].topic \notin srv.topics
        /\ \A q \in p + 2 .. Len(due) : due[q].kind \in Heard => due[q].topic # due[p + 1].topic
    BY <1>1, <1>2 DEF Known
  <2>2. \A q \in p + 1 .. Len(d) : q + 1 \in p + 2 .. Len(due) /\ d[q] = due[q + 1]
    BY <1>1
  <2>3. QED BY <1>1, <2>1, <2>2
<1>3. CASE topics2 = topics
  BY <1>1, <1>2, <1>3 DEF Known
<1>4. CASE due[1].kind = "unsubscribe" /\ topics2 = topics \ {due[1].topic}
  <2>1. /\ asked = <<>> /\ due[1].topic \notin srv.topics
        /\ \A q \in 2 .. Len(due) : due[q].kind \in Heard => due[q].topic # due[1].topic
    BY <1>1, <1>4 DEF Known
  <2>2. \A j \in 1 .. Len(d) : d[j].kind \in Heard => d[j].topic \in topics2
    <3>1. \A j \in 1 .. Len(d) : j + 1 \in 2 .. Len(due)
      BY <1>1
    <3>2. QED BY <1>1, <1>4, <2>1, <3>1 DEF Known
  <2>3. \A j \in 1 .. Len(asked) : FALSE
    BY <2>1
  <2>4. srv.topics \subseteq topics2
    BY <1>4, <2>1 DEF Known
  <2>5. QED BY <1>2, <2>2, <2>3, <2>4 DEF Known
<1>5. QED BY <1>3, <1>4

LEMMA KnownCut ==
  ASSUME NEW topics, NEW due \in Seq(Got), NEW asked \in Seq(Sent), NEW srv,
         Known(topics, due, asked, srv), NEW d \in Seq(Got), NEW a \in Seq(Sent),
         Len(d) <= Len(due), \A i \in 1 .. Len(d) : d[i] = due[i],
         NEW k \in Nat, Len(asked) = k + Len(a), \A i \in 1 .. Len(a) : a[i] = asked[k + i]
  PROVE  Known(topics, d, a, srv)
<1>1. Len(due) \in Nat /\ Len(d) \in Nat /\ Len(a) \in Nat
  BY LenProperties
<1>2. /\ \A i \in 1 .. Len(d) : i \in 1 .. Len(due)
      /\ \A i \in 1 .. Len(a) : k + i \in 1 .. Len(asked)
  BY <1>1
<1>3. \A j \in 1 .. Len(a) : a[j].kind \in {"subscribe", "unsubscribe"} => a[j].topic \in topics
  BY <1>2 DEF Known
<1>4. \A j \in 1 .. Len(d) : d[j].kind \in Heard => d[j].topic \in topics
  BY <1>2 DEF Known
<1>5. ASSUME NEW p \in 1 .. Len(d), d[p].kind = "unsubscribe"
      PROVE  /\ a = <<>> /\ d[p].topic \notin srv.topics
             /\ \A q \in p + 1 .. Len(d) : d[q].kind \in Heard => d[q].topic # d[p].topic
  <2>1. /\ asked = <<>> /\ due[p].topic \notin srv.topics
        /\ \A q \in p + 1 .. Len(due) : due[q].kind \in Heard => due[q].topic # due[p].topic
    BY <1>2, <1>5 DEF Known
  <2>2. Len(a) = 0
    <3>1. Len(asked) = 0
      BY <2>1
    <3>2. \A m, n \in Nat : m + n = 0 => n = 0
      OBVIOUS
    <3>3. k + Len(a) = 0
      BY <3>1
    <3>4. QED BY <1>1, <3>2, <3>3
  <2>3. a = <<>>
    BY <2>2, EmptySeq
  <2>4. \A q \in p + 1 .. Len(d) : q \in p + 1 .. Len(due) /\ q \in 1 .. Len(d)
    BY <1>1
  <2>5. QED BY <2>1, <2>3, <2>4
<1>6. QED BY <1>3, <1>4, <1>5 DEF Known

LEMMA KnownTells ==
  ASSUME NEW topics, NEW due \in Seq(Got), NEW asked \in Seq(Sent), NEW srv,
         Known(topics, due, asked, srv), NEW r \in Got, NEW srv2, srv2.topics = srv.topics,
         r.kind # "unsubscribe", r.kind \in Heard => r.topic \in srv.topics
  PROVE  Known(topics, Append(due, r), asked, srv2)
<1> DEFINE d == Append(due, r)
<1>1. /\ Len(due) \in Nat /\ Len(d) = Len(due) + 1
      /\ \A i \in 1 .. Len(d) : \/ i = Len(due) + 1 /\ d[i] = r
                                \/ i \in 1 .. Len(due) /\ d[i] = due[i]
  BY LastOf, OneMore
<1> SUFFICES Known(topics, d, asked, srv2)
  OBVIOUS
<1> HIDE DEF d
<1>2. \A j \in 1 .. Len(d) : d[j].kind \in Heard => d[j].topic \in topics
  BY <1>1 DEF Known
<1>3. ASSUME NEW p \in 1 .. Len(d), d[p].kind = "unsubscribe"
      PROVE  /\ asked = <<>> /\ d[p].topic \notin srv2.topics
             /\ \A q \in p + 1 .. Len(d) : d[q].kind \in Heard => d[q].topic # d[p].topic
  <2>1. p \in 1 .. Len(due) /\ d[p] = due[p]
    BY <1>1, <1>3
  <2>2. /\ asked = <<>> /\ due[p].topic \notin srv.topics
        /\ \A q \in p + 1 .. Len(due) : due[q].kind \in Heard => due[q].topic # due[p].topic
    BY <1>3, <2>1 DEF Known
  <2>3. \A q \in p + 1 .. Len(d) : \/ d[q] = r
                                   \/ q \in p + 1 .. Len(due) /\ d[q] = due[q]
    <3>1. \A q \in p + 1 .. Len(d) : q \in 1 .. Len(d)
      BY <1>1
    <3>2. \A q \in p + 1 .. Len(d) : q \in 1 .. Len(due) => q \in p + 1 .. Len(due)
      BY <1>1
    <3>3. QED BY <1>1, <3>1, <3>2
  <2>4. QED BY <2>1, <2>2, <2>3
<1>4. QED BY <1>2, <1>3 DEF Known

LEMMA KnownSend ==
  ASSUME NEW topics, NEW due \in Seq(Got), NEW asked \in Seq(Sent), NEW srv,
         Known(topics, due, asked, srv), NEW q \in Sent, NEW topics2, topics \subseteq topics2,
         q.kind \in {"subscribe", "unsubscribe"} => q.topic \in topics2,
         \A j \in 1 .. Len(due) : due[j].kind # "unsubscribe"
  PROVE  Known(topics2, due, Append(asked, q), srv)
<1> DEFINE a == Append(asked, q)
<1>1. \A i \in 1 .. Len(a) : \/ i = Len(asked) + 1 /\ a[i] = q
                             \/ i \in 1 .. Len(asked) /\ a[i] = asked[i]
  BY OneMore
<1> SUFFICES Known(topics2, due, a, srv)
  OBVIOUS
<1> HIDE DEF a
<1>2. \A j \in 1 .. Len(a) : a[j].kind \in {"subscribe", "unsubscribe"} => a[j].topic \in topics2
  BY <1>1 DEF Known
<1>3. QED BY <1>2 DEF Known

\* The first replies due, and the first commands after them, are those of the callbacks
\* in line; what comes later is of pub/sub, or was asked of a subscribed server.
Matched(list, due, asked, srv, state) ==
  /\ srv.full => \A i \in 1 .. Len(due) : due[i].kind \in {"error", "garbage"}
  /\ ~srv.full => \A i \in 1 .. Len(due) :
       /\ i <= Len(list) => due[i].kind = "status" /\ due[i].id = list[i].id
       /\ i > Len(list) => due[i].kind \in Heard \cup {"error"}
  /\ ~srv.full /\ state # "broken" =>
       /\ Len(list) <= Len(due) + Len(asked)
       /\ \A j \in 1 .. Len(asked) :
            /\ Len(due) + j <= Len(list) =>
                 asked[j].kind = "get" /\ asked[j].id = list[Len(due) + j].id /\ srv.topics = {}
            /\ Len(due) + j > Len(list) /\ asked[j].kind = "get" =>
                 srv.topics # {} \/ \E k \in 1 .. j - 1 : asked[k].kind = "subscribe"

LEMMA MatchedReads ==
  ASSUME NEW list \in Seq(Cb), NEW due \in Seq(Got), NEW asked \in Seq(Sent), NEW srv, NEW state,
         Matched(list, due, asked, srv, state), ~srv.full, state # "broken", asked # <<>>,
         \A j \in 1 .. Len(asked) : asked[j].kind = "unsubscribe" => j = Len(asked),
         NEW r \in Got, NEW srv2, ~srv2.full,
         \/ /\ asked[1].kind = "get" /\ srv2.topics = srv.topics /\ r.id = asked[1].id
            /\ srv.topics = {} => r.kind = "status"
            /\ srv.topics # {} => r.kind = "error"
         \/ asked[1].kind = "subscribe" /\ r.kind = "subscribe" /\ srv2.topics # {}
         \/ asked[1].kind = "unsubscribe" /\ r.kind = "unsubscribe"
  PROVE  Matched(list, Append(due, r), Tail(asked), srv2, state)
<1> DEFINE d == Append(due, r)
           a == Tail(asked)
<1>1. /\ Len(asked) \in Nat /\ Len(asked) >= 1 /\ Len(a) = Len(asked) - 1
      /\ \A i \in 1 .. Len(a) : i + 1 \in 1 .. Len(asked) /\ a[i] = asked[i + 1]
  BY TailOf
<1>2. /\ Len(due) \in Nat /\ Len(d) = Len(due) + 1 /\ Len(list) \in Nat
      /\ \A i \in 1 .. Len(d) : \/ i = Len(due) + 1 /\ d[i] = r
                                \/ i \in 1 .. Len(due) /\ d[i] = due[i]
  BY LastOf, OneMore, LenProperties
<1> SUFFICES Matched(list, d, a, srv2, state)
  OBVIOUS
<1> HIDE DEF d, a
<1>3. /\ Len(list) <= Len(due) + Len(asked)
      /\ Len(due) + 1 <= Len(list) =>
           asked[1].kind = "get" /\ asked[1].id = list[Len(due) + 1].id /\ srv.topics = {}
      /\ Len(due) + 1 > Len(list) /\ asked[1].kind = "get" => srv.topics # {}
  <2>1. 1 \in 1 .. Len(asked) /\ \A k \in 1 .. 1 - 1 : FALSE
    BY <1>1
  <2>2. QED BY <2>1 DEF Matched
<1>4. /\ Len(due) + 1 <= Len(list) => r.kind = "status" /\ r.id = list[Len(due) + 1].id
      /\ Len(due) + 1 > Len(list) => r.kind \in Heard \cup {"error"}
  BY <1>3 DEF Heard
<1>5. \A i \in 1 .. Len(d) :
        /\ i <= Len(list) => d[i].kind = "status" /\ d[i].id = list[i].id
        /\ i > Len(list) => d[i].kind \in Heard \cup {"error"}
  BY <1>2, <1>4 DEF Matched
<1>6. Len(list) <= Len(d) + Len(a)
  BY <1>1, <1>2, <1>3
<1>7. ASSUME NEW j \in 1 .. Len(a), Len(d) + j <= Len(list)
      PROVE  a[j].kind = "get" /\ a[j].id = list[Len(d) + j].id /\ srv2.topics = {}
  <2>1. /\ Len(due) + (j + 1) <= Len(list) /\ Len(due) + (j + 1) = Len(d) + j
        /\ Len(due) + 1 <= Len(list)
    BY <1>1, <1>2, <1>7
  <2>2. asked[j + 1].kind = "get" /\ asked[j + 1].id = list[Len(d) + j].id /\ srv.topics = {}
    <3>1. asked[j + 1].kind = "get" /\ asked[j + 1].id = list[Len(due) + (j + 1)].id
          /\ srv.topics = {}
      BY <1>1, <2>1 DEF Matched
    <3>2. QED BY <2>1, <3>1
  <2>3. srv2.topics = srv.topics
    BY <1>3, <2>1
  <2>4. QED BY <1>1, <2>2, <2>3
<1>8. ASSUME NEW j \in 1 .. Len(a), Len(d) + j > Len(list), a[j].kind = "get"
      PROVE  srv2.topics # {} \/ \E k \in 1 .. j - 1 : a[k].kind = "subscribe"
  <2>1. Len(due) + (j + 1) > Len(list) /\ j + 1 \in 1 .. Len(asked)
    BY <1>1, <1>2, <1>8
  <2>2. srv.topics # {} \/ \E k \in 1 .. j + 1 - 1 : asked[k].kind = "subscribe"
    <3>1. \A i \in 1 .. Len(asked) : Len(due) + i > Len(list) /\ asked[i].kind = "get" =>
            srv.topics # {} \/ \E k \in 1 .. i - 1 : asked[k].kind = "subscribe"
      BY DEF Matched
    <3>2. asked[j + 1].kind = "get"
      BY <1>1, <1>8
    <3>3. QED BY <2>1, <3>1, <3>2
  <2>3. asked[1].kind # "unsubscribe"
    BY <1>1
  <2>4. CASE srv.topics # {}
    BY <2>3, <2>4
  <2>5. CASE \E k \in 1 .. j + 1 - 1 : asked[k].kind = "subscribe"
    <3>1. PICK k \in 1 .. j + 1 - 1 : asked[k].kind = "subscribe"
      BY <2>5
    <3>2. CASE k = 1
      BY <3>1, <3>2
    <3>3. CASE k # 1
      <4>1. k - 1 \in 1 .. j - 1 /\ k - 1 \in 1 .. Len(a) /\ (k - 1) + 1 = k
        BY <1>1, <3>3
      <4>2. a[k - 1] = asked[k]
        BY <1>1, <4>1
      <4>3. QED BY <3>1, <4>1, <4>2
    <3>4. QED BY <3>2, <3>3
  <2>6. QED BY <2>2, <2>4, <2>5
<1>9. QED BY <1>5, <1>6, <1>7, <1>8 DEF Matched

LEMMA MatchedTake ==
  ASSUME NEW list \in Seq(Cb), NEW due \in Seq(Got), NEW asked \in Seq(Sent), NEW srv, NEW state,
         Matched(list, due, asked, srv, state), due # <<>>, NEW list2,
         \/ list # <<>> /\ list2 = Tail(list)
         \/ list = <<>> /\ list2 = <<>>
  PROVE  Matched(list2, Tail(due), asked, srv, state)
<1> DEFINE d == Tail(due)
<1>1. /\ Len(due) \in Nat /\ Len(due) >= 1 /\ Len(d) = Len(due) - 1
      /\ \A i \in 1 .. Len(d) : i + 1 \in 1 .. Len(due) /\ d[i] = due[i + 1]
      /\ Len(list) \in Nat /\ Len(asked) \in Nat
  BY TailOf, LenProperties
<1> SUFFICES Matched(list2, d, asked, srv, state)
  OBVIOUS
<1> HIDE DEF d
<1>2. srv.full => \A i \in 1 .. Len(d) : d[i].kind \in {"error", "garbage"}
  BY <1>1 DEF Matched
<1>3. CASE list # <<>> /\ list2 = Tail(list)
  <2>1. /\ Len(list) >= 1 /\ Len(list2) = Len(list) - 1
        /\ \A i \in 1 .. Len(list2) : list2[i] = list[i + 1]
    BY <1>3, TailOf
  <2>2. ASSUME ~srv.full, NEW i \in 1 .. Len(d)
        PROVE  /\ i <= Len(list2) => d[i].kind = "status" /\ d[i].id = list2[i].id
               /\ i > Len(list2) => d[i].kind \in Heard \cup {"error"}
    <3>1. i + 1 \in 1 .. Len(due) /\ d[i] = due[i + 1]
      BY <1>1
    <3>2. /\ i + 1 <= Len(list) => d[i].kind = "status" /\ d[i].id = list[i + 1].id
          /\ i + 1 > Len(list) => d[i].kind \in Heard \cup {"error"}
      BY <2>2, <3>1 DEF Matched
    <3>3. i <= Len(list2) => i \in 1 .. Len(list2) /\ i + 1 <= Len(list)
      BY <1>1, <2>1
    <3>4. i > Len(list2) => i + 1 > Len(list)
      BY <1>1, <2>1
    <3>5. QED BY <2>1, <3>2, <3>3, <3>4
  <2>3. ASSUME ~srv.full, state # "broken", NEW j \in 1 .. Len(asked)
        PROVE  /\ Len(d) + j <= Len(list2) =>
                    asked[j].kind = "get" /\ asked[j].id = list2[Len(d) + j].id /\ srv.topics = {}
               /\ Len(d) + j > Len(list2) /\ asked[j].kind = "get" =>
                    srv.topics # {} \/ \E k \in 1 .. j - 1 : asked[k].kind = "subscribe"
    <3>1. /\ Len(due) + j <= Len(list) =>
               asked[j].kind = "get" /\ asked[j].id = list[Len(due) + j].id /\ srv.topics = {}
          /\ Len(due) + j > Len(list) /\ asked[j].kind = "get" =>
               srv.topics # {} \/ \E k \in 1 .. j - 1 : asked[k].kind = "subscribe"
      BY <2>3 DEF Matched
    <3>2. ASSUME Len(d) + j <= Len(list2)
          PROVE  Len(due) + j <= Len(list) /\ list2[Len(d) + j] = list[Len(due) + j]
      <4>1. /\ Len(d) + j \in 1 .. Len(list2) /\ (Len(d) + j) + 1 = Len(due) + j
            /\ Len(due) + j <= Len(list)
        BY <1>1, <2>1, <3>2
      <4>2. list2[Len(d) + j] = list[(Len(d) + j) + 1]
        BY <2>1, <4>1
      <4>3. QED BY <4>1, <4>2
    <3>3. Len(d) + j > Len(list2) => Len(due) + j > Len(list)
      BY <1>1, <2>1
    <3>4. QED BY <3>1, <3>2, <3>3
  <2>4. ~srv.full /\ state # "broken" => Len(list2) <= Len(d) + Len(asked)
    BY <1>1, <2>1 DEF Matched
  <2>5. QED BY <1>2, <2>2, <2>3, <2>4 DEF Matched
<1>4. CASE list = <<>> /\ list2 = <<>>
  <2>1. Len(list) = 0 /\ Len(list2) = 0
    BY <1>4
  <2>2. ASSUME ~srv.full, NEW i \in 1 .. Len(d)
        PROVE  ~(i <= Len(list2)) /\ d[i].kind \in Heard \cup {"error"}
    <3>1. i + 1 \in 1 .. Len(due) /\ d[i] = due[i + 1] /\ i + 1 > Len(list)
      BY <1>1, <2>1
    <3>2. QED BY <2>1, <2>2, <3>1 DEF Matched
  <2>3. ASSUME ~srv.full, state # "broken", NEW j \in 1 .. Len(asked)
        PROVE  /\ ~(Len(d) + j <= Len(list2))
               /\ asked[j].kind = "get" =>
                    srv.topics # {} \/ \E k \in 1 .. j - 1 : asked[k].kind = "subscribe"
    <3>1. Len(due) + j > Len(list) /\ ~(Len(d) + j <= Len(list2))
      BY <1>1, <2>1
    <3>2. QED BY <2>3, <3>1 DEF Matched
  <2>4. Len(list2) <= Len(d) + Len(asked)
    BY <1>1, <2>1
  <2>5. QED BY <1>2, <2>2, <2>3, <2>4 DEF Matched
<1>5. QED BY <1>3, <1>4

LEMMA MatchedCut ==
  ASSUME NEW list \in Seq(Cb), NEW due \in Seq(Got), NEW asked, NEW srv, NEW state,
         Matched(list, due, asked, srv, state), NEW d \in Seq(Got), NEW a,
         Len(d) <= Len(due), \A i \in 1 .. Len(d) : d[i] = due[i]
  PROVE  Matched(list, d, a, srv, "broken")
<1>1. Len(due) \in Nat /\ Len(d) \in Nat
  BY LenProperties
<1>2. \A i \in 1 .. Len(d) : i \in 1 .. Len(due)
  BY <1>1
<1>3. ASSUME srv.full, NEW i \in 1 .. Len(d) PROVE d[i].kind \in {"error", "garbage"}
  BY <1>2, <1>3 DEF Matched
<1>4. ASSUME ~srv.full, NEW i \in 1 .. Len(d)
      PROVE  /\ i <= Len(list) => d[i].kind = "status" /\ d[i].id = list[i].id
             /\ i > Len(list) => d[i].kind \in Heard \cup {"error"}
  <2>1. i \in 1 .. Len(due) /\ d[i] = due[i]
    BY <1>2
  <2>2. /\ i <= Len(list) => due[i].kind = "status" /\ due[i].id = list[i].id
        /\ i > Len(list) => due[i].kind \in Heard \cup {"error"}
    BY <1>4, <2>1 DEF Matched
  <2>3. QED BY <2>1, <2>2
<1>5. QED BY <1>3, <1>4 DEF Matched

LEMMA MatchedTells ==
  ASSUME NEW list \in Seq(Cb), NEW due \in Seq(Got), NEW asked \in Seq(Sent), NEW srv, NEW state,
         Matched(list, due, asked, srv, state), ~srv.full, state # "broken",
         NEW r \in Got, NEW srv2, srv2.topics = srv.topics,
         \/ r.kind = "message" /\ srv.topics # {} /\ ~srv2.full
         \/ r.kind \in {"error", "garbage"} /\ srv2.full /\ Len(due) = 0
  PROVE  Matched(list, Append(due, r), asked, srv2, state)
<1> DEFINE d == Append(due, r)
<1>1. /\ Len(due) \in Nat /\ Len(d) = Len(due) + 1 /\ Len(list) \in Nat /\ Len(asked) \in Nat
      /\ \A i \in 1 .. Len(d) : \/ i = Len(due) + 1 /\ d[i] = r
                                \/ i \in 1 .. Len(due) /\ d[i] = due[i]
  BY LastOf, OneMore, LenProperties
<1> SUFFICES Matched(list, d, asked, srv2, state)
  OBVIOUS
<1> HIDE DEF d
<1>2. CASE r.kind = "message" /\ srv.topics # {} /\ ~srv2.full
  <2>1. Len(list) <= Len(due)
    <3>1. /\ Len(list) <= Len(due) + Len(asked)
          /\ \A j \in 1 .. Len(asked) : ~(Len(due) + j <= Len(list))
      BY <1>2 DEF Matched
    <3>2. Len(due) + 1 <= Len(list) => 1 \in 1 .. Len(asked)
      BY <1>1, <3>1
    <3>3. QED BY <1>1, <3>1, <3>2
  <2>2. \A i \in 1 .. Len(d) :
          /\ i <= Len(list) => d[i].kind = "status" /\ d[i].id = list[i].id
          /\ i > Len(list) => d[i].kind \in Heard \cup {"error"}
    <3>1. Len(due) + 1 > Len(list) /\ r.kind \in Heard \cup {"error"}
      BY <1>1, <1>2, <2>1 DEF Heard
    <3>2. QED BY <1>1, <2>1, <3>1 DEF Matched
  <2>3. \A j \in 1 .. Len(asked) : ~(Len(d) + j <= Len(list))
    BY <1>1, <2>1
  <2>4. Len(list) <= Len(d) + Len(asked)
    BY <1>1, <2>1
  <2>5. QED BY <1>2, <2>2, <2>3, <2>4 DEF Matched
<1>3. CASE r.kind \in {"error", "garbage"} /\ srv2.full /\ Len(due) = 0
  <2>1. \A i \in 1 .. Len(d) : d[i] = r
    BY <1>1, <1>3
  <2>2. QED BY <1>3, <2>1 DEF Matched
<1>4. QED BY <1>2, <1>3

\* A plain command is in line, or was asked of a subscribed server.
LEMMA MatchedSend ==
  ASSUME NEW list \in Seq(Cb), NEW due \in Seq(Got), NEW asked \in Seq(Sent), NEW srv, NEW state,
         Matched(list, due, asked, srv, state), NEW q \in Sent, NEW list2 \in Seq(Cb),
         \/ /\ q.kind = "get" /\ srv.topics = {}
            /\ \E e \in Cb : e.id = q.id /\ list2 = Append(list, e)
            /\ ~srv.full => Len(due) <= Len(list)
            /\ ~srv.full /\ state # "broken" => Len(due) + Len(asked) <= Len(list)
         \/ /\ list2 = list
            /\ q.kind = "get" /\ ~srv.full /\ state # "broken" =>
                 srv.topics # {} \/ \E k \in 1 .. Len(asked) : asked[k].kind = "subscribe"
  PROVE  Matched(list2, due, Append(asked, q), srv, state)
<1> DEFINE a == Append(asked, q)
<1>1. /\ Len(asked) \in Nat /\ Len(a) = Len(asked) + 1
      /\ \A i \in 1 .. Len(a) : \/ i = Len(asked) + 1 /\ a[i] = q
                                \/ i \in 1 .. Len(asked) /\ a[i] = asked[i]
      /\ \A i \in 1 .. Len(asked) : a[i] = asked[i]
      /\ Len(due) \in Nat /\ Len(list) \in Nat
  BY LastOf, OneMore, LenProperties
<1> SUFFICES Matched(list2, due, a, srv, state)
  OBVIOUS
<1> HIDE DEF a
<1>2. CASE /\ q.kind = "get" /\ srv.topics = {}
           /\ \E e \in Cb : e.id = q.id /\ list2 = Append(list, e)
           /\ ~srv.full => Len(due) <= Len(list)
           /\ ~srv.full /\ state # "broken" => Len(due) + Len(asked) <= Len(list)
  <2>1. PICK e \in Cb : e.id = q.id /\ list2 = Append(list, e)
    BY <1>2
  <2>2. /\ Len(list2) = Len(list) + 1 /\ list2[Len(list) + 1] = e
        /\ \A i \in 1 .. Len(list) : list2[i] = list[i]
    BY <2>1, LastOf
  <2>3. ASSUME ~srv.full, NEW i \in 1 .. Len(due)
        PROVE  /\ i <= Len(list2) => due[i].kind = "status" /\ due[i].id = list2[i].id
               /\ i > Len(list2) => due[i].kind \in Heard \cup {"error"}
    <3>1. i <= Len(list) /\ i \in 1 .. Len(list) /\ i <= Len(list2)
      BY <1>1, <1>2, <2>2, <2>3
    <3>2. due[i].kind = "status" /\ due[i].id = list[i].id
      BY <2>3, <3>1 DEF Matched
    <3>3. QED BY <1>1, <2>2, <3>1, <3>2
  <2>4. ASSUME ~srv.full, state # "broken" PROVE Len(due) + Len(asked) = Len(list)
    BY <1>1, <1>2, <2>4 DEF Matched
  <2>5. ASSUME ~srv.full, state # "broken", NEW j \in 1 .. Len(a)
        PROVE  /\ Len(due) + j <= Len(list2)
               /\ a[j].kind = "get" /\ a[j].id = list2[Len(due) + j].id /\ srv.topics = {}
    <3>1. CASE j \in 1 .. Len(asked) /\ a[j] = asked[j]
      <4>1. Len(due) + j <= Len(list) /\ Len(due) + j \in 1 .. Len(list)
        BY <1>1, <2>4, <2>5, <3>1
      <4>2. asked[j].kind = "get" /\ asked[j].id = list[Len(due) + j].id
        BY <2>5, <3>1, <4>1 DEF Matched
      <4>3. list2[Len(due) + j] = list[Len(due) + j] /\ Len(due) + j <= Len(list2)
        BY <1>1, <2>2, <4>1
      <4>4. QED BY <1>2, <3>1, <4>2, <4>3
    <3>2. CASE j = Len(asked) + 1 /\ a[j] = q
      <4>1. Len(due) + j = Len(list) + 1
        BY <1>1, <2>4, <2>5, <3>2
      <4>2. list2[Len(due) + j] = e /\ Len(due) + j <= Len(list2)
        BY <1>1, <2>2, <4>1
      <4>3. QED BY <1>2, <2>1, <3>2, <4>2
    <3>3. QED BY <1>1, <3>1, <3>2
  <2>6. ASSUME ~srv.full, state # "broken" PROVE Len(list2) <= Len(due) + Len(a)
    BY <1>1, <2>2, <2>4, <2>6
  <2>7. ASSUME ~srv.full, state # "broken", NEW j \in 1 .. Len(a) PROVE ~(Len(due) + j > Len(list2))
    <3>1. Len(due) + j <= Len(list2)
      BY <2>5, <2>7
    <3>2. QED BY <1>1, <2>2, <3>1
  <2>8. srv.full => \A i \in 1 .. Len(due) : due[i].kind \in {"error", "garbage"}
    BY DEF Matched
  <2>9. QED BY <2>3, <2>5, <2>6, <2>7, <2>8 DEF Matched
<1>3. CASE /\ list2 = list
           /\ q.kind = "get" /\ ~srv.full /\ state # "broken" =>
                srv.topics # {} \/ \E k \in 1 .. Len(asked) : asked[k].kind = "subscribe"
  <2>1. ASSUME ~srv.full, state # "broken", NEW j \in 1 .. Len(a)
        PROVE  /\ Len(due) + j <= Len(list) =>
                    a[j].kind = "get" /\ a[j].id = list[Len(due) + j].id /\ srv.topics = {}
               /\ Len(due) + j > Len(list) /\ a[j].kind = "get" =>
                    srv.topics # {} \/ \E k \in 1 .. j - 1 : a[k].kind = "subscribe"
    <3>1. CASE j \in 1 .. Len(asked) /\ a[j] = asked[j]
      <4>1. \A k \in 1 .. j - 1 : a[k] = asked[k]
        BY <1>1, <3>1
      <4>2. /\ Len(due) + j <= Len(list) =>
                 asked[j].kind = "get" /\ asked[j].id = list[Len(due) + j].id /\ srv.topics = {}
            /\ Len(due) + j > Len(list) /\ asked[j].kind = "get" =>
                 srv.topics # {} \/ \E k \in 1 .. j - 1 : asked[k].kind = "subscribe"
        BY <2>1, <3>1 DEF Matched
      <4>3. QED BY <3>1, <4>1, <4>2
    <3>2. CASE j = Len(asked) + 1 /\ a[j] = q
      <4>1. ~(Len(due) + j <= Len(list)) /\ \A k \in 1 .. Len(asked) : k \in 1 .. j - 1
        BY <1>1, <2>1, <3>2 DEF Matched
      <4>2. QED BY <1>1, <1>3, <2>1, <3>2, <4>1
    <3>3. QED BY <1>1, <3>1, <3>2
  <2>2. ASSUME ~srv.full, state # "broken" PROVE Len(list) <= Len(due) + Len(a)
    BY <1>1, <2>2 DEF Matched
  <2>3. QED BY <1>3, <2>1, <2>2 DEF Matched
<1>4. QED BY <1>2, <1>3

\* While no topic is left, a context that is subscribed has a server that is, or that
\* is asked to be.
Subscribed(flags, asked, srv, state) ==
  "SUBSCRIBED" \in flags /\ ~srv.full /\ state # "broken" =>
    srv.topics # {} \/ \E j \in 1 .. Len(asked) : asked[j].kind = "subscribe"

LEMMA SubscribedReads ==
  ASSUME NEW flags, NEW asked \in Seq(Sent), NEW srv, NEW state, NEW srv2,
         Subscribed(flags, asked, srv, state), asked # <<>>, ~srv.full,
         asked[1].kind = "subscribe" => srv2.topics # {},
         asked[1].kind # "subscribe" => srv2.topics = srv.topics
  PROVE  Subscribed(flags, Tail(asked), srv2, state)
<1> DEFINE a == Tail(asked)
<1>1. /\ Len(asked) \in Nat /\ Len(asked) >= 1 /\ Len(a) = Len(asked) - 1
      /\ \A i \in 1 .. Len(a) : i + 1 \in 1 .. Len(asked) /\ a[i] = asked[i + 1]
  BY TailOf
<1> SUFFICES Subscribed(flags, a, srv2, state)
  OBVIOUS
<1> HIDE DEF a
<1>2. SUFFICES ASSUME "SUBSCRIBED" \in flags, state # "broken", srv2.topics = {}
               PROVE  \E j \in 1 .. Len(a) : a[j].kind = "subscribe"
  BY DEF Subscribed
<1>3. PICK j \in 1 .. Len(asked) : asked[j].kind = "subscribe"
  BY <1>2 DEF Subscribed
<1>4. j # 1
  BY <1>2, <1>3
<1>5. j - 1 \in 1 .. Len(a) /\ (j - 1) + 1 = j
  BY <1>1, <1>3, <1>4
<1>6. a[j - 1] = asked[j]
  BY <1>1, <1>5
<1>7. QED BY <1>3, <1>5, <1>6

LEMMA SubscribedSend ==
  ASSUME NEW flags, NEW asked \in Seq(Sent), NEW srv, NEW state,
         Subscribed(flags, asked, srv, state), NEW q \in Sent, NEW flags2,
         "SUBSCRIBED" \in flags2 => "SUBSCRIBED" \in flags \/ q.kind = "subscribe"
  PROVE  Subscribed(flags2, Append(asked, q), srv, state)
<1> DEFINE a == Append(asked, q)
<1>1. /\ Len(asked) \in Nat /\ Len(a) = Len(asked) + 1 /\ a[Len(a)] = q
      /\ \A i \in 1 .. Len(asked) : a[i] = asked[i]
  BY LastOf
<1> SUFFICES Subscribed(flags2, a, srv, state)
  OBVIOUS
<1> HIDE DEF a
<1>2. /\ Len(a) \in 1 .. Len(a)
      /\ \A i \in 1 .. Len(asked) : i \in 1 .. Len(a)
  BY <1>1
<1>3. CASE q.kind = "subscribe"
  BY <1>1, <1>2, <1>3 DEF Subscribed
<1>4. CASE q.kind # "subscribe"
  BY <1>1, <1>2, <1>4 DEF Subscribed
<1>5. QED BY <1>3, <1>4

\* No topic is left; and nothing else was done than what hiredis pairs: nothing after a
\* topic was left, only topics that were subscribed are left, and no monitor.
Quiet == \A i \in 1 .. next - 1 : script[i].kind # "unsubscribe"
Orderly ==
  /\ Calm /\ \A i \in 1 .. next - 1 : script[i].kind # "monitor"
  /\ \A i \in 1 .. next - 1 : script[i].kind = "unsubscribe" =>
       \E k \in 1 .. i - 1 : script[k].kind = "subscribe" /\ script[k].topic = script[i].topic

\* The callbacks in line and those of pub/sub are those of the replies to come.
Held ==
  \/ closed \/ "DISCONNECTING" \in ac.flags
  \/ \A k \in 1 .. next - 1 :
       script[k].kind = "subscribe" => script[k].topic \in DOMAIN ac.subs
Mine ==
  /\ Known(DOMAIN ac.subs, Due, Asked, server)
  /\ Matched(ac.replies, Due, Asked, server, link.state)
  /\ Quiet => Subscribed(ac.flags, Asked, server, link.state) /\ Held
MonitorTold == "MONITORING" \in ac.flags => \E i \in 1 .. next - 1 : script[i].kind = "monitor"
SubsOwn ==
  \A t \in DOMAIN ac.subs : ac.subs[t].id \in 1 .. next - 1 /\ script[ac.subs[t].id].topic = t
Owned ==
  /\ MonitorTold
  /\ Orderly /\ ~hasty => SubsOwn /\ OwnReply
  /\ Orderly /\ ~hasty /\ ~freed /\ pc["poller"] \notin Ending => Mine

LEMMA OwnedInit == Init => Owned
<1> SUFFICES ASSUME Init PROVE Owned
  OBVIOUS
<1>0. /\ ac.replies = <<>> /\ ac.flags = {} /\ ac.obuf = <<>> /\ ac.ibuf = <<>>
      /\ ac.subs = <<>> /\ calls = <<>> /\ next = 1
      /\ link.toServer = <<>> /\ link.toClient = <<>>
      /\ server.topics = {} /\ server.full = FALSE
  BY DEF Init
<1>1. Due = <<>> /\ Asked = <<>>
  <2>1. <<>> \o <<>> = <<>>
    BY ConcatEmptySeq, EmptySeq
  <2>2. QED BY <1>0, <2>1 DEF Due, Asked
<1>2. Len(<<>>) = 0 /\ DOMAIN <<>> = {}
  BY NoSubs
<1>3. Known(DOMAIN ac.subs, Due, Asked, server)
  BY <1>0, <1>1, <1>2 DEF Known
<1>4. Matched(ac.replies, Due, Asked, server, link.state)
  BY <1>0, <1>1, <1>2 DEF Matched
<1>5. Subscribed(ac.flags, Asked, server, link.state) /\ Held
  BY <1>0 DEF Subscribed, Held
<1>6. MonitorTold /\ SubsOwn /\ OwnReply
  BY <1>0, <1>2 DEF MonitorTold, SubsOwn, OwnReply
<1>7. QED BY <1>3, <1>4, <1>5, <1>6 DEF Owned, Mine

\* A step that leaves the callbacks, the replies and the commands, unless the user does
\* what hiredis does not pair, or the connection ends.
LEMMA OwnedQuiet ==
  ASSUME Owned, script' = script, next' = next, PubSub(ac'.flags) = PubSub(ac.flags),
         Orderly /\ ~hasty' =>
           /\ ~hasty /\ calls' = calls /\ ac'.subs = ac.subs /\ ac'.replies = ac.replies
           /\ closed \/ "DISCONNECTING" \in ac.flags => closed' \/ "DISCONNECTING" \in ac'.flags
           /\ \/ freed' \/ pc'["poller"] \in Ending
              \/ /\ ~freed /\ pc["poller"] \notin Ending
                 /\ Due' = Due /\ Asked' = Asked /\ server' = server /\ link'.state = link.state
  PROVE  Owned'
<1>1. /\ "MONITORING" \in ac'.flags <=> "MONITORING" \in ac.flags
      /\ "SUBSCRIBED" \in ac'.flags <=> "SUBSCRIBED" \in ac.flags
  BY DEF PubSub
<1>2. MonitorTold'
  BY <1>1 DEF Owned, MonitorTold
<1>3. Orderly' = Orderly /\ Quiet' = Quiet
  BY DEF Orderly, Calm, Quiet
<1>4. SUFFICES ASSUME Orderly, ~hasty'
               PROVE  /\ SubsOwn' /\ OwnReply'
                      /\ ~freed' /\ pc'["poller"] \notin Ending => Mine'
  BY <1>2, <1>3 DEF Owned
<1>5. SubsOwn /\ OwnReply
  BY <1>4 DEF Owned
<1>6. SubsOwn' /\ OwnReply'
  BY <1>4, <1>5 DEF SubsOwn, OwnReply
<1>7. ASSUME ~freed', pc'["poller"] \notin Ending PROVE Mine'
  <2>1. /\ Mine /\ Due' = Due /\ Asked' = Asked /\ server' = server /\ link'.state = link.state
    BY <1>4, <1>7 DEF Owned
  <2>2. Known(DOMAIN ac'.subs, Due', Asked', server')
    BY <1>4, <2>1 DEF Mine
  <2>3. Matched(ac'.replies, Due', Asked', server', link'.state)
    BY <1>4, <2>1 DEF Mine
  <2>4. ASSUME Quiet PROVE Subscribed(ac'.flags, Asked', server', link'.state) /\ Held'
    <3>1. Subscribed(ac.flags, Asked, server, link.state) /\ Held
      BY <2>1, <2>4 DEF Mine
    <3>2. Subscribed(ac'.flags, Asked, server, link.state)
      BY <1>1, <3>1 DEF Subscribed
    <3>3. Held'
      BY <1>4, <3>1 DEF Held
    <3>4. QED BY <2>1, <3>2, <3>3
  <2>5. QED BY <1>3, <2>2, <2>3, <2>4 DEF Mine
<1>8. QED BY <1>6, <1>7

LEMMA OwnedPoll ==
  ASSUME TypeOK, Locks, Owned, Running, Poll, ~ProcessReply
  PROVE  Owned'
<1>1. /\ PubSub(ac'.flags) = PubSub(ac.flags)
      /\ "MONITORING" \notin ac.flags => ListsKept
  BY PollLists
<1>2. /\ UNCHANGED server /\ link'.state = link.state
      /\ (Due' = Due /\ Asked' = Asked) \/ pc'["poller"] = "free"
  BY PollPairs
<1>3. PollEffect /\ Grows
  BY PollEffects, GrowsPoll
<1>4. script' = script /\ next' = next
  <2>1. UNCHANGED user
    BY Zenon DEF Poll, EpollWait, OnActive, HandleConnect, ConnectReturn, RefusedReturn,
                 HandleRead, HandleWrite, NoMoreReplies, BadReply, ProcessReply
  <2>2. QED BY <2>1 DEF user
<1>5. /\ closed' = closed /\ hasty' = hasty
      /\ "DISCONNECTING" \in ac.flags => "DISCONNECTING" \in ac'.flags
      /\ \/ freed' \/ pc'["poller"] \in Ending
         \/ /\ ~freed /\ pc["poller"] \notin Ending
            /\ Due' = Due /\ Asked' = Asked /\ server' = server /\ link'.state = link.state
  BY <1>2, <1>3 DEF PollEffect, Grows, Ending
<1>6. ASSUME Orderly PROVE ListsKept
  BY <1>1, <1>6 DEF Owned, Orderly, MonitorTold
<1>7. Orderly => calls' = calls /\ ac'.subs = ac.subs /\ ac'.replies = ac.replies
  BY <1>6 DEF ListsKept
<1>8. QED BY <1>1, <1>4, <1>5, <1>7, OwnedQuiet

\* The callback for a reply, and the callbacks of pub/sub without it.
LEMMA CallbackIs ==
  ASSUME NEW x \in Context, NEW r \in Got
  PROVE  LET z == CallbackFor(x, r)
         IN /\ x.replies # <<>> => z.cb = Head(x.replies) /\ z.ac.subs = x.subs
            /\ /\ x.replies = <<>> /\ "SUBSCRIBED" \in x.flags
               /\ r.kind \in Heard /\ r.topic \in DOMAIN x.subs
               => /\ z.cb = x.subs[r.topic]
                  /\ \/ r.kind = "unsubscribe" /\ z.ac.subs = Without(x.subs, r.topic)
                     \/ z.ac.subs = x.subs /\ z.ac.flags = x.flags
<1> DEFINE z == CallbackFor(x, r)
<1>1. CASE x.replies # <<>>
  <2>1. z.cb = Head(x.replies) /\ z.ac = [x EXCEPT !.replies = Tail(@)]
    BY <1>1 DEF CallbackFor
  <2> HIDE DEF z
  <2>2. z.ac.subs = x.subs
    BY <2>1 DEF Context
  <2>3. QED BY <1>1, <2>1, <2>2 DEF z
<1>2. CASE /\ x.replies = <<>> /\ "SUBSCRIBED" \in x.flags
           /\ r.kind \in Heard /\ r.topic \in DOMAIN x.subs
  <2>1. /\ z.cb = x.subs[r.topic]
        /\ \/ z.ac = x
           \/ /\ r.kind = "unsubscribe"
              /\ z.ac = [x EXCEPT !.subs = Without(@, r.topic),
                                  !.flags = IF r.left = 0 THEN @ \ {"SUBSCRIBED"} ELSE @]
    BY <1>2 DEF CallbackFor, GetSubscribeCallback, Heard
  <2> HIDE DEF z
  <2>2. \/ r.kind = "unsubscribe" /\ z.ac.subs = Without(x.subs, r.topic)
        \/ z.ac.subs = x.subs /\ z.ac.flags = x.flags
    BY <2>1 DEF Context
  <2>3. QED BY <1>2, <2>1, <2>2 DEF z
<1>3. CASE /\ x.replies = <<>>
           /\ ~(/\ "SUBSCRIBED" \in x.flags
                /\ r.kind \in Heard /\ r.topic \in DOMAIN x.subs)
  BY <1>3
<1>4. QED BY <1>1, <1>2, <1>3

\* One more reply is had.
LEMMA OwnReplyNext ==
  ASSUME OwnReply, calls \in Seq(Call), NEW e \in Call, script' = script, next' = next,
         calls' = Append(calls, e),
         e.got.kind = "status" => e.got.id = e.priv,
         e.got.kind \in Heard => script[e.priv].topic = e.got.topic
  PROVE  OwnReply'
<1>1. /\ DOMAIN calls = 1 .. Len(calls) /\ calls' \in Seq(Call)
      /\ DOMAIN calls' = 1 .. Len(calls')
      /\ \A i \in 1 .. Len(calls') : \/ i = Len(calls) + 1 /\ calls'[i] = e
                                     \/ i \in 1 .. Len(calls) /\ calls'[i] = calls[i]
  BY OneMore, LastOf, LenProperties
<1>2. ASSUME NEW i \in DOMAIN calls'
      PROVE  LET c == script[calls'[i].priv]
                 r == calls'[i].got
             IN CASE r.kind = "status" ->
                       r.id = calls'[i].priv \/ \E k \in 1 .. next - 1 : script[k].kind = "monitor"
                  [] r.kind \in {"subscribe", "unsubscribe", "message"} -> c.topic = r.topic
                  [] OTHER -> TRUE
  <2>1. CASE calls'[i] = e
    BY <2>1 DEF Heard
  <2>2. CASE i \in DOMAIN calls /\ calls'[i] = calls[i]
    BY <2>2 DEF OwnReply
  <2>3. QED BY <1>1, <2>1, <2>2
<1>3. QED BY <1>2 DEF OwnReply

LEMMA OwnedReply ==
  ASSUME TypeOK, Locks, Phases, Lined, Owned, Running, ProcessReply
  PROVE  Owned'
<1> DEFINE r == Head(ac.ibuf)
           y == [ac EXCEPT !.ibuf = Tail(@)]
           x == CallbackFor(y, r)
           z == x.ac
           e == [fn |-> Head(fns), priv |-> x.cb.id, got |-> r]
<1>0. /\ ac \in Context /\ ac.ibuf \in Seq(Got) /\ ac.replies \in Seq(Cb) /\ "poller" \in Threads
      /\ pc \in [Threads -> Places] /\ crashed = "no" /\ ac.subs \in Subs /\ cb \in Cb
      /\ calls \in Seq(Call) /\ fns \in Seq(Nat)
  BY DEF TypeOK, ContextType, Context, ThreadType, Threads, Running, UserType
<1>1. /\ pc["poller"] = "loop" /\ ~freed /\ ac.ibuf # <<>>
      /\ script' = script /\ next' = next
      /\ UNCHANGED <<freed, fns, link, server, closed, hasty>>
  BY Zenon DEF ProcessReply, At, user
<1>2. /\ r = Due[1] /\ Due # <<>> /\ Tail(ac.ibuf) \o link.toClient = Tail(Due)
      /\ Due \in Seq(Got) /\ Asked \in Seq(Sent)
  BY <1>1, DueAsked, DueHead DEF r
<1>3. \/ UNCHANGED <<ac, calls>>
      \/ /\ ~(ac.replies = <<>> /\ ac.flags \cap {"SUBSCRIBED", "MONITORING"} = {})
         /\ r.kind # "garbage" /\ (ac.replies = <<>> => r.kind # "error")
         /\ \/ fns # <<>> /\ ac' = [z EXCEPT !.flags = @ \cup {"IN_CALLBACK"}] /\ calls' = Append(calls, e)
            \/ ac' = z /\ calls' = calls
  BY Zenon DEF ProcessReply, CallUser
<1>4. CASE UNCHANGED <<ac, calls>>
  <2>1. Due' = Due /\ Asked' = Asked
    BY <1>1, <1>4 DEF Due, Asked
  <2>2. QED BY <1>1, <1>4, <2>1, OwnedQuiet DEF Ending
<1>5. CASE /\ ~(ac.replies = <<>> /\ ac.flags \cap {"SUBSCRIBED", "MONITORING"} = {})
           /\ r.kind # "garbage" /\ (ac.replies = <<>> => r.kind # "error")
           /\ \/ fns # <<>> /\ ac' = [z EXCEPT !.flags = @ \cup {"IN_CALLBACK"}] /\ calls' = Append(calls, e)
              \/ ac' = z /\ calls' = calls
  <2>1. /\ y \in Context /\ y.replies = ac.replies /\ r \in Got /\ y.flags = ac.flags
        /\ y.obuf = ac.obuf /\ y.ibuf = Tail(ac.ibuf) /\ y.subs = ac.subs
    BY <1>0, <1>1, HeadTailProperties DEF Context
  <2>2. z \in Context /\ x.cb \in Cb
    <3> HIDE DEF y, r
    <3>1. QED BY <1>0, <2>1, CallbackForType
  <2>3. /\ z.ibuf = y.ibuf /\ z.obuf = y.obuf
        /\ \/ y.replies # <<>> /\ z.replies = Tail(y.replies) /\ z.flags = y.flags
           \/ /\ y.replies = <<>> /\ z.replies = <<>>
              /\ \/ z.flags = y.flags
                 \/ /\ "SUBSCRIBED" \in y.flags /\ r.kind = "unsubscribe" /\ r.left = 0
                    /\ z.flags = y.flags \ {"SUBSCRIBED"}
    <3> HIDE DEF y, r
    <3>1. QED BY <2>1, CallbackForIs
  <2>4. /\ y.replies # <<>> => x.cb = Head(y.replies) /\ z.subs = y.subs
        /\ /\ y.replies = <<>> /\ "SUBSCRIBED" \in y.flags
           /\ r.kind \in Heard /\ r.topic \in DOMAIN y.subs
           => /\ x.cb = y.subs[r.topic]
              /\ \/ r.kind = "unsubscribe" /\ z.subs = Without(y.subs, r.topic)
                 \/ z.subs = y.subs /\ z.flags = y.flags
    <3> HIDE DEF y, r
    <3>1. QED BY <2>1, CallbackIs
  <2> HIDE DEF x, y, z, r
  <2>5. fns # <<>> => e \in Call /\ e.priv = x.cb.id /\ e.got = r
    <3>1. ASSUME fns # <<>> PROVE Head(fns) \in Nat
      BY <1>0, <3>1, HeadTailProperties
    <3>2. QED BY <2>1, <2>2, <3>1 DEF Call, Cb
  <2> HIDE DEF e
  <2>6. /\ ac'.ibuf = Tail(ac.ibuf) /\ ac'.obuf = ac.obuf /\ ac'.replies = z.replies
        /\ ac'.flags = z.flags \/ ac'.flags = z.flags \cup {"IN_CALLBACK"}
        /\ ac'.subs = z.subs
    BY <1>5, <2>1, <2>2, <2>3 DEF Context
  <2>7. Due' = Tail(Due) /\ Asked' = Asked
    BY <1>1, <1>2, <2>6 DEF Due, Asked
  <2>8. /\ "MONITORING" \in ac'.flags <=> "MONITORING" \in ac.flags
        /\ "DISCONNECTING" \in ac.flags => "DISCONNECTING" \in ac'.flags
    BY <2>1, <2>3, <2>6
  <2>9. MonitorTold' /\ Orderly' = Orderly /\ Quiet' = Quiet
    BY <1>1, <2>8 DEF Owned, MonitorTold, Orderly, Calm, Quiet
  <2>10. SUFFICES ASSUME Orderly, ~hasty PROVE SubsOwn' /\ OwnReply' /\ Mine'
    BY <1>1, <2>9 DEF Owned
  <2>11. SubsOwn /\ OwnReply /\ Mine
    BY <1>1, <2>10 DEF Owned, Ending
  <2>12. /\ Traced(Due, Asked, next, server, ac.flags)
         /\ "MONITORING" \notin ac.flags
    BY <1>1, <2>10 DEF Lined, Waited, Ending, Owned, Orderly, MonitorTold
  <2>13. Len(Due) \in Nat /\ Len(Due) >= 1 /\ 1 \in 1 .. Len(Due)
    BY <1>2, TailOf
  <2>14. CASE ac.replies # <<>>
    <3>1. /\ z.replies = Tail(ac.replies) /\ z.flags = ac.flags /\ z.subs = ac.subs
          /\ x.cb = Head(ac.replies)
      BY <2>1, <2>3, <2>4, <2>14
    <3>2. Len(ac.replies) \in Nat /\ Len(ac.replies) >= 1 /\ Head(ac.replies) = ac.replies[1]
      BY <1>0, <2>14, TailOf
    <3>3. r.kind = "error" \/ (r.kind = "status" /\ r.id = x.cb.id)
      <4>1. server.full => Due[1].kind \in {"error", "garbage"}
        BY <2>11, <2>13 DEF Mine, Matched
      <4>2. ~server.full /\ 1 <= Len(ac.replies) =>
              Due[1].kind = "status" /\ Due[1].id = ac.replies[1].id
        BY <2>11, <2>13 DEF Mine, Matched
      <4>3. QED BY <1>2, <1>5, <3>1, <3>2, <4>1, <4>2
    <3>4. OwnReply'
      <4>1. CASE calls' = calls
        BY <1>1, <2>11, <4>1 DEF OwnReply
      <4>2. CASE fns # <<>> /\ calls' = Append(calls, e)
        BY <1>0, <1>1, <2>5, <2>11, <3>3, <4>2, OwnReplyNext DEF Heard
      <4>3. QED BY <1>5, <4>1, <4>2
    <3>5. SubsOwn'
      BY <1>1, <2>6, <2>11, <3>1 DEF SubsOwn
    <3>6. Known(DOMAIN ac.subs, Tail(Due), Asked, server)
      BY <1>2, <2>11, KnownTake DEF Mine
    <3>7. Matched(Tail(ac.replies), Tail(Due), Asked, server, link.state)
      BY <1>0, <1>2, <2>11, <2>14, MatchedTake DEF Mine
    <3>8. ASSUME Quiet PROVE Subscribed(ac'.flags, Asked, server, link.state) /\ Held'
      <4>1. Subscribed(ac.flags, Asked, server, link.state) /\ Held
        BY <2>11, <3>8 DEF Mine
      <4>2. QED BY <1>1, <2>6, <2>8, <3>1, <4>1 DEF Subscribed, Held
    <3>9. Mine'
      BY <1>1, <2>6, <2>7, <2>9, <3>1, <3>6, <3>7, <3>8 DEF Mine
    <3>10. QED BY <3>4, <3>5, <3>9
  <2>15. CASE ac.replies = <<>>
    <3>1. "SUBSCRIBED" \in ac.flags /\ z.replies = <<>> /\ Len(ac.replies) = 0
      BY <1>5, <2>1, <2>3, <2>12, <2>15
    <3>2. r.kind \in Heard /\ r.topic \in DOMAIN ac.subs
      <4>1. server.full => Due[1].kind \in {"error", "garbage"}
        BY <2>11, <2>13 DEF Mine, Matched
      <4>2. ~server.full /\ 1 > Len(ac.replies) => Due[1].kind \in Heard \cup {"error"}
        BY <2>11, <2>13 DEF Mine, Matched
      <4>3. r.kind \in Heard
        BY <1>2, <1>5, <2>15, <3>1, <4>1, <4>2
      <4>4. QED BY <1>2, <2>11, <2>13, <4>3 DEF Mine, Known
    <3>3. /\ x.cb = ac.subs[r.topic]
          /\ \/ r.kind = "unsubscribe" /\ z.subs = Without(ac.subs, r.topic)
             \/ z.subs = ac.subs /\ z.flags = ac.flags
      BY <2>1, <2>4, <2>15, <3>1, <3>2
    <3>4. OwnReply'
      <4>1. CASE calls' = calls
        BY <1>1, <2>11, <4>1 DEF OwnReply
      <4>2. CASE fns # <<>> /\ calls' = Append(calls, e)
        <5>1. script[x.cb.id].topic = r.topic
          BY <2>11, <3>2, <3>3 DEF SubsOwn
        <5>2. r.kind # "status"
          BY <3>2 DEF Heard
        <5>3. QED BY <1>0, <1>1, <2>5, <2>11, <4>2, <5>1, <5>2, OwnReplyNext
      <4>3. QED BY <1>5, <4>1, <4>2
    <3>5. \/ z.subs = ac.subs
          \/ /\ r.kind = "unsubscribe" /\ DOMAIN z.subs = DOMAIN ac.subs \ {r.topic}
             /\ \A t \in DOMAIN z.subs : z.subs[t] = ac.subs[t]
      BY <3>3 DEF Without
    <3>6. SubsOwn'
      BY <1>1, <2>6, <2>11, <3>5 DEF SubsOwn
    <3>7. Known(DOMAIN z.subs, Tail(Due), Asked, server)
      <4>1. Known(DOMAIN ac.subs, Due, Asked, server)
        BY <2>11 DEF Mine
      <4>2. \/ DOMAIN z.subs = DOMAIN ac.subs
            \/ Due[1].kind = "unsubscribe" /\ DOMAIN z.subs = DOMAIN ac.subs \ {Due[1].topic}
        BY <1>2, <3>5
      <4>3. QED BY <1>2, <4>1, <4>2, KnownTake
    <3>8. Matched(<<>>, Tail(Due), Asked, server, link.state)
      BY <1>0, <1>2, <2>11, <2>15, MatchedTake DEF Mine
    <3>9. ASSUME Quiet PROVE Subscribed(ac'.flags, Asked, server, link.state) /\ Held'
      <4>1. Subscribed(ac.flags, Asked, server, link.state) /\ Held
        BY <2>11, <3>9 DEF Mine
      <4>2. r.kind # "unsubscribe"
        BY <1>2, <2>12, <2>13, <3>9 DEF Traced, Quiet
      <4>3. z.subs = ac.subs /\ z.flags = ac.flags
        BY <3>3, <4>2
      <4>4. QED BY <1>1, <2>6, <2>8, <4>1, <4>3 DEF Subscribed, Held
    <3>10. Mine'
      BY <1>1, <2>6, <2>7, <2>9, <3>1, <3>7, <3>8, <3>9 DEF Mine
    <3>11. QED BY <3>4, <3>6, <3>10
  <2>16. QED BY <2>14, <2>15
<1>6. QED BY <1>3, <1>4, <1>5

LEMMA OwnedBoth ==
  ASSUME TypeOK, Locks, Phases, Owned, Running, NEW t \in Threads, Both(t)
  PROVE  Owned'
<1>0. /\ ac \in Context /\ ThreadType /\ pc \in [Threads -> Places]
      /\ "poller" \in Threads /\ "user" \in Threads /\ (t = "poller" \/ t = "user")
  BY DEF TypeOK, ContextType, ThreadType, Threads
<1>1. /\ script' = script /\ next' = next /\ UNCHANGED <<link, server, hasty>>
      /\ closed' \/ closed' = closed
  BY Zenon DEF Both, CallbackReturn, RunPending, Cleanup, DisconnectCallback, DisconnectReturn,
               Fault, user
<1>2. Grows
  BY GrowsOther
<1>3. ~hasty => pc["user"] = "idle"
  BY DEF Phases
<1>4. CASE CallbackReturn(t)
  <2>1. /\ pc[t] \in {"callback", "nil"} /\ ~freed /\ freed' = freed /\ calls' = calls
        /\ \/ UNCHANGED <<ac, pc>>
           \/ /\ ac' = [ac EXCEPT !.flags = @ \ {"IN_CALLBACK"}]
              /\ Hold(t, IF pc[t] = "callback" THEN "loop" ELSE "free")
    BY <1>4, Zenon DEF CallbackReturn, Back
  <2>2. /\ ac'.replies = ac.replies /\ ac'.ibuf = ac.ibuf /\ ac'.obuf = ac.obuf
        /\ PubSub(ac'.flags) = PubSub(ac.flags) /\ ac'.subs = ac.subs
    BY <1>0, <2>1 DEF Context, PubSub
  <2>3. Due' = Due /\ Asked' = Asked
    BY <1>1, <2>2 DEF Due, Asked
  <2>4. pc'["poller"] \in Ending \/ pc["poller"] \notin Ending
    BY <1>0, <2>1 DEF Hold, Ending
  <2>5. QED BY <1>1, <1>2, <2>1, <2>2, <2>3, <2>4, OwnedQuiet DEF Grows
<1>5. CASE RunPending(t)
  <2>1. /\ pc[t] = "free"
        /\ \E p \in Pending(ac) :
             \/ UNCHANGED <<ac, pc, calls>>
             \/ /\ fns # <<>> /\ ac' = [p.ac EXCEPT !.flags = @ \cup {"IN_CALLBACK"}]
                /\ calls' = Append(calls, [fn |-> Head(fns), priv |-> p.cb.id, got |-> Nil])
                /\ pc' = [pc EXCEPT ![t] = "nil"]
             \/ ac' = p.ac /\ UNCHANGED <<calls, pc>>
    BY <1>5, Zenon DEF RunPending, At, CallUser, Release
  <2>2. PICK p \in Pending(ac) :
             \/ UNCHANGED <<ac, pc, calls>>
             \/ /\ fns # <<>> /\ ac' = [p.ac EXCEPT !.flags = @ \cup {"IN_CALLBACK"}]
                /\ calls' = Append(calls, [fn |-> Head(fns), priv |-> p.cb.id, got |-> Nil])
                /\ pc' = [pc EXCEPT ![t] = "nil"]
             \/ ac' = p.ac /\ UNCHANGED <<calls, pc>>
    BY <2>1
  <2>3. /\ p.ac.flags = ac.flags /\ p.ac \in Context /\ p.cb \in Cb
        /\ \/ p.ac.subs = ac.subs
           \/ \E u \in DOMAIN ac.subs : p.ac.subs = Without(ac.subs, u)
    <3>1. p.ac.flags = ac.flags /\ p.ac \in Context /\ p.cb \in Cb
      BY <1>0, PendingIs, PendingType
    <3>2. \/ p.ac = [ac EXCEPT !.replies = Tail(@)]
          \/ p.ac = [ac EXCEPT !.invalid = Tail(@)]
          \/ \E u \in DOMAIN ac.subs : p.ac = [ac EXCEPT !.subs = Without(@, u)]
      BY SMTT(30) DEF Pending
    <3>3. QED BY <1>0, <3>1, <3>2 DEF Context
  <2>4. /\ PubSub(ac'.flags) = PubSub(ac.flags)
        /\ ac'.subs = ac.subs \/ \E u \in DOMAIN ac.subs : ac'.subs = Without(ac.subs, u)
    <3>1. CASE ac' = [p.ac EXCEPT !.flags = @ \cup {"IN_CALLBACK"}]
      <4>1. ac'.flags = ac.flags \cup {"IN_CALLBACK"} /\ ac'.subs = p.ac.subs
        BY <2>3, <3>1 DEF Context
      <4>2. QED BY <2>3, <4>1 DEF PubSub
    <3>2. CASE ac' = ac \/ ac' = p.ac
      BY <2>3, <3>2
    <3>3. QED BY <2>2, <3>1, <3>2
  <2>5. MonitorTold' /\ Orderly' = Orderly
    BY <1>1, <2>4 DEF Owned, MonitorTold, Orderly, Calm, PubSub
  <2>6. SUFFICES ASSUME Orderly, ~hasty PROVE SubsOwn' /\ OwnReply' /\ pc'["poller"] \in Ending
    BY <1>1, <2>5 DEF Owned
  <2>7. pc'["poller"] \in Ending
    BY <1>0, <1>3, <2>1, <2>2, <2>6 DEF Ending
  <2>8. SubsOwn /\ OwnReply
    BY <2>6 DEF Owned
  <2>9. SubsOwn'
    BY <1>1, <2>4, <2>8 DEF SubsOwn, Without
  <2>10. OwnReply'
    <3>1. CASE calls' = calls
      BY <1>1, <2>8, <3>1 DEF OwnReply
    <3>2. CASE /\ fns # <<>>
               /\ calls' = Append(calls, [fn |-> Head(fns), priv |-> p.cb.id, got |-> Nil])
      <4> DEFINE e == [fn |-> Head(fns), priv |-> p.cb.id, got |-> Nil]
      <4>1. Nil \in Got /\ Nil.kind = "nil"
        BY DEF Nil, Got, Topics
      <4>2. Head(fns) \in Nat /\ calls \in Seq(Call)
        BY <3>2, HeadTailProperties DEF TypeOK, UserType
      <4>3. e \in Call /\ e.got.kind = "nil"
        BY <2>3, <4>1, <4>2 DEF Call, Cb
      <4>4. calls' = Append(calls, e)
        BY <3>2
      <4> HIDE DEF e
      <4>5. QED BY <1>1, <2>8, <4>2, <4>3, <4>4, OwnReplyNext DEF Heard
    <3>3. QED BY <2>2, <3>1, <3>2
  <2>11. QED BY <2>7, <2>9, <2>10
<1>6. CASE Cleanup(t) \/ DisconnectCallback(t) \/ DisconnectReturn(t) \/ Fault(t)
  <2>1. ac' = ac /\ calls' = calls
    BY <1>6, Zenon DEF Cleanup, DisconnectCallback, DisconnectReturn, Fault
  <2>2. Due' = Due /\ Asked' = Asked
    BY <1>1, <2>1 DEF Due, Asked
  <2>3. \/ freed' \/ pc'["poller"] \in Ending \/ pc["user"] # "idle"
        \/ ~freed /\ pc["poller"] \notin Ending
    <3>1. CASE Cleanup(t)
      <4>1. /\ pc[t] = "free" /\ ~freed
            /\ Release(t, "unlocked") \/ freed'
        BY <3>1, Zenon DEF Cleanup, At
      <4>2. QED BY <1>0, <4>1 DEF Release, Ending
    <3>2. CASE DisconnectCallback(t)
      <4>1. pc[t] = "unlocked" /\ pc' = [pc EXCEPT ![t] = "disconnected"]
        BY <3>2, Zenon DEF DisconnectCallback
      <4>2. QED BY <1>0, <4>1 DEF Ending
    <3>3. CASE DisconnectReturn(t)
      BY <3>3, Zenon DEF DisconnectReturn
    <3>4. CASE Fault(t)
      <4>1. freed' = freed /\ freed
        BY <3>4, Zenon DEF Fault
      <4>2. QED BY <4>1
    <3>5. QED BY <1>6, <3>1, <3>2, <3>3, <3>4
  <2>4. QED BY <1>1, <1>2, <1>3, <2>1, <2>2, <2>3, OwnedQuiet DEF Grows
<1>7. QED BY <1>4, <1>5, <1>6 DEF Both

\* What a command does to the flags and to the callbacks of pub/sub.
LEMMA PutAlso ==
  ASSUME NEW x \in Context, NEW c, c.kind \in Kinds, NEW id
  PROVE  LET y == PutCallback(x, c, id)
         IN /\ "MONITORING" \in y.flags => "MONITORING" \in x.flags \/ c.kind = "monitor"
            /\ "SUBSCRIBED" \in y.flags => "SUBSCRIBED" \in x.flags \/ c.kind = "subscribe"
            /\ \/ c.kind = "subscribe" /\ y.subs = With(x.subs, c.topic, [id |-> id, fn |-> c.fn])
               \/ c.kind # "subscribe" /\ y.subs = x.subs
<1> DEFINE new == [id |-> id, fn |-> c.fn]
           y == PutCallback(x, c, id)
<1>1. \/ c.kind = "subscribe"
         /\ y = [x EXCEPT !.flags = @ \cup {"SUBSCRIBED"}, !.subs = With(@, c.topic, new)]
      \/ c.kind = "unsubscribe" /\ y = x
      \/ c.kind = "monitor"
         /\ y = [x EXCEPT !.flags = @ \cup {"MONITORING"}, !.replies = Append(@, new)]
      \/ c.kind = "get" /\ (y = [x EXCEPT !.invalid = Append(@, new)]
                            \/ y = [x EXCEPT !.replies = Append(@, new)])
  BY DEF PutCallback, Kinds
<1> HIDE DEF new, y
<1>2. \/ c.kind = "subscribe" /\ y.flags = x.flags \cup {"SUBSCRIBED"}
         /\ y.subs = With(x.subs, c.topic, new)
      \/ c.kind \in {"unsubscribe", "get"} /\ y.flags = x.flags /\ y.subs = x.subs
      \/ c.kind = "monitor" /\ y.flags = x.flags \cup {"MONITORING"} /\ y.subs = x.subs
  BY <1>1 DEF Context
<1>3. QED BY <1>2 DEF y, new

LEMMA OwnedClose ==
  ASSUME TypeOK, Owned, Running, Close
  PROVE  Owned'
<1>0. ac \in Context /\ "poller" \in Threads /\ "user" \in Threads /\ pc \in [Threads -> Places]
  BY DEF TypeOK, ContextType, ThreadType, Threads
<1>1. /\ script' = script /\ next' = next /\ UNCHANGED <<freed, link, server, calls>> /\ closed'
      /\ \/ UNCHANGED <<ac, pc, hasty>>
         \/ /\ ac' = [ac EXCEPT !.flags = @ \cup {"DISCONNECTING"}]
            /\ hasty' = (hasty \/ "IN_CALLBACK" \notin ac.flags)
            /\ Hold("user", "free") \/ pc' = pc
  BY Zenon DEF Close, user
<1>2. /\ ac'.replies = ac.replies /\ ac'.ibuf = ac.ibuf /\ ac'.obuf = ac.obuf
      /\ PubSub(ac'.flags) = PubSub(ac.flags) /\ ac'.subs = ac.subs
  BY <1>0, <1>1 DEF Context, PubSub
<1>3. ~hasty' => ~hasty
  BY <1>1
<1>4. pc'["poller"] = pc["poller"]
  BY <1>0, <1>1 DEF Hold
<1>5. Due' = Due /\ Asked' = Asked
  BY <1>1, <1>2 DEF Due, Asked
<1>6. freed' = freed /\ server' = server /\ link' = link /\ calls' = calls
  BY <1>1
<1>7. QED BY <1>1, <1>2, <1>3, <1>4, <1>5, <1>6, OwnedQuiet

LEMMA OwnedCommand ==
  ASSUME TypeOK, Lined, Owned, Running, redisAsyncCommand
  PROVE  Owned'
<1> DEFINE c == script[next]
           q == [kind |-> c.kind, topic |-> c.topic, id |-> next]
           new == [id |-> next, fn |-> c.fn]
           x == PutCallback(ac, c, next)
<1>0. /\ ac \in Context /\ ac.replies \in Seq(Cb) /\ ac.obuf \in Seq(Sent) /\ ac.subs \in Subs
      /\ next \in Nat \ {0} /\ next \in Nat
  BY ScriptIs DEF TypeOK, ContextType, Context
<1>1. /\ next <= Len(script) /\ next' = next + 1
      /\ UNCHANGED <<script, freed, closed, pc, link, server, calls, hasty>>
  BY Zenon DEF redisAsyncCommand
<1>2. \/ /\ ac' = ac
         /\ closed \/ freed \/ "DISCONNECTING" \in ac.flags \/ c.kind = "unsubscribe"
      \/ /\ ~(c.kind = "unsubscribe" /\ "SUBSCRIBED" \notin ac.flags)
         /\ ~closed /\ "DISCONNECTING" \notin ac.flags
         /\ ac' = [x EXCEPT !.obuf = Append(@, q)]
  BY Zenon DEF redisAsyncCommand
<1>3. /\ next' - 1 = next /\ next' - 2 = next - 1 /\ next \in 1 .. next
      /\ \A i \in 1 .. next : i = next \/ i \in 1 .. next - 1
      /\ \A i \in 1 .. next - 1 : i \in 1 .. next
      /\ \A i \in 1 .. next - 2 : i \in 1 .. next - 1
  BY <1>0, <1>1
<1>4. Orderly' =>
        /\ Orderly /\ Quiet /\ c.kind # "monitor"
        /\ c.kind = "unsubscribe" =>
             \E k \in 1 .. next - 1 : script[k].kind = "subscribe" /\ script[k].topic = c.topic
  <2>1. ASSUME Orderly'
        PROVE  /\ \A i \in 1 .. next - 1 : script[i].kind # "unsubscribe"
               /\ \A i \in 1 .. next : script[i].kind # "monitor"
               /\ \A i \in 1 .. next : script[i].kind = "unsubscribe" =>
                    \E k \in 1 .. i - 1 :
                      script[k].kind = "subscribe" /\ script[k].topic = script[i].topic
    BY <1>1, <1>3, <2>1 DEF Orderly, Calm
  <2>2. QED BY <1>3, <2>1 DEF Orderly, Calm, Quiet
<1>5. Quiet' => Quiet /\ c.kind # "unsubscribe"
  BY <1>1, <1>3 DEF Quiet
<1>6. OwnReply => OwnReply'
  BY <1>1, <1>3 DEF OwnReply
<1>7. CASE /\ ac' = ac
           /\ closed \/ freed \/ "DISCONNECTING" \in ac.flags \/ c.kind = "unsubscribe"
  <2>1. Due' = Due /\ Asked' = Asked
    BY <1>1, <1>7 DEF Due, Asked
  <2>2. MonitorTold'
    BY <1>1, <1>3, <1>7 DEF Owned, MonitorTold
  <2>3. SubsOwn => SubsOwn'
    BY <1>1, <1>3, <1>7 DEF SubsOwn
  <2>4. ASSUME Mine, ~freed PROVE Mine'
    <3>1. /\ Known(DOMAIN ac'.subs, Due', Asked', server')
          /\ Matched(ac'.replies, Due', Asked', server', link'.state)
      BY <1>1, <1>7, <2>1, <2>4 DEF Mine
    <3>2. ASSUME Quiet' PROVE Subscribed(ac'.flags, Asked', server', link'.state) /\ Held'
      <4>1. Subscribed(ac.flags, Asked, server, link.state)
        BY <1>5, <2>4, <3>2 DEF Mine
      <4>2. closed \/ "DISCONNECTING" \in ac.flags
        BY <1>5, <1>7, <2>4, <3>2
      <4>3. QED BY <1>1, <1>7, <2>1, <4>1, <4>2 DEF Held
    <3>3. QED BY <3>1, <3>2 DEF Mine
  <2> HIDE DEF c
  <2>5. QED BY <1>1, <1>4, <1>6, <2>2, <2>3, <2>4 DEF Owned
<1>8. CASE /\ ~(c.kind = "unsubscribe" /\ "SUBSCRIBED" \notin ac.flags)
           /\ ~closed /\ "DISCONNECTING" \notin ac.flags
           /\ ac' = [x EXCEPT !.obuf = Append(@, q)]
  <2>1. next \in 1 .. Len(script)
    BY <1>0, <1>1, ScriptIs DEF TypeOK
  <2>2. c.kind \in Kinds /\ c.topic \in Topics /\ c.fn \in BOOLEAN
    BY <2>1, ScriptIs DEF TypeOK
  <2>3. c \in [kind : Kinds, topic : Topics, fn : BOOLEAN]
    <3>1. script \in Seq([kind : Kinds, topic : STRING, fn : BOOLEAN])
      BY ScriptIs DEF TypeOK
    <3>2. c \in [kind : Kinds, topic : STRING, fn : BOOLEAN]
      BY <2>1, <3>1, ElementOfSeq
    <3>3. QED BY <3>2 DEF Topics
  <2>4. /\ new \in Cb /\ new.id = next
        /\ q \in Sent /\ q.id = next /\ q.kind = c.kind /\ q.topic = c.topic
    BY <1>0, <2>2 DEF Cb, Sent
  <2>5. x \in Context
    <3> HIDE DEF c
    <3>1. QED BY <1>0, <2>3, PutType
  <2>6. /\ x.ibuf = ac.ibuf /\ x.obuf = ac.obuf
        /\ \/ "SUBSCRIBED" \in x.flags /\ x.replies = ac.replies
           \/ c.kind = "unsubscribe" /\ x = ac
           \/ c.kind = "monitor"
           \/ /\ c.kind = "get" /\ "SUBSCRIBED" \notin ac.flags
              /\ x.replies = Append(ac.replies, new)
    <3> HIDE DEF c
    <3>1. QED BY <1>0, <2>2, PutIs
  <2>7. /\ "MONITORING" \in x.flags => "MONITORING" \in ac.flags \/ c.kind = "monitor"
        /\ "SUBSCRIBED" \in x.flags => "SUBSCRIBED" \in ac.flags \/ c.kind = "subscribe"
        /\ \/ c.kind = "subscribe" /\ x.subs = With(ac.subs, c.topic, new)
           \/ c.kind # "subscribe" /\ x.subs = ac.subs
    <3> HIDE DEF c
    <3>1. QED BY <1>0, <2>2, PutAlso
  <2> HIDE DEF x, q, new
  <2>8. /\ ac'.ibuf = ac.ibuf /\ ac'.obuf = Append(ac.obuf, q) /\ ac'.subs = x.subs
        /\ ac'.replies = x.replies /\ ac'.flags = x.flags /\ x.replies \in Seq(Cb)
    BY <1>8, <2>5, <2>6 DEF Context
  <2>9. Due' = Due
    BY <1>1, <2>8 DEF Due
  <2>10. Asked' = Append(Asked, q)
    <3>1. \A a, b \in Seq(Sent) : a \o Append(b, q) = Append(a \o b, q)
      BY <2>4, AppendToBoth
    <3>2. link.toServer \in Seq(Sent) /\ ac.obuf \in Seq(Sent)
      BY DueAsked
    <3>3. link.toServer \o Append(ac.obuf, q) = Append(link.toServer \o ac.obuf, q)
      BY <3>1, <3>2, Zenon
    <3>4. QED BY <1>1, <2>8, <3>3 DEF Asked
  <2>11. MonitorTold'
    BY <1>1, <1>3, <2>7, <2>8 DEF Owned, MonitorTold
  <2>12. /\ DOMAIN ac.subs \subseteq DOMAIN x.subs
         /\ c.kind = "subscribe" => c.topic \in DOMAIN x.subs
         /\ \A t \in DOMAIN x.subs : \/ c.kind = "subscribe" /\ t = c.topic /\ x.subs[t] = new
                                     \/ t \in DOMAIN ac.subs /\ x.subs[t] = ac.subs[t]
    BY <2>7 DEF With
  <2>13. SubsOwn => SubsOwn'
    <3>1. SUFFICES ASSUME SubsOwn, NEW t \in DOMAIN x.subs
                   PROVE  x.subs[t].id \in 1 .. next /\ script[x.subs[t].id].topic = t
      BY <1>1, <1>3, <2>8 DEF SubsOwn
    <3>2. CASE c.kind = "subscribe" /\ t = c.topic /\ x.subs[t] = new
      BY <1>3, <2>4, <3>2
    <3>3. CASE t \in DOMAIN ac.subs /\ x.subs[t] = ac.subs[t]
      BY <1>3, <3>1, <3>3 DEF SubsOwn
    <3>4. QED BY <2>12, <3>2, <3>3
  <2>14. ASSUME Orderly', ~hasty, ~freed, pc["poller"] \notin Ending PROVE Mine'
    <3>1. /\ Mine /\ Quiet /\ Calm /\ "MONITORING" \notin ac.flags
      BY <1>4, <2>14 DEF Owned, Orderly, MonitorTold
    <3>2. /\ Due \in Seq(Got) /\ Asked \in Seq(Sent)
          /\ Traced(Due, Asked, next, server, ac.flags)
          /\ Confirmed(ac.replies, Due, Asked, server, link.state, ac.flags)
      BY <2>14, <3>1, DueAsked DEF Lined, Waited
    <3>3. Subscribed(ac.flags, Asked, server, link.state) /\ Held
      BY <3>1 DEF Mine
    <3>4. \A j \in 1 .. Len(Due) : Due[j].kind # "unsubscribe"
      BY <3>1, <3>2 DEF Traced, Quiet
    <3>5. \A k \in 1 .. next - 1 :
            script[k].kind = "subscribe" => script[k].topic \in DOMAIN ac.subs
      BY <1>8, <3>3 DEF Held
    <3>6. q.kind \in {"subscribe", "unsubscribe"} => q.topic \in DOMAIN x.subs
      <4>1. c.kind = "unsubscribe" => c.topic \in DOMAIN ac.subs
        BY <1>4, <2>14, <3>5
      <4>2. QED BY <2>4, <2>12, <4>1
    <3>7. Known(DOMAIN x.subs, Due, Append(Asked, q), server)
      BY <2>4, <2>12, <3>1, <3>2, <3>4, <3>6, KnownSend DEF Mine
    <3>8. Matched(x.replies, Due, Append(Asked, q), server, link.state)
      <4>1. Matched(ac.replies, Due, Asked, server, link.state)
        BY <3>1 DEF Mine
      <4>2. CASE /\ c.kind = "get" /\ "SUBSCRIBED" \notin ac.flags
                 /\ x.replies = Append(ac.replies, new)
        <5>1. /\ q.kind = "get" /\ server.topics = {}
              /\ ~server.full => Len(Due) <= Len(ac.replies)
              /\ ~server.full /\ link.state # "broken" =>
                   Len(Due) + Len(Asked) <= Len(ac.replies)
          BY <2>4, <3>2, <4>2 DEF Confirmed
        <5>2. \E e \in Cb : e.id = q.id /\ x.replies = Append(ac.replies, e)
          BY <2>4, <4>2
        <5>3. QED BY <1>0, <2>4, <2>8, <3>2, <4>1, <5>1, <5>2, MatchedSend
      <4>3. CASE /\ x.replies = ac.replies
                 /\ c.kind = "get" => "SUBSCRIBED" \in ac.flags
        <5>1. q.kind = "get" /\ ~server.full /\ link.state # "broken" =>
                server.topics # {} \/ \E k \in 1 .. Len(Asked) : Asked[k].kind = "subscribe"
          BY <2>4, <3>3, <4>3 DEF Subscribed
        <5>2. QED BY <1>0, <2>4, <2>8, <3>2, <4>1, <4>3, <5>1, MatchedSend
      <4>4. QED BY <1>4, <2>6, <2>7, <2>14, <4>2, <4>3
    <3>9. Subscribed(x.flags, Append(Asked, q), server, link.state)
      BY <2>4, <2>7, <3>2, <3>3, SubscribedSend
    <3>10. Held'
      <4>1. \A k \in 1 .. next : script[k].kind = "subscribe" => script[k].topic \in DOMAIN x.subs
        BY <1>3, <2>12, <3>5
      <4>2. QED BY <1>1, <1>3, <2>8, <4>1 DEF Held
    <3>11. QED BY <1>1, <2>8, <2>9, <2>10, <3>7, <3>8, <3>9, <3>10 DEF Mine
  <2> HIDE DEF c
  <2>15. QED BY <1>1, <1>4, <1>6, <2>11, <2>13, <2>14 DEF Owned
<1>9. QED BY <1>2, <1>7, <1>8

LEMMA OwnedNetwork ==
  ASSUME TypeOK, Lined, Owned, Network \/ ServerReads
  PROVE  Owned'
<1>0. /\ link \in Link /\ ac.replies \in Seq(Cb) /\ Len(ac.replies) \in Nat
      /\ Due \in Seq(Got) /\ Asked \in Seq(Sent)
  BY DueAsked DEF TypeOK, PeerType
<1>1. script' = script /\ next' = next /\ UNCHANGED <<ac, freed, closed, pc, calls, hasty>>
  BY Zenon DEF Network, ServerReads, Established, ServerTells, Breaks, user
<1>2. /\ MonitorTold' /\ Orderly' = Orderly /\ Quiet' = Quiet /\ Held' = Held
      /\ SubsOwn' = SubsOwn /\ OwnReply' = OwnReply
  BY <1>1 DEF Owned, MonitorTold, Orderly, Calm, Quiet, Held, SubsOwn, OwnReply
<1>3. SUFFICES ASSUME Orderly, ~hasty, ~freed, pc["poller"] \notin Ending PROVE Mine'
  BY <1>1, <1>2 DEF Owned
<1>4. /\ Mine /\ "MONITORING" \notin ac.flags
      /\ Traced(Due, Asked, next, server, ac.flags)
      /\ Confirmed(ac.replies, Due, Asked, server, link.state, ac.flags)
  BY <1>3 DEF Owned, MonitorTold, Orderly, Lined, Waited
<1>5. /\ Known(DOMAIN ac.subs, Due, Asked, server)
      /\ Matched(ac.replies, Due, Asked, server, link.state)
  BY <1>4 DEF Mine
<1>6. SUFFICES /\ Known(DOMAIN ac.subs, Due', Asked', server')
               /\ Matched(ac.replies, Due', Asked', server', link'.state)
               /\ Quiet /\ Subscribed(ac.flags, Asked, server, link.state) =>
                    Subscribed(ac.flags, Asked', server', link'.state)
  BY <1>1, <1>2, <1>4 DEF Mine
<1>7. CASE \E up \in BOOLEAN : Established(up)
  <2>1. /\ link.state = "connecting" /\ server' = server
        /\ \E s \in {"up", "refused"} : link' = [link EXCEPT !.state = s]
    BY <1>7, Zenon DEF Established
  <2>2. Due' = Due /\ Asked' = Asked
    BY <1>0, <1>1, <2>1 DEF Due, Asked, Link
  <2>3. Matched(ac.replies, Due, Asked, server, link'.state)
    BY <1>5, <2>1 DEF Matched
  <2>4. QED BY <1>5, <2>1, <2>2, <2>3 DEF Subscribed
<1>8. CASE ServerTells
  <2>1. PICK r \in Got :
           /\ ~server.full /\ Due' = Append(Due, r) /\ Asked' = Asked
           /\ link.state = "up" /\ link'.state = link.state
           /\ server'.topics = server.topics /\ (server'.feeds <=> server.feeds)
           /\ r.kind \in {"error", "garbage"} <=> server'.full
           /\ \/ r.kind = "message" /\ r.topic \in server.topics
              \/ r.kind = "status" /\ server.feeds
              \/ r.kind \in {"error", "garbage"} /\ next = 1
    BY <1>8, TellsIs
  <2>2. ~server.feeds
    BY <1>4 DEF Traced
  <2>3. next = 1 => Len(Due) = 0
    <3>1. ASSUME next = 1 PROVE "SUBSCRIBED" \notin ac.flags /\ Len(ac.replies) = 0
      BY <3>1 DEF Lined, Fresh, PubSub
    <3>2. ASSUME next = 1 PROVE Len(Due) <= 0
      BY <1>4, <2>1, <3>1, <3>2 DEF Confirmed
    <3>3. QED BY <1>0, <3>2, LenProperties
  <2>4. r.kind # "unsubscribe" /\ (r.kind \in Heard => r.topic \in server.topics)
    BY <2>1, <2>2 DEF Heard
  <2>5. Known(DOMAIN ac.subs, Append(Due, r), Asked, server')
    BY <1>0, <1>5, <2>1, <2>4, KnownTells
  <2>6. Matched(ac.replies, Append(Due, r), Asked, server', link.state)
    <3>1. \/ r.kind = "message" /\ server.topics # {} /\ ~server'.full
          \/ r.kind \in {"error", "garbage"} /\ server'.full /\ Len(Due) = 0
      BY <2>1, <2>2, <2>3
    <3>2. QED BY <1>0, <1>5, <2>1, <3>1, MatchedTells
  <2>7. QED BY <2>1, <2>5, <2>6 DEF Subscribed
<1>9. CASE Breaks
  <2>1. /\ UNCHANGED server /\ link'.state = "broken"
        /\ Due' \in Seq(Got) /\ Len(Due') <= Len(Due) /\ \A i \in 1 .. Len(Due') : Due'[i] = Due[i]
        /\ \E k \in Nat : /\ Len(Asked) = k + Len(Asked') /\ Asked' \in Seq(Sent)
                          /\ \A i \in 1 .. Len(Asked') : Asked'[i] = Asked[k + i]
    BY <1>9, BreaksIs
  <2>2. Known(DOMAIN ac.subs, Due', Asked', server)
    BY <1>0, <1>5, <2>1, KnownCut
  <2>3. Matched(ac.replies, Due', Asked', server, "broken")
    BY <1>0, <1>5, <2>1, MatchedCut
  <2>4. QED BY <2>1, <2>2, <2>3 DEF Subscribed
<1>10. CASE ServerReads
  <2> DEFINE c == Asked[1]
             r == Answer(Asked[1])
  <2>1. /\ link.state = "up" /\ ~server.full /\ Asked # <<>> /\ link'.state = link.state
        /\ Asked' = Tail(Asked) /\ c \in Sent /\ r \in Got /\ Due' = Append(Due, r)
        /\ server'.topics = CASE c.kind = "subscribe" -> server.topics \cup {c.topic}
                              [] c.kind = "unsubscribe" -> server.topics \ {c.topic}
                              [] OTHER -> server.topics
        /\ server'.full <=> server.full
    BY <1>10, ReadsIs
  <2>2. /\ c.kind \in {"subscribe", "unsubscribe"} => r.kind = c.kind /\ r.topic = c.topic
        /\ c.kind = "get" =>
             r.id = c.id /\ r.kind = IF server.topics = {} THEN "status" ELSE "error"
    BY <2>1, AnswerIs
  <2>3. /\ 1 \in 1 .. Len(Asked) /\ c.kind # "monitor"
        /\ \A j \in 1 .. Len(Asked) : Asked[j].kind = "unsubscribe" => j = Len(Asked)
    <3>1. Len(Asked) \in Nat /\ Len(Asked) >= 1
      BY <1>0, <2>1, TailOf
    <3>2. QED BY <1>4, <3>1 DEF Traced, Confirmed
  <2>4. Quiet => c.kind # "unsubscribe"
    BY <1>4, <2>3 DEF Traced, Quiet
  <2> HIDE DEF r
  <2>5. \/ c.kind = "get" /\ server'.topics = server.topics
        \/ c.kind = "subscribe" /\ server'.topics = server.topics \cup {c.topic}
        \/ c.kind = "unsubscribe" /\ server'.topics = server.topics \ {c.topic}
    BY <2>1, <2>3 DEF Sent, Kinds
  <2> HIDE DEF c
  <2>6. Known(DOMAIN ac.subs, Append(Due, r), Tail(Asked), server')
    <3>1. \/ /\ c.kind = "subscribe" /\ r.kind = "subscribe" /\ r.topic = c.topic
             /\ server'.topics = server.topics \cup {r.topic}
          \/ /\ c.kind = "unsubscribe" /\ r.kind = "unsubscribe" /\ r.topic = c.topic
             /\ server'.topics = server.topics \ {r.topic}
          \/ /\ c.kind \notin {"subscribe", "unsubscribe"} /\ r.kind \notin Heard
             /\ server'.topics = server.topics
      BY <2>2, <2>5 DEF Heard
    <3>2. QED BY <1>0, <1>5, <2>1, <2>3, <3>1, KnownReads DEF c
  <2>7. Matched(ac.replies, Append(Due, r), Tail(Asked), server', link.state)
    <3>1. \/ /\ c.kind = "get" /\ server'.topics = server.topics /\ r.id = c.id
             /\ server.topics = {} => r.kind = "status"
             /\ server.topics # {} => r.kind = "error"
          \/ c.kind = "subscribe" /\ r.kind = "subscribe" /\ server'.topics # {}
          \/ c.kind = "unsubscribe" /\ r.kind = "unsubscribe"
      BY <2>2, <2>5
    <3>2. QED BY <1>0, <1>5, <2>1, <2>3, <3>1, MatchedReads DEF c
  <2>8. ASSUME Quiet, Subscribed(ac.flags, Asked, server, link.state)
        PROVE  Subscribed(ac.flags, Tail(Asked), server', link.state)
    <3>1. /\ c.kind = "subscribe" => server'.topics # {}
          /\ c.kind # "subscribe" => server'.topics = server.topics
      BY <2>4, <2>5, <2>8
    <3>2. QED BY <1>0, <2>1, <2>8, <3>1, SubscribedReads DEF c
  <2>9. QED BY <2>1, <2>6, <2>7, <2>8
<1>11. QED BY <1>7, <1>8, <1>9, <1>10 DEF Network

LEMMA OwnedStep == TypeOK /\ Locks /\ Phases /\ Lined /\ Owned /\ [Next]_vars => Owned'
<1> SUFFICES ASSUME TypeOK, Locks, Phases, Lined, Owned, [Next]_vars PROVE Owned'
  OBVIOUS
<1>1. CASE UNCHANGED vars
  <2>1. Due' = Due /\ Asked' = Asked
    BY <1>1 DEF vars, Due, Asked
  <2>2. QED BY <1>1, <2>1, OwnedQuiet DEF vars
<1>2. CASE Running /\ Poll
  BY <1>2, OwnedPoll, OwnedReply
<1>3. ASSUME Running, NEW t \in Threads, Both(t) PROVE Owned'
  BY <1>3, OwnedBoth
<1>4. CASE Running /\ User
  BY <1>4, OwnedCommand, OwnedClose DEF User
<1>5. CASE Running /\ (Network \/ ServerReads)
  BY <1>5, OwnedNetwork
<1>6. QED BY <1>1, <1>2, <1>3, <1>4, <1>5 DEF Next

\* While commands, messages of topics and confirmations are mixed on a connection, each
\* reply goes to the callback of its own command or topic, as long as the user sends
\* nothing after he left a topic, leaves only topics he subscribed to, does not monitor,
\* and closes the connection only in a callback for a reply; without any of these it may
\* not (redisProcessCallbacks and __redisGetSubscribeCallback, async.c:364-478).
THEOREM RepliesAreOnesOwn == Spec => [](Orderly /\ ~hasty => OwnReply)
<1>1. Spec => [](TypeOK /\ Locks /\ Phases /\ Lined /\ Owned)
  BY TypeInit, TypeStep, PhasesInit, PhasesStep, LinedInit, LinedStep,
     OwnedInit, OwnedStep, PTL DEF Spec
<1>2. Owned => (Orderly /\ ~hasty => OwnReply)
  BY DEF Owned
<1>3. QED BY <1>1, <1>2, PTL
=============================================================================
